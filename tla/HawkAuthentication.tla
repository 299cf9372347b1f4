------------------------- MODULE HawkAuthentication -------------------------
(***************************************************************************)
(* How the storage server authenticates a request (services/               *)
(* hawk_service.py and middlewares/hawk_auth.py, around mohawk.Receiver).  *)
(* Clients sign requests with credentials of the token server.  A Lambda   *)
(* execution environment, a process here, validates one request at a time, *)
(* with a cache of credentials of its own; the nonces of accepted requests *)
(* are shared through DynamoDB.  The network may deliver a signed request  *)
(* late and more than once, to processes that work at the same time.       *)
(*                                                                         *)
(* One action is one DynamoDB call, or one look into the cache, with the   *)
(* local computation after it.                                             *)
(***************************************************************************)
EXTENDS Integers, FiniteSets

CONSTANTS
    Process,         \* execution environments
    Skew,            \* timestamp_skew_tolerance, in seconds
    TokenDuration,   \* seconds from the issue of a token to its expiry
    CacheTTL,        \* CREDENTIAL_CACHE_TTL_SECONDS
    Patience,        \* seconds after which an invocation is killed
    SweepLag,        \* seconds an expired nonce stays at least
    ReadLag,         \* seconds after which a read sees a replacement
    MaxKeys,         \* bound: credentials issued
    MaxSigned,       \* bound: requests signed
    MaxTime          \* bound: the clock

ASSUME HawkAssumption ==
    /\ {Skew, TokenDuration, CacheTTL, Patience, SweepLag, ReadLag,
        MaxKeys, MaxSigned, MaxTime} \subseteq Nat
    /\ Patience <= SweepLag

VARIABLES
    token,      \* TOKEN# items, and those replaced, with the time of it
    nonce,      \* NONCE# items
    cache,      \* the credential cache of each process
    run,        \* what each process is doing
    signed,     \* the requests that clients have signed
    accepted,   \* the requests that passed, with the times of it
    now         \* time.time() in whole seconds

vars == <<token, nonce, cache, run, signed, accepted, now>>

(* The Hawk id of a token is its expiry: user and generation are the same  *)
(* for all of them here.  Keys are numbered.                               *)
Token == [id : Nat, key : Nat, gone : Nat \union {-1}]
Message == [n : Nat, ts : Nat, id : Nat, key : Nat]
Nonce == [n : Nat, expiry : Nat]
Entry == [id : Nat, key : Nat, until : Nat]

NoMessage == [n |-> 0, ts |-> 0, id |-> 0, key |-> 0]

Invocation ==
    [pc : {"idle", "order", "lookup", "nonce"}, message : Message,
     begun : Nat, checked : Nat]

Idle == [pc |-> "idle", message |-> NoMessage, begun |-> 0, checked |-> 0]

Init ==
    /\ token = {}
    /\ nonce = {}
    /\ cache = [p \in Process |-> {}]
    /\ run = [p \in Process |-> Idle]
    /\ signed = {}
    /\ accepted = {}
    /\ now = 0

(***************************************************************************)
(* Tokens and signed requests                                              *)
(***************************************************************************)
(* store_token_in_cache: a token issued in the same second is replaced.    *)
Issue ==
    /\ Cardinality(token) < MaxKeys
    /\ LET id == now + TokenDuration
       IN  token' = {IF t.id = id /\ t.gone = -1 THEN [t EXCEPT !.gone = now] ELSE t :
                        t \in token}
                       \union {[id |-> id, key |-> Cardinality(token) + 1, gone |-> -1]}
    /\ UNCHANGED <<nonce, cache, run, signed, accepted, now>>

(* A client signs with any credential it was ever given, by its own clock. *)
Sign ==
    /\ Cardinality(signed) < MaxSigned
    /\ \E t \in token, ts \in 0 .. MaxTime :
          signed' = signed \union
              {[n |-> Cardinality(signed) + 1, ts |-> ts, id |-> t.id, key |-> t.key]}
    /\ UNCHANGED <<token, nonce, cache, run, accepted, now>>

(***************************************************************************)
(* Validation                                                              *)
(***************************************************************************)
At(p, label) == run[p].pc = label
M(p) == run[p].message

Refuse(p) == run' = [run EXCEPT ![p] = Idle]

(* A slip: the last second counts. *)
NotExpiredYet(id) == now <= id

(* validate_hawk_id_expiry *)
NotExpired(id) == now < id

(* A signed request is delivered.  With several query parameters, their    *)
(* order is found out first.                                               *)
Begin(p) ==
    /\ At(p, "idle")
    /\ \E m \in signed, label \in {"order", "lookup"} :
          /\ NotExpired(m.id)
          /\ run' = [run EXCEPT ![p] = [pc |-> label, message |-> m,
                                        begun |-> now, checked |-> now]]
    /\ UNCHANGED <<token, nonce, cache, signed, accepted, now>>

(* A slip: entries do not expire. *)
CachedForever(p, id) == {c \in cache[p] : c.id = id}

Cached(p, id) == {c \in cache[p] : c.id = id /\ now < c.until}

(* get_item without ConsistentRead: a replica may not know a token yet, or *)
(* still have the one before.                                              *)
Stored(id) == {t \in token : t.id = id /\ (t.gone = -1 \/ now <= t.gone + ReadLag)}

(* get_hawk_key_from_cache: the cached entry, or a read that is cached.    *)
Found(p, key) ==
    LET id == M(p).id
    IN  \/ \E c \in Cached(p, id) : c.key = key /\ UNCHANGED cache
        \/ /\ Cached(p, id) = {}
           /\ \E t \in Stored(id) :
                 /\ t.key = key
                 /\ cache' = [cache EXCEPT ![p] =
                       {c \in @ : c.id # id /\ now < c.until}
                          \union {[id |-> id, key |-> key, until |-> now + CacheTTL]}]

(* A slip: that there is none is cached, too. *)
CorrectQueryOrderCachingMisses(p) ==
    /\ At(p, "order")
    /\ \/ \E t \in token : Found(p, t.key)
       \/ /\ Cached(p, M(p).id) = {}
          /\ cache' = [cache EXCEPT ![p] = @ \union
                {[id |-> M(p).id, key |-> -1, until |-> now + CacheTTL]}]
    /\ run' = [run EXCEPT ![p].pc = "lookup"]
    /\ UNCHANGED <<token, nonce, signed, accepted, now>>

(* _correct_query_order looks the key up, and goes on without an error if  *)
(* there is none.                                                          *)
CorrectQueryOrder(p) ==
    /\ At(p, "order")
    /\ \/ \E t \in token : Found(p, t.key)
       \/ Cached(p, M(p).id) = {} /\ UNCHANGED cache
    /\ run' = [run EXCEPT ![p].pc = "lookup"]
    /\ UNCHANGED <<token, nonce, signed, accepted, now>>

(* mohawk looks the key up, reads the clock and compares the MAC.          *)
CheckMac(p) ==
    /\ At(p, "lookup")
    /\ \E t \in token :
          /\ Found(p, t.key)
          /\ IF t.key = M(p).key
                THEN run' = [run EXCEPT ![p].pc = "nonce", ![p].checked = now]
                ELSE Refuse(p)
    /\ UNCHANGED <<token, nonce, signed, accepted, now>>

(* A slip: the nonce is kept for the tolerated skew, not for twice that.   *)
NonceExpiryShort == now + Skew

NonceExpiry == now + Skew * 2

Recent(p) == /\ M(p).ts <= run[p].checked + Skew
             /\ run[p].checked <= M(p).ts + Skew

(* mohawk calls _seen_nonce, which puts the nonce unless it is there, and  *)
(* then compares the timestamp with the time it read before.               *)
PutNonce(p) ==
    /\ At(p, "nonce")
    /\ IF \E x \in nonce : x.n = M(p).n
          THEN UNCHANGED <<nonce, accepted>>
          ELSE /\ nonce' = nonce \union {[n |-> M(p).n, expiry |-> NonceExpiry]}
               /\ IF Recent(p)
                     THEN accepted' = accepted \union
                             {[message |-> M(p), by |-> p, begun |-> run[p].begun,
                               checked |-> run[p].checked, done |-> now]}
                     ELSE UNCHANGED accepted
    /\ Refuse(p)
    /\ UNCHANGED <<token, cache, signed, now>>

(* Another error, a uid in the path that is not the token's, or an         *)
(* invocation that dies; a new environment starts with an empty cache.     *)
Stop(p) ==
    /\ ~At(p, "idle")
    /\ Refuse(p)
    /\ \/ UNCHANGED cache
       \/ cache' = [cache EXCEPT ![p] = {}]
    /\ UNCHANGED <<token, nonce, signed, accepted, now>>

(***************************************************************************)
(* Time                                                                    *)
(***************************************************************************)
(* DynamoDB deletes an expired nonce; invocations that looked at the clock *)
(* before it expired are over by then.                                     *)
Sweep ==
    /\ \E x \in nonce : x.expiry + SweepLag < now /\ nonce' = nonce \ {x}
    /\ UNCHANGED <<token, cache, run, signed, accepted, now>>

(* No invocation outlives its time limit. *)
Tick ==
    /\ now < MaxTime
    /\ \A p \in Process : ~At(p, "idle") => now < run[p].begun + Patience
    /\ now' = now + 1
    /\ UNCHANGED <<token, nonce, cache, run, signed, accepted>>

Validate(p) == Begin(p) \/ CorrectQueryOrder(p) \/ CheckMac(p) \/ PutNonce(p) \/ Stop(p)

Next ==
    \/ Issue \/ Sign
    \/ \E p \in Process : Validate(p)
    \/ Sweep \/ Tick

Spec == Init /\ [][Next]_vars

(***************************************************************************)
(* Properties                                                              *)
(***************************************************************************)
Acceptance ==
    [message : Message, by : Process, begun : Nat, checked : Nat, done : Nat]

TypeOK ==
    /\ token \subseteq Token
    /\ nonce \subseteq Nonce
    /\ cache \in [Process -> SUBSET Entry]
    /\ run \in [Process -> Invocation]
    /\ signed \subseteq Message
    /\ accepted \subseteq Acceptance
    /\ now \in Nat

(* A signed request is accepted once, whichever processes it is delivered  *)
(* to, as often and as late as the network likes: a nonce is on record as  *)
(* long as the timestamp it came with would pass (_seen_nonce keeps it for *)
(* twice the tolerated skew, and the clock is read before it is put).      *)
AcceptedOnce ==
    \A x, y \in accepted : x.message.n = y.message.n => x = y

(* A key that was replaced is accepted no longer than a cache entry and a  *)
(* read that lags behind may account for.                                  *)
ReplacedKeyFades ==
    \A x \in accepted, t \in token :
        /\ t.id = x.message.id
        /\ t.key = x.message.key
        /\ t.gone # -1
        => x.checked <= t.gone + ReadLag + CacheTTL

(* A request is let through before its token expires or, when validation   *)
(* itself took that long, within the time limit of an invocation, although *)
(* neither the cache nor the stored item is compared with the expiry.      *)
ExpiredIsRefused == \A x \in accepted : x.done < x.message.id + Patience
=============================================================================
