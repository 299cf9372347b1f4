--------------------------- MODULE AtomicStorage ----------------------------
(***************************************************************************)
(* What the storage of one user promises a client that is alone: every     *)
(* request takes effect at one instant.  A write replaces all its objects  *)
(* and stamps them and their collection with one time, at least as late as *)
(* any time given out before in that collection; a deletion removes what   *)
(* it names and nothing else; an object disappears when its expiry passes  *)
(* and for no other reason.  StorageManager needs many database calls for  *)
(* one request: that it still keeps this promise, one request at a time,   *)
(* is checked as a refinement in MCStorageManager and proved in            *)
(* StorageSerialProofs.                                                    *)
(***************************************************************************)
EXTENDS Integers

CONSTANTS Collections, Ids, Sizes, TTLs, TicksPerSecond, Existing, None

VARIABLES
  store,   \* store[c][id]: the visible object, or None
  stamp,   \* stamp[c]: last-modified time of the collection, None if it is gone
  clock

vars == <<store, stamp, clock>>

Gone(obj, time) == obj # None /\ obj.expiry # None
                   /\ obj.expiry * TicksPerSecond < time

\* The objects of s that are still visible at the given time.
Visible(s, time) ==
  [c \in Collections |-> [id \in Ids |-> IF Gone(s[c][id], time) THEN None
                                          ELSE s[c][id]]]

Init ==
  /\ store = [c \in Collections |-> [id \in Ids |-> None]]
  /\ stamp = [c \in Collections |-> IF c \in Existing THEN 1 ELSE None]
  /\ clock = 1

Advance ==
  /\ clock' = clock + 1
  /\ store' = Visible(store, clock')
  /\ UNCHANGED stamp

\* An expiry is a second, counted from some instant since the stamp was taken.
Expiries(t) == {None} \cup {(s \div TicksPerSecond) + ttl : s \in t .. clock, ttl \in TTLs}

Write(c, ids) ==
  \E t \in 1 .. clock, size \in [ids -> Sizes] : \E expiry \in Expiries(t) :
    /\ stamp[c] # None => stamp[c] <= t
    /\ store' = Visible([store EXCEPT ![c] =
                  [id \in Ids |-> IF id \in ids
                     THEN [modified |-> t, size |-> size[id], expiry |-> expiry]
                     ELSE store[c][id]]], clock)
    /\ stamp' = [stamp EXCEPT ![c] = t]
    /\ UNCHANGED clock

Without(c, ids) ==
  [store EXCEPT ![c] = [id \in Ids |-> IF id \in ids THEN None ELSE store[c][id]]]

\* DELETE of one object leaves the stamp of the collection alone.
DeleteObject(c, id) ==
  /\ store[c][id] # None
  /\ store' = Without(c, {id})
  /\ UNCHANGED <<stamp, clock>>

DeleteObjects(c, ids) ==
  /\ stamp[c] # None
  /\ \E t \in stamp[c] .. clock : stamp' = [stamp EXCEPT ![c] = t]
  /\ store' = Without(c, ids)
  /\ UNCHANGED clock

DeleteCollection(c) ==
  /\ stamp[c] # None
  /\ store' = Without(c, Ids)
  /\ stamp' = [stamp EXCEPT ![c] = None]
  /\ UNCHANGED clock

Next ==
  \/ Advance
  \/ \E c \in Collections :
       \/ \E ids \in SUBSET Ids : Write(c, ids) \/ DeleteObjects(c, ids)
       \/ \E id \in Ids : DeleteObject(c, id)
       \/ DeleteCollection(c)

Spec == Init /\ [][Next]_vars
=============================================================================
