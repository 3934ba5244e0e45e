----------------------------- MODULE RateLimiter -----------------------------
(***************************************************************************)
(* The relay's rate limiter: wallet-ui/relay/src/server.ts, class          *)
(* RateLimiter.  A fixed window per key, in a map of bounded size.  A key  *)
(* names a route, a peer and, past the first bucket, a registry binding;   *)
(* every caller of one key passes the same maximum.  The clock is the      *)
(* process's monotonic one.                                                *)
(***************************************************************************)
EXTENDS Integers, FiniteSets

CONSTANTS
  Keys,
  MaxRequests,  \* the `maximum' the callers of a key pass, per key
  MaxBuckets,   \* maxBuckets
  Window,       \* windowMs
  MaxNow        \* bound: the last clock reading

ASSUME RateLimiterAssumption ==
  /\ MaxBuckets \in Nat \ {0}
  /\ Window \in Nat \ {0}
  /\ MaxNow \in Nat
  /\ MaxRequests \in [Keys -> Nat \ {0}]

VARIABLES
  now,       \* monotonicNow()
  buckets,   \* #buckets: key -> [count, startedAt], for the keys it holds
  through,   \* history: key -> clock reading -> requests let through up to it
  refused    \* history: the keys refused since the clock last moved

limiterVars == <<now, buckets, through, refused>>

Bucket == [count : Nat \ {0}, startedAt : 0..MaxNow]

Running(b) == now - b.startedAt < Window

LiveKeys == {k \in DOMAIN buckets : Running(buckets[k])}

(* Fault: a full map is never swept. *)
SweptNever(key) == DOMAIN buckets

(* The keys left when a new key has found the map full and swept it. *)
Swept(key) == IF key \notin DOMAIN buckets /\ Cardinality(DOMAIN buckets) >= MaxBuckets
                THEN LiveKeys
                ELSE DOMAIN buckets

-----------------------------------------------------------------------------
LimiterInit ==
  /\ now = 0
  /\ buckets = [k \in {} |-> [count |-> 1, startedAt |-> 0]]
  /\ through = [k \in Keys |-> [t \in 0..MaxNow |-> 0]]
  /\ refused = {}

Admit(key) ==
  /\ through' = [through EXCEPT ![key] =
                    [t \in 0..MaxNow |-> IF t < now THEN @[t] ELSE @[t] + 1]]
  /\ UNCHANGED refused

Refuse(key) == refused' = refused \cup {key} /\ UNCHANGED through

(* take in a running window: count up, or refuse without counting. *)
RefuseInWindow(key) ==
  /\ key \in DOMAIN buckets
  /\ Running(buckets[key])
  /\ buckets[key].count >= MaxRequests[key]
  /\ Refuse(key)
  /\ UNCHANGED <<now, buckets>>

TakeInWindow(key) ==
  /\ key \in DOMAIN buckets
  /\ Running(buckets[key])
  /\ buckets[key].count < MaxRequests[key]
  /\ buckets' = [buckets EXCEPT ![key].count = @ + 1]
  /\ Admit(key)
  /\ UNCHANGED now

(* Fault: the count starts over and the window does not. *)
TakeAfterWindowKeepsStart(key) ==
  /\ key \in DOMAIN buckets
  /\ ~Running(buckets[key])
  /\ buckets' = [buckets EXCEPT ![key].count = 1]
  /\ Admit(key)
  /\ UNCHANGED now

(* take with a window that has run out: the bucket starts over. *)
TakeAfterWindow(key) ==
  /\ key \in DOMAIN buckets
  /\ ~Running(buckets[key])
  /\ buckets' = [buckets EXCEPT ![key] = [count |-> 1, startedAt |-> now]]
  /\ Admit(key)
  /\ UNCHANGED now

(* Fault: the map is not checked again after the sweep. *)
TakeNewUnchecked(key) ==
  /\ key \notin DOMAIN buckets
  /\ buckets' = [k \in Swept(key) \cup {key} |->
                   IF k = key THEN [count |-> 1, startedAt |-> now] ELSE buckets[k]]
  /\ Admit(key)
  /\ UNCHANGED now

(* take with a key the map does not hold, when there is, or can be made,   *)
(* room for it.                                                            *)
TakeNew(key) ==
  /\ key \notin DOMAIN buckets
  /\ Cardinality(Swept(key)) < MaxBuckets
  /\ buckets' = [k \in Swept(key) \cup {key} |->
                   IF k = key THEN [count |-> 1, startedAt |-> now] ELSE buckets[k]]
  /\ Admit(key)
  /\ UNCHANGED now

(* A new key is refused, but the sweep it made stays. *)
RefuseNew(key) ==
  /\ key \notin DOMAIN buckets
  /\ Cardinality(Swept(key)) >= MaxBuckets
  /\ buckets' = [k \in Swept(key) |-> buckets[k]]
  /\ Refuse(key)
  /\ UNCHANGED now

LimiterTick ==
  /\ now < MaxNow
  /\ now' = now + 1
  /\ refused' = {}
  /\ UNCHANGED <<buckets, through>>

Take(key) ==
  \/ TakeInWindow(key) \/ RefuseInWindow(key) \/ TakeAfterWindow(key)
  \/ TakeNew(key) \/ RefuseNew(key)

LimiterNext == LimiterTick \/ \E key \in Keys : Take(key)

LimiterSpec == LimiterInit /\ [][LimiterNext]_limiterVars

-----------------------------------------------------------------------------
(* Properties *)

(* The map holds well-formed buckets started in the past. *)
LimiterTypeOK ==
  /\ now \in 0..MaxNow
  /\ DOMAIN buckets \subseteq Keys
  /\ buckets \in [DOMAIN buckets -> Bucket]
  /\ through \in [Keys -> [0..MaxNow -> Nat]]
  /\ refused \subseteq Keys

(* The map never holds more than maxBuckets keys. *)
MapBounded == IsFiniteSet(DOMAIN buckets) /\ Cardinality(DOMAIN buckets) <= MaxBuckets

(* No bucket counts past its key's maximum, or from the future. *)
CountsBounded ==
  \A k \in DOMAIN buckets :
    buckets[k].count <= MaxRequests[k] /\ buckets[k].startedAt <= now

(* A key is refused only while a used-up window of its own, or a map full  *)
(* of running windows, stands against it: sweeping first means a stale     *)
(* bucket never costs a new key its place.                                 *)
RefusedOnlyWhenFull ==
  \A k \in refused :
    \/ k \in LiveKeys /\ buckets[k].count >= MaxRequests[k]
    \/ Cardinality(LiveKeys) >= MaxBuckets

(* The requests of a key let through at readings before t. *)
Before(k, t) == IF t = 0 THEN 0 ELSE through[k][t - 1]

(* The promise of a fixed window: whichever stretch of less than one       *)
(* window's length is looked at, from reading t to reading u, a key got    *)
(* through at most twice its maximum in it, also when its bucket was swept *)
(* and made anew in between.                                               *)
AtMostTwiceTheMaximum ==
  \A k \in Keys, t, u \in 0..MaxNow :
    t <= u /\ u - t < Window => through[k][u] - Before(k, t) <= 2 * MaxRequests[k]

(* The two together: neither the map nor what a key gets grows past what   *)
(* was configured.                                                         *)
LimitsHold == MapBounded /\ AtMostTwiceTheMaximum
=============================================================================
