--------------------------- MODULE ReasoningCache ---------------------------
(***************************************************************************)
(* The process-wide cache of reasoning proofs (converter/reasoning.go): a   *)
(* response's proof is kept under the id of the tool call it led to, for a  *)
(* later request to replay.  A mutex makes Set and Get atomic.              *)
(*                                                                         *)
(* Every Set reads the clock once, under the mutex, so two entries never    *)
(* carry the same time: the clock moves with each Set, and by itself.       *)
(* The history variable records what was last set, for the properties.      *)
(***************************************************************************)
EXTENDS Integers, FiniteSets

CONSTANTS
    CallIDs,        \* ids of tool calls; the empty id is not among them
    Proofs,         \* reasoning proofs with both their fields filled
    Capacity,       \* reasoningCacheCapacity (2048)
    TTL,            \* reasoningCacheTTL (30 min)
    MaxTime         \* bound: the clock stops here, and so do the Sets

ASSUME CacheAssumption ==
    /\ Capacity \in Nat \ {0}
    /\ TTL \in Nat
    /\ MaxTime \in Nat

VARIABLES
    now,            \* time.Now()
    entries,        \* the map: a function on the call ids it holds
    last            \* history: the last Set of every call id

cacheVars == <<now, entries, last>>

-----------------------------------------------------------------------------
\* since counts the Sets that came after this one; at = 0: never set.
History == [at : Nat, since : Nat]

CacheInit ==
    /\ now = 1
    /\ entries = [c \in {} |-> 0]
    /\ last = [c \in CallIDs |-> [at |-> 0, since |-> 0]]

-----------------------------------------------------------------------------
\* time.Since(createdAt) > TTL.
Expired(c) == now - entries[c].createdAt > TTL

Unexpired == {c \in DOMAIN entries : ~Expired(c)}

IsOldest(c) ==
    /\ c \in Unexpired
    /\ \A d \in Unexpired : entries[c].createdAt <= entries[d].createdAt

\* Variations: room is made one entry too late, and for the newest entry.
Evict_late(kept) ==
    IF Cardinality(DOMAIN entries) <= Capacity THEN kept = DOMAIN entries
    ELSE IF Cardinality(Unexpired) <= Capacity THEN kept = Unexpired
    ELSE \E c \in Unexpired : IsOldest(c) /\ kept = Unexpired \ {c}

Evict_newest(kept) ==
    IF Cardinality(DOMAIN entries) < Capacity THEN kept = DOMAIN entries
    ELSE IF Cardinality(Unexpired) < Capacity THEN kept = Unexpired
    ELSE \E c \in Unexpired :
           /\ \A d \in Unexpired : entries[d].createdAt <= entries[c].createdAt
           /\ kept = Unexpired \ {c}

\* Only a full cache is swept: the expired entries go, and one more if that
\* makes no room, whether or not the call id to be set is among them.
Evict(kept) ==
    IF Cardinality(DOMAIN entries) < Capacity THEN kept = DOMAIN entries
    ELSE IF Cardinality(Unexpired) < Capacity THEN kept = Unexpired
    ELSE \E c \in Unexpired : IsOldest(c) /\ kept = Unexpired \ {c}

Set(callID, item) ==
    /\ now < MaxTime
    /\ now' = now + 1
    /\ \E kept \in SUBSET DOMAIN entries :
         /\ Evict(kept)
         /\ entries' = [c \in kept \cup {callID} |->
                          IF c = callID THEN [item |-> item, createdAt |-> now]
                          ELSE entries[c]]
    /\ last' = [c \in CallIDs |->
                  IF c = callID THEN [at |-> now, since |-> 0]
                  ELSE [last[c] EXCEPT !.since = @ + 1]]

Tick ==
    /\ now' = IF now < MaxTime THEN now + 1 ELSE now
    /\ UNCHANGED <<entries, last>>

\* Get finds a proof for the call id.  Nothing changes.
Hit(callID) == callID \in DOMAIN entries /\ ~Expired(callID)

CacheNext ==
    \/ \E callID \in CallIDs, item \in Proofs : Set(callID, item)
    \/ Tick

CacheSpec == CacheInit /\ [][CacheNext]_cacheVars

-----------------------------------------------------------------------------
\* The map never outgrows its capacity, although expired entries are swept only
\* when a Set finds it full (reasoning.go:47-62).
SizeBounded == Cardinality(DOMAIN entries) <= Capacity

\* A proof is there to be replayed, and is the last one set for its call, until
\* it expires or as many Sets as the cache holds entries have come after it:
\* overwriting a call that is in a full cache may evict another, but never early.
KeptUntilDue ==
    \A c \in CallIDs :
        /\ last[c].at > 0 /\ last[c].since < Capacity /\ now - last[c].at <= TTL
        => Hit(c) /\ entries[c].createdAt = last[c].at
=============================================================================
