---------------------------- MODULE TurnsProofs -----------------------------
(***************************************************************************)
(* Proofs about ReasoningCache and about ToolTurns, for any capacity and   *)
(* any number of calls, items and turns.                                   *)
(*                                                                         *)
(* The cache never outgrows its capacity, and no proof leaves it early.    *)
(* The capture finds what its definition says: by induction over the       *)
(* items, the proof in hand is the one that still waits for its call.      *)
(* Calls have ids of their own, so what is stored under one is the proof   *)
(* it followed, and stays so; what the client's copy holds was stored      *)
(* before it was delivered, so a proof that is not found is due to have    *)
(* left.                                                                   *)
(***************************************************************************)
EXTENDS ToolTurns, SequenceLemmas, FiniteSetTheorems

(* The cache alone.  A proof is evicted as the oldest of a full cache: all the *)
(* others were set after it, so as many Sets as they are have come since.      *)

\* The bound on a cardinality says something only of a finite set.
SizeInv == IsFiniteSet(DOMAIN entries) /\ SizeBounded

\* What Evict leaves has room for one more.
LEMMA EvictMakesRoom ==
    ASSUME SizeInv, NEW kept \in SUBSET DOMAIN entries, Evict(kept)
    PROVE  IsFiniteSet(kept) /\ Cardinality(kept) < Capacity
<1>1. IsFiniteSet(DOMAIN entries) /\ Cardinality(DOMAIN entries) \in Nat
        /\ Cardinality(DOMAIN entries) <= Capacity /\ Capacity \in Nat
  BY CacheAssumption, FS_CardinalityType DEF SizeInv, SizeBounded
<1>2. Unexpired \subseteq DOMAIN entries
  BY DEF Unexpired
<1>3. IsFiniteSet(Unexpired) /\ Cardinality(Unexpired) \in Nat
        /\ Cardinality(Unexpired) <= Cardinality(DOMAIN entries)
  BY <1>1, <1>2, FS_Subset, FS_CardinalityType
<1>4. CASE Cardinality(DOMAIN entries) < Capacity /\ kept = DOMAIN entries
  BY <1>1, <1>4
<1>5. CASE Cardinality(Unexpired) < Capacity /\ kept = Unexpired
  BY <1>3, <1>5
<1>6. CASE \E c \in Unexpired : kept = Unexpired \ {c}
  <2>1. PICK c \in Unexpired : kept = Unexpired \ {c}
    BY <1>6
  <2>2. IsFiniteSet(kept) /\ Cardinality(kept) = Cardinality(Unexpired) - 1
    BY <1>3, <2>1, FS_RemoveElement
  <2>. QED  BY <1>1, <1>3, <2>2
<1>. QED  BY <1>4, <1>5, <1>6 DEF Evict

LEMMA SizeInit == CacheInit => SizeInv
<1>1. DOMAIN [c \in {} |-> 0] = {}
  OBVIOUS
<1>2. IsFiniteSet({}) /\ Cardinality({}) = 0 /\ 0 <= Capacity
  BY CacheAssumption, FS_EmptySet
<1>. QED  BY <1>1, <1>2 DEF CacheInit, SizeInv, SizeBounded

LEMMA SizeNext == SizeInv /\ [CacheNext]_cacheVars => SizeInv'
<1>. SUFFICES ASSUME SizeInv, [CacheNext]_cacheVars
              PROVE  SizeInv'
  OBVIOUS
<1>1. CASE Tick \/ UNCHANGED cacheVars
  BY <1>1 DEF Tick, cacheVars, SizeInv, SizeBounded
<1>2. ASSUME NEW callID \in CallIDs, NEW item \in Proofs, Set(callID, item)
      PROVE  SizeInv'
  <2>1. PICK kept \in SUBSET DOMAIN entries :
            /\ Evict(kept)
            /\ entries' = [c \in kept \cup {callID} |->
                             IF c = callID THEN [item |-> item, createdAt |-> now]
                             ELSE entries[c]]
    BY <1>2 DEF Set
  <2>2. IsFiniteSet(kept) /\ Cardinality(kept) < Capacity
    BY <2>1, EvictMakesRoom
  <2>3. DOMAIN entries' = kept \cup {callID}
    BY <2>1
  <2>4. /\ IsFiniteSet(kept \cup {callID})
        /\ \/ Cardinality(kept \cup {callID}) = Cardinality(kept)
           \/ Cardinality(kept \cup {callID}) = Cardinality(kept) + 1
    BY <2>2, FS_AddElement
  <2>5. Cardinality(kept) \in Nat /\ Capacity \in Nat
    BY <2>2, FS_CardinalityType, CacheAssumption
  <2>6. Cardinality(kept \cup {callID}) <= Capacity
    BY <2>2, <2>4, <2>5
  <2>. QED  BY <2>3, <2>4, <2>6 DEF SizeInv, SizeBounded
<1>. QED  BY <1>1, <1>2 DEF CacheNext

\* However the calls of all conversations interleave, and whatever has expired
\* or not when a Set finds the cache full, the map stays within its capacity.
THEOREM CacheBounded == CacheSpec => []SizeBounded
<1>1. SizeInv => SizeBounded
  BY DEF SizeInv
<1>. QED  BY <1>1, SizeInit, SizeNext, PTL DEF CacheSpec

-----------------------------------------------------------------------------
\* The entries set after the last Set of a call.
Newer(c) == {d \in DOMAIN entries : entries[d].createdAt > last[c].at}

HistoryInv ==
    /\ now \in Nat
    /\ last \in [CallIDs -> History]
    /\ \A c \in CallIDs : last[c].at < now

\* An entry is the one last set for its call, at a time of its own.
EntriesInv ==
    /\ DOMAIN entries \subseteq CallIDs
    /\ \A c \in DOMAIN entries : entries[c].createdAt = last[c].at /\ last[c].at > 0
    /\ \A c, d \in DOMAIN entries : c # d => entries[c].createdAt # entries[d].createdAt

\* Each of the newer entries came with a Set, and a proof not due is there.
DueInv ==
    /\ \A c \in CallIDs : last[c].at > 0 => Cardinality(Newer(c)) <= last[c].since
    /\ \A c \in CallIDs :
         last[c].at > 0 /\ last[c].since < Capacity /\ now - last[c].at <= TTL
           => c \in DOMAIN entries

KeptInv == SizeInv /\ HistoryInv /\ EntriesInv /\ DueInv

LEMMA KeptInit == CacheInit => KeptInv
<1>. SUFFICES ASSUME CacheInit PROVE KeptInv
  OBVIOUS
<1>1. DOMAIN entries = {}
  BY DEF CacheInit
<1>2. \A c \in CallIDs : last[c] = [at |-> 0, since |-> 0]
  BY DEF CacheInit
<1>3. HistoryInv
  BY <1>2 DEF CacheInit, HistoryInv, History
<1>. QED  BY <1>1, <1>2, <1>3, SizeInit DEF KeptInv, EntriesInv, DueInv

\* A proof that is not due is not the one to make room.
LEMMA EvictKeeps ==
    ASSUME KeptInv, NEW kept \in SUBSET DOMAIN entries, Evict(kept),
           NEW c \in DOMAIN entries, last[c].since + 1 < Capacity, now - last[c].at <= TTL
    PROVE  c \in kept
<1>1. /\ entries[c].createdAt = last[c].at /\ last[c].at > 0 /\ c \in CallIDs
      /\ last[c] \in History /\ now \in Nat
  BY DEF KeptInv, EntriesInv, HistoryInv
<1>2. c \in Unexpired
  <2>1. ~(now - last[c].at > TTL)
    BY <1>1, CacheAssumption DEF History
  <2>. QED  BY <1>1, <2>1 DEF Unexpired, Expired
<1>3. ASSUME Cardinality(Unexpired) >= Capacity, IsOldest(c) PROVE FALSE
  <2>1. IsFiniteSet(DOMAIN entries) /\ Unexpired \subseteq DOMAIN entries
        /\ Newer(c) \subseteq DOMAIN entries
    BY DEF KeptInv, SizeInv, Unexpired, Newer
  <2>2. IsFiniteSet(Unexpired) /\ IsFiniteSet(Newer(c))
    BY <2>1, FS_Subset
  <2>3. Unexpired \ {c} \subseteq Newer(c)
    <3>1. ASSUME NEW d \in Unexpired, d # c PROVE d \in Newer(c)
      <4>1. d \in DOMAIN entries /\ entries[c].createdAt <= entries[d].createdAt
        BY <1>3, <2>1 DEF IsOldest
      <4>2. entries[c].createdAt # entries[d].createdAt
        BY <3>1, <4>1 DEF KeptInv, EntriesInv
      <4>3. entries[c].createdAt \in Nat /\ entries[d].createdAt \in Nat
        BY <4>1 DEF KeptInv, EntriesInv, HistoryInv, History
      <4>. QED  BY <1>1, <4>1, <4>2, <4>3 DEF Newer
    <3>. QED  BY <3>1
  <2>4. Cardinality(Unexpired \ {c}) = Cardinality(Unexpired) - 1
    BY <1>2, <2>2, FS_RemoveElement
  <2>5. Cardinality(Unexpired \ {c}) <= Cardinality(Newer(c))
    BY <2>2, <2>3, FS_Subset
  <2>6. Cardinality(Newer(c)) <= last[c].since
    BY <1>1 DEF KeptInv, DueInv
  <2>7. /\ Cardinality(Unexpired) \in Nat /\ Cardinality(Newer(c)) \in Nat
        /\ last[c].since \in Nat /\ Capacity \in Nat
    BY <1>1, <2>2, FS_CardinalityType, CacheAssumption DEF History
  <2>. QED  BY <1>3, <2>4, <2>5, <2>6, <2>7
<1>4. Cardinality(Unexpired) \in Nat /\ Capacity \in Nat
  <2>1. IsFiniteSet(Unexpired)
    BY FS_Subset DEF KeptInv, SizeInv, Unexpired
  <2>. QED  BY <2>1, FS_CardinalityType, CacheAssumption
<1>5. CASE kept = DOMAIN entries \/ kept = Unexpired
  BY <1>2, <1>5
<1>6. CASE Cardinality(Unexpired) >= Capacity /\ \E o \in Unexpired : IsOldest(o) /\ kept = Unexpired \ {o}
  BY <1>2, <1>3, <1>6
<1>. QED  BY <1>4, <1>5, <1>6 DEF Evict

LEMMA KeptNext == KeptInv /\ [CacheNext]_cacheVars => KeptInv'
<1>. SUFFICES ASSUME KeptInv, [CacheNext]_cacheVars PROVE KeptInv'
  OBVIOUS
<1>1. SizeInv'
  BY SizeNext DEF KeptInv
<1>2. CASE Tick \/ UNCHANGED cacheVars
  <2>1. entries' = entries /\ last' = last /\ now' \in {now, now + 1}
    BY <1>2 DEF Tick, cacheVars
  <2>2. HistoryInv'
    BY <2>1 DEF KeptInv, HistoryInv, History
  <2>3. EntriesInv'
    BY <2>1 DEF KeptInv, EntriesInv
  <2>4. \A c \in CallIDs : Newer(c)' = Newer(c)
    BY <2>1 DEF Newer
  <2>5. DueInv'
    BY <2>1, <2>4, CacheAssumption DEF KeptInv, DueInv, HistoryInv, History
  <2>. QED  BY <1>1, <2>2, <2>3, <2>5 DEF KeptInv
<1>3. ASSUME NEW callID \in CallIDs, NEW item \in Proofs, Set(callID, item) PROVE KeptInv'
  <2>1. PICK kept \in SUBSET DOMAIN entries :
            /\ Evict(kept)
            /\ entries' = [c \in kept \cup {callID} |->
                             IF c = callID THEN [item |-> item, createdAt |-> now]
                             ELSE entries[c]]
    BY <1>3 DEF Set
  <2>2. /\ now' = now + 1 /\ now \in Nat
        /\ \A c \in CallIDs : last[c] \in History /\ last[c].at < now
    BY <1>3 DEF Set, KeptInv, HistoryInv
  <2>3. /\ last'[callID] = [at |-> now, since |-> 0]
        /\ \A c \in CallIDs : c # callID =>
             last'[c].at = last[c].at /\ last'[c].since = last[c].since + 1
    BY <1>3, <2>2 DEF Set, History
  <2>4. HistoryInv'
    <3>1. \A c \in CallIDs : [last[c] EXCEPT !.since = @ + 1] \in History
      BY <2>2 DEF History
    <3>2. [at |-> now, since |-> 0] \in History
      BY <2>2 DEF History
    <3>3. last' \in [CallIDs -> History]
      BY <1>3, <3>1, <3>2 DEF Set
    <3>4. \A c \in CallIDs : last'[c].at < now'
      BY <2>2, <2>3 DEF History
    <3>. QED  BY <2>2, <3>3, <3>4 DEF HistoryInv
  <2>5. /\ DOMAIN entries' = kept \cup {callID}
        /\ entries'[callID].createdAt = now
        /\ \A c \in kept : c # callID => entries'[c] = entries[c]
    BY <2>1
  <2>6. now > 0
    BY <2>2 DEF History
  <2>7. EntriesInv'
    <3>1. \A c \in kept : c \in DOMAIN entries /\ c \in CallIDs
      BY <2>1 DEF KeptInv, EntriesInv
    <3>2. \A c \in kept : /\ entries[c].createdAt = last[c].at /\ last[c].at > 0
                          /\ last[c].at < now /\ last[c].at \in Nat
      BY <2>2, <3>1 DEF KeptInv, EntriesInv, History
    <3>3. \A c, d \in kept : c # d => entries[c].createdAt # entries[d].createdAt
      BY <3>1 DEF KeptInv, EntriesInv
    <3>4. \A c \in DOMAIN entries' : entries'[c].createdAt = last'[c].at /\ last'[c].at > 0
      BY <2>3, <2>5, <2>6, <3>1, <3>2
    <3>5. \A c, d \in DOMAIN entries' : c # d => entries'[c].createdAt # entries'[d].createdAt
      BY <2>2, <2>5, <3>2, <3>3
    <3>. QED  BY <2>5, <3>1, <3>4, <3>5 DEF EntriesInv
  <2>8. ASSUME NEW c \in CallIDs, last'[c].at > 0
        PROVE  Cardinality(Newer(c)') <= last'[c].since
    <3>1. CASE c = callID
      <4>1. \A d \in DOMAIN entries' : ~(entries'[d].createdAt > now)
        BY <2>2, <2>5, <2>7, <2>3, <2>4 DEF EntriesInv, HistoryInv, History
      <4>2. Newer(c)' = {}
        BY <2>3, <3>1, <4>1 DEF Newer
      <4>. QED  BY <2>3, <3>1, <4>2, FS_EmptySet
    <3>2. CASE c # callID
      <4>1. Newer(c)' \subseteq Newer(c) \cup {callID}
        BY <2>1, <2>3, <2>5, <3>2 DEF Newer
      <4>2. IsFiniteSet(Newer(c))
        BY FS_Subset DEF Newer, KeptInv, SizeInv
      <4>3. /\ IsFiniteSet(Newer(c) \cup {callID})
            /\ \/ Cardinality(Newer(c) \cup {callID}) = Cardinality(Newer(c))
               \/ Cardinality(Newer(c) \cup {callID}) = Cardinality(Newer(c)) + 1
        BY <4>2, FS_AddElement
      <4>4. /\ IsFiniteSet(Newer(c)')
            /\ Cardinality(Newer(c)') <= Cardinality(Newer(c) \cup {callID})
        BY <4>1, <4>3, FS_Subset
      <4>5. Cardinality(Newer(c)) <= last[c].since
        BY <2>3, <2>8, <3>2 DEF KeptInv, DueInv
      <4>6. /\ Cardinality(Newer(c)') \in Nat /\ Cardinality(Newer(c)) \in Nat
            /\ last[c].since \in Nat
        BY <2>2, <4>2, <4>4, FS_CardinalityType DEF History
      <4>. QED  BY <2>3, <3>2, <4>3, <4>4, <4>5, <4>6
    <3>. QED  BY <3>1, <3>2
  <2>9. ASSUME NEW c \in CallIDs, last'[c].at > 0, last'[c].since < Capacity,
               now' - last'[c].at <= TTL
        PROVE  c \in DOMAIN entries'
    <3>1. CASE c = callID
      BY <2>5, <3>1
    <3>2. CASE c # callID
      <4>1. /\ last[c].at > 0 /\ last[c].since + 1 < Capacity /\ last[c].since < Capacity
            /\ now - last[c].at <= TTL
        BY <2>2, <2>3, <2>9, <3>2, CacheAssumption DEF History
      <4>2. c \in DOMAIN entries
        BY <4>1 DEF KeptInv, DueInv
      <4>. QED  BY <2>1, <2>5, <4>1, <4>2, EvictKeeps
    <3>. QED  BY <3>1, <3>2
  <2>. QED  BY <1>1, <2>4, <2>7, <2>8, <2>9 DEF KeptInv, DueInv
<1>. QED  BY <1>2, <1>3 DEF CacheNext

\* However the Sets of other calls fall, and whichever entries they evict, a proof is
\* in the cache, and is the last one set, until it expires or Capacity Sets have come
\* after it.
THEOREM ProofsKept == CacheSpec => []KeptUntilDue
<1>1. KeptInv => KeptUntilDue
  <2>. SUFFICES ASSUME KeptInv, NEW c \in CallIDs, last[c].at > 0, last[c].since < Capacity,
                       now - last[c].at <= TTL
                PROVE  Hit(c) /\ entries[c].createdAt = last[c].at
    BY DEF KeptUntilDue
  <2>1. c \in DOMAIN entries /\ entries[c].createdAt = last[c].at
    BY DEF KeptInv, DueInv, EntriesInv
  <2>2. ~(now - last[c].at > TTL)
    BY CacheAssumption DEF KeptInv, HistoryInv, History
  <2>. QED  BY <2>1, <2>2 DEF Hit, Expired
<1>. QED  BY <1>1, KeptInit, KeptNext, PTL DEF CacheSpec

-----------------------------------------------------------------------------
(* The capture of proofs *)

\* What Captures computes for n items, with its values for fewer.
Capturing(out, n, f) ==
    f = [i \in 0..n |-> IF i = 0 THEN [proof |-> NoProof, pairs |-> <<>>]
                        ELSE Capture(f[i - 1], out[i])]

LEMMA CapturingAt ==
    ASSUME NEW out, NEW n \in Nat, NEW f, Capturing(out, n, f), NEW i \in 0..n
    PROVE  f[i] = IF i = 0 THEN [proof |-> NoProof, pairs |-> <<>>] ELSE Capture(f[i - 1], out[i])
<1>. DEFINE h == [j \in 0..n |-> IF j = 0 THEN [proof |-> NoProof, pairs |-> <<>>]
                                ELSE Capture(f[j - 1], out[j])]
<1>1. f = h
  BY DEF Capturing
<1>2. h[i] = IF i = 0 THEN [proof |-> NoProof, pairs |-> <<>>] ELSE Capture(f[i - 1], out[i])
  OBVIOUS
<1>. HIDE DEF h
<1>. QED  BY <1>1, <1>2

LEMMA CapturingExists ==
    ASSUME NEW out, NEW n \in Nat
    PROVE  \E f : Capturing(out, n, f)
<1>. DEFINE S == {k \in Nat : \E f : Capturing(out, k, f)}
            Start == [proof |-> NoProof, pairs |-> <<>>]
<1>1. 0 \in S
  <2>1. Capturing(out, 0, [i \in 0..0 |-> Start])
    BY DEF Capturing
  <2>. QED  BY <2>1
<1>2. ASSUME NEW k \in Nat, k \in S PROVE k + 1 \in S
  <2>1. PICK f : Capturing(out, k, f)
    BY <1>2
  <2>. DEFINE g == [i \in 0..(k + 1) |-> IF i =< k THEN f[i] ELSE Capture(f[i - 1], out[i])]
              h == [i \in 0..(k + 1) |-> IF i = 0 THEN Start ELSE Capture(g[i - 1], out[i])]
  <2>2. ASSUME NEW i \in 0..(k + 1) PROVE g[i] = IF i = 0 THEN Start ELSE Capture(g[i - 1], out[i])
    <3>1. CASE i = k + 1
      BY <3>1
    <3>2. CASE i =< k
      <4>0. i \in 0..k /\ (i # 0 => i - 1 \in 0..(k + 1) /\ i - 1 =< k)
        BY <3>2
      <4>1. f[i] = IF i = 0 THEN Start ELSE Capture(f[i - 1], out[i])
        BY <2>1, <4>0, CapturingAt
      <4>. QED  BY <3>2, <4>0, <4>1
    <3>. QED  BY <3>1, <3>2
  <2>3. /\ g = [i \in 0..(k + 1) |-> g[i]] /\ h = [i \in 0..(k + 1) |-> h[i]]
        /\ \A i \in 0..(k + 1) : g[i] = h[i]
    BY <2>2
  <2>4. g = h
    <3>. HIDE DEF g, h
    <3>. QED  BY <2>3
  <2>5. Capturing(out, k + 1, g)
    <3>1. g = [i \in 0..(k + 1) |-> IF i = 0 THEN Start ELSE Capture(g[i - 1], out[i])]
      <4>. HIDE DEF g
      <4>. QED  BY <2>4 DEF h
    <3>. HIDE DEF g
    <3>. QED  BY <3>1 DEF Capturing
  <2>. QED  BY <2>5
<1>. HIDE DEF S
<1>3. Nat \subseteq S
  BY <1>1, <1>2, SetInduction
<1>. QED  BY <1>3 DEF S

LEMMA CapturesIs ==
    ASSUME NEW out, Len(out) \in Nat
    PROVE  \E f : Capturing(out, Len(out), f) /\ Captures(out) = f[Len(out)].pairs
<1>1. \E f : Capturing(out, Len(out), f)
  BY CapturingExists
<1>2. PICK f : f = CHOOSE h : Capturing(out, Len(out), h)
  OBVIOUS
<1>3. Capturing(out, Len(out), f)
  BY <1>1, <1>2
<1>4. Captures(out) = f[Len(out)].pairs
  BY <1>2 DEF Captures, Capturing
<1>. QED  BY <1>3, <1>4

-----------------------------------------------------------------------------
(* A capture, by its definition. *)

Passive(e) == e.type = "message" \/ e = Reasoning(NoProof)

\* After i items the proof waits for its call.
Pending(out, i, p) ==
    \E j \in 1..i : out[j] = Reasoning(p) /\ \A k \in (j + 1)..i : Passive(out[k])

FollowsIn(out, i) ==
    {pair \in OwnCalls \X Proofs :
        \E j \in 1..i : out[j] = FunctionCall(pair[1]) /\ Pending(out, j - 1, pair[2])}

OneCallEach(ps) == \A m, n \in DOMAIN ps : ps[m][1] = ps[n][1] => m = n

Captured(out, i, a) ==
    /\ a \in [proof : Proofs \cup {NoProof}, pairs : Seq(OwnCalls \X Proofs)]
    /\ \A p \in Proofs : Pending(out, i, p) <=> a.proof = p
    /\ ToSet(a.pairs) = FollowsIn(out, i)
    /\ OneCallEach(a.pairs)

OwnIds(out) ==
    \A i, j \in DOMAIN out : out[i].call # NoCall /\ out[i].call = out[j].call => i = j

LEMMA FollowsIs ==
    ASSUME NEW out \in Seq(Item)
    PROVE  Follows(out) = FollowsIn(out, Len(out))
<1>1. ASSUME NEW pair \in OwnCalls \X Proofs,
             NEW i \in DOMAIN out, NEW j \in DOMAIN out, i < j,
             out[i] = Reasoning(pair[2]), out[j] = FunctionCall(pair[1]),
             \A k \in i + 1..j - 1 : out[k].type = "message" \/ out[k] = Reasoning(NoProof)
      PROVE  pair \in FollowsIn(out, Len(out))
  <2>1. i \in 1..(j - 1) /\ j \in 1..Len(out)
    BY <1>1
  <2>2. Pending(out, j - 1, pair[2])
    BY <1>1, <2>1 DEF Pending, Passive
  <2>. QED  BY <1>1, <2>1, <2>2 DEF FollowsIn
<1>2. ASSUME NEW pair \in OwnCalls \X Proofs, NEW j \in 1..Len(out),
             out[j] = FunctionCall(pair[1]), Pending(out, j - 1, pair[2])
      PROVE  pair \in Follows(out)
  <2>1. PICK i \in 1..(j - 1) :
          out[i] = Reasoning(pair[2]) /\ \A k \in (i + 1)..(j - 1) : Passive(out[k])
    BY <1>2 DEF Pending
  <2>2. i \in DOMAIN out /\ j \in DOMAIN out /\ i < j
    BY <2>1
  <2>. QED  BY <1>2, <2>1, <2>2 DEF Follows, Passive
<1>. QED  BY <1>1, <1>2 DEF Follows, FollowsIn

\* The three kinds of items, and what is known of an item by its type.
LEMMA ItemKinds ==
    ASSUME NEW e \in Item
    PROVE  /\ \/ \E p \in Proofs : e = Reasoning(p)
              \/ Passive(e)
              \/ \E c \in OwnCalls \cup {NoCall} : e = FunctionCall(c)
           /\ e.call # NoCall => e.type = "function_call"
           /\ e.type = "function_call" => e.call \in OwnCalls \cup {NoCall} /\ e = FunctionCall(e.call)
           /\ e.type = "function_call" => ~Passive(e) /\ \A p : e # Reasoning(p)
           /\ e.type = "reasoning" => e = Reasoning(e.proof) /\ e.proof \in Proofs \cup {NoProof}
<1>1. CASE e = Message
  BY <1>1 DEF Message, Passive
<1>2. ASSUME NEW p \in Proofs \cup {NoProof}, e = Reasoning(p)
      PROVE  /\ (\E q \in Proofs : e = Reasoning(q)) \/ Passive(e)
             /\ e.call = NoCall /\ e.type = "reasoning" /\ e.proof = p
  BY <1>2 DEF Reasoning, Passive
<1>3. ASSUME NEW c \in OwnCalls \cup {NoCall}, e = FunctionCall(c)
      PROVE  e.call = c /\ e.type = "function_call" /\ ~Passive(e) /\ \A p : e # Reasoning(p)
  BY <1>3 DEF FunctionCall, Reasoning, Passive
<1>. QED  BY <1>1, <1>2, <1>3 DEF Item

LEMMA CaptureStep ==
    ASSUME NEW out \in Seq(Item), OwnIds(out),
           NEW i \in Nat, i + 1 =< Len(out), NEW a, Captured(out, i, a)
    PROVE  Captured(out, i + 1, Capture(a, out[i + 1]))
<1>. PICK e \in Item : e = out[i + 1]
  OBVIOUS
<1>. PICK b : b = Capture(a, e)
  OBVIOUS
<1>0. /\ a \in [proof : Proofs \cup {NoProof}, pairs : Seq(OwnCalls \X Proofs)]
      /\ a.proof \in Proofs \cup {NoProof} /\ a.pairs \in Seq(OwnCalls \X Proofs)
      /\ \A p \in Proofs : Pending(out, i, p) <=> a.proof = p
      /\ ToSet(a.pairs) = FollowsIn(out, i) /\ OneCallEach(a.pairs)
      /\ NoProof \notin Proofs /\ NoCall \notin OwnCalls
  BY TurnsAssumption DEF Captured
<1>1. \A p \in Proofs : Pending(out, i + 1, p) <=>
        (Pending(out, i, p) /\ Passive(e)) \/ e = Reasoning(p)
  <2>1. ASSUME NEW p \in Proofs, Pending(out, i + 1, p)
        PROVE  (Pending(out, i, p) /\ Passive(e)) \/ e = Reasoning(p)
    <3>1. PICK j \in 1..(i + 1) : out[j] = Reasoning(p) /\ \A k \in (j + 1)..(i + 1) : Passive(out[k])
      BY <2>1 DEF Pending
    <3>2. CASE j = i + 1
      BY <3>1, <3>2
    <3>3. CASE j # i + 1
      <4>1. j \in 1..i /\ i + 1 \in (j + 1)..(i + 1) /\ (j + 1)..i \subseteq (j + 1)..(i + 1)
        BY <3>3
      <4>. QED  BY <3>1, <4>1 DEF Pending
    <3>. QED  BY <3>2, <3>3
  <2>2. ASSUME NEW p \in Proofs, e = Reasoning(p) PROVE Pending(out, i + 1, p)
    <3>1. i + 1 \in 1..(i + 1) /\ ((i + 1) + 1)..(i + 1) = {}
      OBVIOUS
    <3>. QED  BY <2>2, <3>1 DEF Pending
  <2>3. ASSUME NEW p \in Proofs, Pending(out, i, p), Passive(e) PROVE Pending(out, i + 1, p)
    <3>1. PICK j \in 1..i : out[j] = Reasoning(p) /\ \A k \in (j + 1)..i : Passive(out[k])
      BY <2>3 DEF Pending
    <3>2. j \in 1..(i + 1) /\ (j + 1)..(i + 1) = ((j + 1)..i) \cup {i + 1}
      OBVIOUS
    <3>. QED  BY <2>3, <3>1, <3>2 DEF Pending
  <2>. QED  BY <2>1, <2>2, <2>3
<1>2. FollowsIn(out, i + 1) = FollowsIn(out, i) \cup
        {pair \in OwnCalls \X Proofs : e = FunctionCall(pair[1]) /\ Pending(out, i, pair[2])}
  <2>1. 1..(i + 1) = (1..i) \cup {i + 1} /\ (i + 1) - 1 = i
    OBVIOUS
  <2>. QED  BY <2>1 DEF FollowsIn
<1>3. CASE \E p \in Proofs : e = Reasoning(p)
  <2>1. PICK p \in Proofs : e = Reasoning(p)
    BY <1>3
  <2>2. e.type = "reasoning" /\ e.proof = p /\ ~Passive(e) /\ \A q \in Proofs : e = Reasoning(q) => q = p
    BY <1>0, <2>1 DEF Reasoning, Passive
  <2>3. b = [a EXCEPT !.proof = p]
    BY <1>0, <2>1, <2>2 DEF Capture
  <2>4. b \in [proof : Proofs \cup {NoProof}, pairs : Seq(OwnCalls \X Proofs)]
          /\ b.proof = p /\ b.pairs = a.pairs
    BY <1>0, <2>3
  <2>5. \A q \in Proofs : Pending(out, i + 1, q) <=> b.proof = q
    BY <1>1, <2>1, <2>2, <2>4
  <2>6. FollowsIn(out, i + 1) = FollowsIn(out, i)
    <3>1. \A c : e # FunctionCall(c)
      BY <2>2 DEF FunctionCall
    <3>. QED  BY <1>2, <3>1
  <2>. QED  BY <1>0, <2>4, <2>5, <2>6 DEF Captured
<1>4. CASE Passive(e)
  <2>1. b = a
    BY <1>4 DEF Capture, Passive, Reasoning
  <2>2. \A q \in Proofs : e # Reasoning(q)
    BY <1>0, <1>4 DEF Passive, Reasoning
  <2>3. FollowsIn(out, i + 1) = FollowsIn(out, i)
    <3>1. \A c : e # FunctionCall(c)
      BY <1>4 DEF FunctionCall, Passive, Reasoning
    <3>. QED  BY <1>2, <3>1
  <2>4. \A q \in Proofs : Pending(out, i + 1, q) <=> b.proof = q
    BY <1>0, <1>1, <1>4, <2>1, <2>2
  <2>. QED  BY <1>0, <2>1, <2>3, <2>4 DEF Captured
<1>5. ASSUME NEW c \in OwnCalls \cup {NoCall}, e = FunctionCall(c)
      PROVE  Captured(out, i + 1, b)
  <2>1. /\ e.type = "function_call" /\ e.call = c /\ ~Passive(e) /\ \A q \in Proofs : e # Reasoning(q)
        /\ \A d : e = FunctionCall(d) => d = c
    BY <1>5 DEF FunctionCall, Passive, Reasoning
  <2>2. \A q \in Proofs : ~Pending(out, i + 1, q)
    BY <1>1, <2>1
  <2>3. CASE a.proof = NoProof
    <3>1. b = a
      BY <2>1, <2>3 DEF Capture
    <3>2. FollowsIn(out, i + 1) = FollowsIn(out, i)
      BY <1>0, <1>2, <2>3
    <3>. QED  BY <1>0, <2>2, <2>3, <3>1, <3>2 DEF Captured
  <2>4. CASE a.proof # NoProof /\ c = NoCall
    <3>1. b = [proof |-> NoProof, pairs |-> a.pairs]
      BY <2>1, <2>4 DEF Capture
    <3>2. FollowsIn(out, i + 1) = FollowsIn(out, i)
      BY <1>0, <1>2, <2>1, <2>4
    <3>3. b \in [proof : Proofs \cup {NoProof}, pairs : Seq(OwnCalls \X Proofs)]
            /\ b.proof = NoProof /\ b.pairs = a.pairs
      BY <1>0, <3>1
    <3>. QED  BY <1>0, <2>2, <3>2, <3>3 DEF Captured
  <2>5. CASE a.proof # NoProof /\ c # NoCall
    <3>. DEFINE new == <<c, a.proof>>
    <3>1. b = [proof |-> NoProof, pairs |-> Append(a.pairs, new)]
      BY <2>1, <2>5 DEF Capture
    <3>2. new \in OwnCalls \X Proofs /\ new[1] = c /\ new[2] = a.proof
      BY <1>0, <2>5
    <3>. HIDE DEF new
    <3>3. FollowsIn(out, i + 1) = FollowsIn(out, i) \cup {new}
      <4>1. \A pair \in OwnCalls \X Proofs :
              e = FunctionCall(pair[1]) /\ Pending(out, i, pair[2]) <=> pair = new
        BY <1>0, <1>5, <2>1, <2>5, <3>2 DEF new
      <4>. QED  BY <1>2, <3>2, <4>1
    <3>4. ToSet(Append(a.pairs, new)) = ToSet(a.pairs) \cup {new}
      BY <1>0, <3>2, ToSetAppend
    <3>5. \A pair \in FollowsIn(out, i) : pair[1] # c
      <4>1. ASSUME NEW pair \in FollowsIn(out, i), pair[1] = c PROVE FALSE
        <5>1. PICK j \in 1..i : out[j] = FunctionCall(c)
          BY <4>1 DEF FollowsIn
        <5>2. j \in DOMAIN out /\ i + 1 \in DOMAIN out /\ j # i + 1
          BY <5>1
        <5>3. out[j].call = c /\ out[i + 1].call = c
          BY <2>1, <5>1 DEF FunctionCall
        <5>. QED  BY <2>5, <5>2, <5>3 DEF OwnIds
      <4>. QED  BY <4>1
    <3>6. OneCallEach(Append(a.pairs, new))
      <4>1. PICK n \in Nat : n = Len(a.pairs)
        BY <1>0
      <4>2. /\ DOMAIN Append(a.pairs, new) = 1..(n + 1)
            /\ Append(a.pairs, new)[n + 1] = new
            /\ \A k \in 1..n : Append(a.pairs, new)[k] = a.pairs[k]
            /\ DOMAIN a.pairs = 1..n
        BY <1>0, <3>2, <4>1
      <4>3. \A k \in 1..n : a.pairs[k][1] # c
        BY <1>0, <3>5, <4>2 DEF ToSet
      <4>. QED  BY <1>0, <3>2, <4>2, <4>3 DEF OneCallEach
    <3>7. b \in [proof : Proofs \cup {NoProof}, pairs : Seq(OwnCalls \X Proofs)]
            /\ b.proof = NoProof /\ b.pairs = Append(a.pairs, new)
      BY <1>0, <3>1, <3>2
    <3>. QED  BY <1>0, <2>2, <3>3, <3>4, <3>6, <3>7 DEF Captured
  <2>. QED  BY <2>3, <2>4, <2>5
<1>. QED  BY <1>3, <1>4, <1>5, ItemKinds

LEMMA CaptureFacts ==
    ASSUME NEW out \in Seq(Item), OwnIds(out)
    PROVE  /\ Captures(out) \in Seq(OwnCalls \X Proofs)
           /\ ToSet(Captures(out)) = Follows(out)
           /\ OneCallEach(Captures(out))
<1>1. PICK f : Capturing(out, Len(out), f) /\ Captures(out) = f[Len(out)].pairs
  BY CapturesIs
<1>. DEFINE T == {i \in Nat : i =< Len(out) => Captured(out, i, f[i])}
<1>2. 0 \in T
  <2>1. f[0] = [proof |-> NoProof, pairs |-> <<>>]
    BY <1>1, CapturingAt
  <2>2. <<>> \in Seq(OwnCalls \X Proofs) /\ ToSet(<<>>) = {}
    BY ShortSeqs DEF ToSet
  <2>3. 1..0 = {}
    OBVIOUS
  <2>4. Captured(out, 0, f[0])
    BY <2>1, <2>2, <2>3, TurnsAssumption DEF Captured, Pending, FollowsIn, OneCallEach
  <2>. QED  BY <2>4
<1>3. ASSUME NEW i \in Nat, i \in T PROVE i + 1 \in T
  <2>. SUFFICES ASSUME i + 1 =< Len(out) PROVE Captured(out, i + 1, f[i + 1])
    OBVIOUS
  <2>1. f[i + 1] = Capture(f[i], out[i + 1])
    <3>1. i + 1 \in 0..Len(out) /\ i + 1 # 0 /\ (i + 1) - 1 = i
      OBVIOUS
    <3>. QED  BY <1>1, <3>1, CapturingAt
  <2>2. Captured(out, i, f[i])
    BY <1>3
  <2>. QED  BY <2>1, <2>2, CaptureStep
<1>. HIDE DEF T
<1>4. Nat \subseteq T
  BY <1>2, <1>3, SetInduction
<1>5. Captured(out, Len(out), f[Len(out)])
  BY <1>4 DEF T
<1>. QED  BY <1>1, <1>5, FollowsIs DEF Captured

-----------------------------------------------------------------------------
(* The conversation *)

Called(out) == {out[i].call : i \in DOMAIN out}

\* The kinds of values, and what is empty when.
TurnsTyped ==
    /\ pc \in {"upstream", "capture", "client", "convert"}
    /\ output \in Seq(Item) /\ input \in Seq(Item)
    /\ messages \in Seq(OwnCalls \cup {NoCall}) /\ rest \in Seq(OwnCalls \cup {NoCall})
    /\ pairs \in Seq(OwnCalls \X Proofs)
    /\ given \subseteq OwnCalls \X Proofs
    /\ ToSet(rest) \subseteq ToSet(messages)
    /\ pc # "capture" => pairs = <<>> /\ output = <<>>

\* A call has one proof; those still to be stored are for calls of the newest output.
GivenInv ==
    /\ \A a, b \in given : a[1] = b[1] => a[2] = b[2]
    /\ \A a \in given : a[1] \in ToSet(messages) \cup Called(output)
    /\ ToSet(pairs) \subseteq given
    /\ \A a \in ToSet(pairs) : a[1] \notin ToSet(messages)
    /\ OneCallEach(pairs)

\* What the cache holds for a call of this conversation is the call's proof.
StoredInv ==
    /\ \A c \in OwnCalls : c \in DOMAIN entries => <<c, entries[c].item>> \in given
    /\ \A a \in given \ ToSet(pairs) : last[a[1]].at > 0

\* The cache no longer has to hold the call's proof.
Due(c) == ~(last[c].since < Capacity /\ now - last[c].at <= TTL)

\* The input is the conversation's, each proof with its call.
ItemOK(s, i) ==
    /\ s[i].type = "function_call" => s[i].call \in ToSet(messages)
    /\ s[i].type = "reasoning" =>
         /\ i < Len(s) /\ s[i + 1].type = "function_call"
         /\ <<s[i + 1].call, s[i].proof>> \in given
    /\ \A a \in given : s[i] = FunctionCall(a[1]) =>
         Due(a[1]) \/ (i > 1 /\ s[i - 1] = Reasoning(a[2]))

InputInv == \A i \in DOMAIN input : ItemOK(input, i)

TurnsInv == KeptInv /\ TurnsTyped /\ GivenInv /\ StoredInv /\ InputInv

\* What a Set changes, for a conversation.
LEMMA SetFacts ==
    ASSUME KeptInv, NEW callID \in CallIDs, NEW item \in Proofs, Set(callID, item)
    PROVE  /\ \A c \in DOMAIN entries' :
                IF c = callID THEN entries'[c].item = item
                ELSE c \in DOMAIN entries /\ entries'[c] = entries[c]
           /\ last'[callID].at > 0
           /\ \A c \in CallIDs \ {callID} : last'[c].at = last[c].at /\ (Due(c) => Due(c)')
<1>1. /\ now \in Nat /\ now' = now + 1 /\ now > 0
      /\ \A c \in CallIDs : last[c] \in History
  BY DEF KeptInv, HistoryInv, History, Set
<1>2. PICK kept \in SUBSET DOMAIN entries :
        entries' = [c \in kept \cup {callID} |->
                      IF c = callID THEN [item |-> item, createdAt |-> now] ELSE entries[c]]
  BY DEF Set
<1>3. last'[callID].at = now
  BY DEF Set
<1>4. ASSUME NEW c \in CallIDs \ {callID}
      PROVE  last'[c].at = last[c].at /\ last'[c].since = last[c].since + 1
  BY <1>1 DEF Set, History
<1>5. ASSUME NEW c \in CallIDs \ {callID}, Due(c) PROVE Due(c)'
  BY <1>1, <1>4, <1>5, CacheAssumption DEF Due, History
<1>. QED  BY <1>1, <1>2, <1>3, <1>4, <1>5

LEMMA TickFacts ==
    ASSUME KeptInv, Tick, NEW c \in CallIDs, Due(c)
    PROVE  Due(c)'
<1>1. now \in Nat /\ last[c] \in History /\ now' \in {now, now + 1} /\ last' = last
  BY DEF KeptInv, HistoryInv, Tick
<1>. QED  BY <1>1, CacheAssumption DEF Due, History

LEMMA ToSetHead ==
    ASSUME NEW S, NEW s \in Seq(S), s # <<>>
    PROVE  /\ Head(s) \in S /\ Tail(s) \in Seq(S)
           /\ ToSet(s) = {Head(s)} \cup ToSet(Tail(s))
           /\ \A i \in DOMAIN Tail(s) : i + 1 \in DOMAIN s /\ Tail(s)[i] = s[i + 1]
<1>1. /\ Head(s) = s[1] /\ Tail(s) \in Seq(S) /\ DOMAIN s = 1..Len(s)
      /\ 1 \in DOMAIN s /\ DOMAIN Tail(s) = 1..(Len(s) - 1) /\ Head(s) \in S
      /\ \A i \in 1..(Len(s) - 1) : i + 1 \in DOMAIN s /\ Tail(s)[i] = s[i + 1]
  OBVIOUS
<1>2. ASSUME NEW i \in DOMAIN s, i # 1 PROVE i - 1 \in DOMAIN Tail(s) /\ s[i] = Tail(s)[i - 1]
  BY <1>1, <1>2
<1>3. ASSUME NEW i \in DOMAIN s PROVE s[i] \in {Head(s)} \cup ToSet(Tail(s))
  BY <1>1, <1>2 DEF ToSet
<1>4. Head(s) \in ToSet(s) /\ ToSet(Tail(s)) \subseteq ToSet(s)
  BY <1>1 DEF ToSet
<1>5. ToSet(s) = {Head(s)} \cup ToSet(Tail(s))
  BY <1>3, <1>4 DEF ToSet
<1>. QED  BY <1>1, <1>5

\* The completion names every call of the output, and nothing else.
LEMMA ToolCallsAre ==
    ASSUME NEW out \in Seq(Item)
    PROVE  /\ toolCalls(out) \in Seq(OwnCalls \cup {NoCall})
           /\ Called(out) \subseteq ToSet(toolCalls(out)) \cup {NoCall}
<1>. DEFINE K == {e \in Item : e.type = "function_call"}
            chosen == Selected(out, LAMBDA e : e.type = "function_call")
<1>1. chosen = Filter(K, out)
  <2>1. \A i \in DOMAIN out : (out[i] \in K) <=> (out[i].type = "function_call")
    OBVIOUS
  <2>2. [i \in DOMAIN out |-> IF out[i].type = "function_call" THEN <<out[i]>> ELSE <<>>]
          = [i \in DOMAIN out |-> IF out[i] \in K THEN <<out[i]>> ELSE <<>>]
    <3>. HIDE DEF K
    <3>. QED  BY <2>1
  <2>. QED  BY <2>2 DEF Selected, Filter
<1>2. toolCalls(out) = [i \in DOMAIN chosen |-> chosen[i].call]
  BY DEF toolCalls
<1>. HIDE DEF chosen
<1>3. chosen \in Seq(Item) /\ ToSet(chosen) = ToSet(out) \cap K
  <2>. HIDE DEF K
  <2>. QED  BY <1>1, FilterType, FilterMembers
<1>4. \A i \in DOMAIN chosen : chosen[i].call \in OwnCalls \cup {NoCall}
  <2>1. ASSUME NEW i \in DOMAIN chosen PROVE chosen[i].call \in OwnCalls \cup {NoCall}
    <3>1. chosen[i] \in Item /\ chosen[i].type = "function_call"
      BY <1>3 DEF ToSet
    <3>. QED  BY <3>1, ItemKinds
  <2>. QED  BY <2>1
<1>5. toolCalls(out) \in Seq(OwnCalls \cup {NoCall})
  <2>1. toolCalls(out) \in [1..Len(chosen) -> OwnCalls \cup {NoCall}] /\ Len(chosen) \in Nat
    BY <1>2, <1>3, <1>4
  <2>. QED  BY <2>1, FunctionIsSeq
<1>6. ASSUME NEW i \in DOMAIN out, out[i].call # NoCall PROVE out[i].call \in ToSet(toolCalls(out))
  <2>1. out[i] \in Item /\ out[i].type = "function_call"
    BY <1>6, ItemKinds
  <2>2. out[i] \in ToSet(chosen)
    BY <1>3, <2>1 DEF ToSet
  <2>3. PICK j \in DOMAIN chosen : chosen[j] = out[i]
    BY <2>2 DEF ToSet
  <2>. QED  BY <1>2, <2>3 DEF ToSet
<1>. QED  BY <1>5, <1>6 DEF Called

LEMMA TurnsInvInit == TurnsInit => TurnsInv
<1>. SUFFICES ASSUME TurnsInit PROVE TurnsInv
  OBVIOUS
<1>1. KeptInv
  BY KeptInit DEF TurnsInit
<1>2. /\ <<>> \in Seq(Item) /\ <<>> \in Seq(OwnCalls \cup {NoCall}) /\ <<>> \in Seq(OwnCalls \X Proofs)
      /\ ToSet(<<>>) = {} /\ DOMAIN <<>> = {}
  BY ShortSeqs DEF ToSet
<1>3. DOMAIN entries = {}
  BY DEF TurnsInit, CacheInit
<1>4. TurnsTyped
  BY <1>2 DEF TurnsInit, TurnsTyped
<1>5. GivenInv
  BY <1>2 DEF TurnsInit, GivenInv, OneCallEach
<1>6. StoredInv /\ InputInv
  BY <1>2, <1>3 DEF TurnsInit, StoredInv, InputInv, ItemOK
<1>. QED  BY <1>1, <1>4, <1>5, <1>6 DEF TurnsInv

-----------------------------------------------------------------------------
(* The steps of the conversation *)

LEMMA RespondKeeps ==
    ASSUME TurnsInv, Respond
    PROVE  TurnsInv'
<1>0. PICK n \in 1..MaxItems : \E out \in [1..n -> Item] :
        Fresh(out) /\ output' = out /\ pairs' = Captures(out) /\ given' = given \cup Follows(out)
  BY DEF Respond
<1>1. PICK out \in [1..n -> Item] :
        Fresh(out) /\ output' = out /\ pairs' = Captures(out) /\ given' = given \cup Follows(out)
  BY <1>0
<1>2. /\ pc = "upstream" /\ pc' = "capture" /\ UNCHANGED <<cacheVars, messages, rest, input>>
      /\ pairs = <<>> /\ output = <<>>
  BY DEF Respond, TurnsInv, TurnsTyped
<1>3. out \in Seq(Item)
  <2>1. n \in Nat
    BY <1>1
  <2>. QED  BY <2>1, FunctionIsSeq
<1>4. OwnIds(out)
  BY <1>1 DEF OwnIds, Fresh
<1>. PICK ps : ps = Captures(out)
  OBVIOUS
<1>5. /\ ps \in Seq(OwnCalls \X Proofs) /\ ToSet(ps) = Follows(out) /\ OneCallEach(ps)
  BY <1>3, <1>4, CaptureFacts
<1>6. pairs' = ps /\ given' = given \cup ToSet(ps) /\ ToSet(ps) \subseteq OwnCalls \X Proofs
  BY <1>1, <1>5 DEF ToSet
<1>7. \A a \in ToSet(ps) : a[1] \in Called(out) /\ a[1] \notin ToSet(messages)
  <2>1. ASSUME NEW a \in ToSet(ps) PROVE a[1] \in Called(out) /\ a[1] \notin ToSet(messages)
    <3>1. PICK j \in DOMAIN out : out[j] = FunctionCall(a[1])
      BY <1>5, <2>1 DEF Follows
    <3>2. out[j].call = a[1] /\ a[1] \in OwnCalls /\ a[1] # NoCall
      BY <1>6, <2>1, <3>1, TurnsAssumption DEF FunctionCall
    <3>. QED  BY <1>1, <3>1, <3>2 DEF Called, Fresh
  <2>. QED  BY <2>1
<1>8. \A a \in given : a[1] \in ToSet(messages)
  <2>1. Called(<<>>) = {}
    BY DEF Called
  <2>. QED  BY <1>2, <2>1 DEF TurnsInv, GivenInv
<1>9. TurnsTyped'
  BY <1>1, <1>2, <1>3, <1>5, <1>6 DEF TurnsInv, TurnsTyped
<1>10. GivenInv'
  <2>1. ASSUME NEW a \in ToSet(ps), NEW b \in ToSet(ps), a[1] = b[1] PROVE a = b
    BY <1>5, <2>1 DEF ToSet, OneCallEach
  <2>2. \A a, b \in given' : a[1] = b[1] => a[2] = b[2]
    BY <1>6, <1>7, <1>8, <2>1 DEF TurnsInv, GivenInv
  <2>3. \A a \in given' : a[1] \in ToSet(messages') \cup Called(output')
    BY <1>1, <1>2, <1>6, <1>7, <1>8
  <2>. QED  BY <1>2, <1>5, <1>6, <1>7, <2>2, <2>3 DEF GivenInv
<1>11. KeptInv'
  BY <1>2, KeptNext DEF TurnsInv
<1>12. entries' = entries /\ last' = last /\ now' = now /\ ToSet(pairs) = {}
  BY <1>2 DEF cacheVars, ToSet
<1>13. StoredInv'
  BY <1>6, <1>12 DEF TurnsInv, StoredInv
<1>14. InputInv'
  <2>1. ASSUME NEW i \in DOMAIN input, NEW a \in ToSet(ps) PROVE input[i] # FunctionCall(a[1])
    <3>1. input[i] = FunctionCall(a[1]) => input[i].type = "function_call" /\ input[i].call = a[1]
      BY DEF FunctionCall
    <3>. QED  BY <1>7, <3>1 DEF TurnsInv, InputInv, ItemOK
  <2>2. \A c : Due(c)' <=> Due(c)
    BY <1>12 DEF Due
  <2>. QED  BY <1>2, <1>6, <2>1, <2>2 DEF TurnsInv, InputInv, ItemOK
<1>. QED  BY <1>9, <1>10, <1>11, <1>13, <1>14 DEF TurnsInv

LEMMA StoreKeeps ==
    ASSUME TurnsInv, StoreProof
    PROVE  TurnsInv'
<1>1. PICK pair \in OwnCalls \X Proofs, tail \in Seq(OwnCalls \X Proofs) :
        /\ pair = Head(pairs) /\ tail = Tail(pairs) /\ pairs' = tail
        /\ ToSet(pairs) = {pair} \cup ToSet(tail)
        /\ \A i \in DOMAIN tail : i + 1 \in DOMAIN pairs /\ tail[i] = pairs[i + 1]
  <2>1. PICK ps \in Seq(OwnCalls \X Proofs) : ps = pairs /\ ps # <<>>
    BY DEF StoreProof, TurnsInv, TurnsTyped
  <2>2. /\ Head(ps) \in OwnCalls \X Proofs /\ Tail(ps) \in Seq(OwnCalls \X Proofs)
        /\ ToSet(ps) = {Head(ps)} \cup ToSet(Tail(ps))
        /\ \A i \in DOMAIN Tail(ps) : i + 1 \in DOMAIN ps /\ Tail(ps)[i] = ps[i + 1]
    <3>. PICK S : S = OwnCalls \X Proofs
      OBVIOUS
    <3>. QED  BY <2>1, ToSetHead
  <2>3. pairs' = Tail(ps)
    BY <2>1 DEF StoreProof
  <2>. QED  BY <2>1, <2>2, <2>3
<1>. PICK callID \in OwnCalls, item \in Proofs :
        callID = pair[1] /\ item = pair[2] /\ pair = <<callID, item>>
  OBVIOUS
<1>2. /\ Set(callID, item) /\ callID \in CallIDs
      /\ UNCHANGED <<pc, output, messages, rest, input, turns, given>> /\ pc = "capture"
  BY <1>1, TurnsAssumption DEF StoreProof
<1>3. pair \in given /\ callID \notin ToSet(messages) /\ ToSet(tail) \subseteq given
  BY <1>1 DEF TurnsInv, GivenInv
<1>4. /\ \A c \in DOMAIN entries' :
            IF c = callID THEN entries'[c].item = item
            ELSE c \in DOMAIN entries /\ entries'[c] = entries[c]
      /\ last'[callID].at > 0
      /\ \A c \in CallIDs \ {callID} : last'[c].at = last[c].at /\ (Due(c) => Due(c)')
  BY <1>2, SetFacts DEF TurnsInv
<1>5. KeptInv'
  BY <1>2, KeptNext DEF TurnsInv, CacheNext
<1>6. TurnsTyped'
  BY <1>1, <1>2 DEF TurnsInv, TurnsTyped
<1>7. GivenInv'
  <2>1. OneCallEach(tail)
    <3>1. ASSUME NEW m \in DOMAIN tail, NEW n \in DOMAIN tail, tail[m][1] = tail[n][1] PROVE m = n
      <4>1. m + 1 = n + 1
        BY <1>1, <3>1 DEF TurnsInv, GivenInv, OneCallEach
      <4>. QED  BY <4>1
    <3>. QED  BY <3>1 DEF OneCallEach
  <2>. QED  BY <1>1, <1>2, <2>1 DEF TurnsInv, GivenInv
<1>8. StoredInv'
  <2>1. ASSUME NEW c \in OwnCalls, c \in DOMAIN entries' PROVE <<c, entries'[c].item>> \in given
    BY <1>3, <1>4, <2>1 DEF TurnsInv, StoredInv
  <2>2. ASSUME NEW a \in given \ ToSet(tail) PROVE last'[a[1]].at > 0
    <3>1. a[1] \in CallIDs
      BY TurnsAssumption DEF TurnsInv, TurnsTyped
    <3>2. a = pair \/ a \in given \ ToSet(pairs)
      BY <1>1
    <3>. QED  BY <1>4, <3>1, <3>2 DEF TurnsInv, StoredInv
  <2>. QED  BY <1>1, <1>2, <2>1, <2>2 DEF StoredInv
<1>9. InputInv'
  <2>1. ASSUME NEW i \in DOMAIN input, NEW a \in given, input[i] = FunctionCall(a[1])
        PROVE  Due(a[1])' \/ (i > 1 /\ input[i - 1] = Reasoning(a[2]))
    <3>1. input[i].type = "function_call" /\ input[i].call = a[1]
      BY <2>1 DEF FunctionCall
    <3>2. a[1] # callID
      BY <1>3, <3>1 DEF TurnsInv, InputInv, ItemOK
    <3>3. a[1] \in CallIDs \ {callID}
      BY <3>2, TurnsAssumption DEF TurnsInv, TurnsTyped
    <3>. QED  BY <1>4, <2>1, <3>3 DEF TurnsInv, InputInv, ItemOK
  <2>. QED  BY <1>2, <2>1 DEF TurnsInv, InputInv, ItemOK
<1>. QED  BY <1>5, <1>6, <1>7, <1>8, <1>9 DEF TurnsInv

LEMMA OthersKeep ==
    ASSUME TurnsInv, Others
    PROVE  TurnsInv'
<1>1. UNCHANGED <<pc, output, pairs, messages, rest, input, turns, given>>
  BY DEF Others
<1>2. TurnsTyped' /\ GivenInv'
  BY <1>1 DEF TurnsInv, TurnsTyped, GivenInv
<1>3. KeptInv' /\ (\A c \in OwnCalls : Due(c) => Due(c)') /\ StoredInv'
  <2>1. CASE Tick
    <3>1. KeptInv' /\ entries' = entries /\ last' = last
      BY <2>1, KeptNext DEF TurnsInv, CacheNext, Tick
    <3>2. \A c \in OwnCalls : Due(c) => Due(c)'
      BY <2>1, TickFacts, TurnsAssumption DEF TurnsInv
    <3>. QED  BY <1>1, <3>1, <3>2 DEF TurnsInv, StoredInv
  <2>2. ASSUME NEW callID \in CallIDs \ OwnCalls, NEW item \in Proofs, Set(callID, item)
        PROVE  KeptInv' /\ (\A c \in OwnCalls : Due(c) => Due(c)') /\ StoredInv'
    <3>1. KeptInv'
      BY <2>2, KeptNext DEF TurnsInv, CacheNext
    <3>2. /\ \A c \in DOMAIN entries' :
                IF c = callID THEN entries'[c].item = item
                ELSE c \in DOMAIN entries /\ entries'[c] = entries[c]
          /\ \A c \in CallIDs \ {callID} : last'[c].at = last[c].at /\ (Due(c) => Due(c)')
      BY <2>2, SetFacts DEF TurnsInv
    <3>3. \A c \in OwnCalls : c \in CallIDs \ {callID}
      BY <2>2, TurnsAssumption
    <3>4. \A a \in given : a[1] \in OwnCalls
      BY DEF TurnsInv, TurnsTyped
    <3>5. StoredInv'
      BY <1>1, <3>2, <3>3, <3>4 DEF TurnsInv, StoredInv
    <3>. QED  BY <3>1, <3>2, <3>3, <3>5
  <2>. QED  BY <2>1, <2>2 DEF Others
<1>4. InputInv'
  <2>1. \A a \in given : a[1] \in OwnCalls
    BY DEF TurnsInv, TurnsTyped
  <2>. QED  BY <1>1, <1>3, <2>1 DEF TurnsInv, InputInv, ItemOK
<1>. QED  BY <1>2, <1>3, <1>4 DEF TurnsInv

\* The calls of the completion join the conversation.
LEMMA DeliverKeeps ==
    ASSUME TurnsInv, Deliver
    PROVE  TurnsInv'
<1>1. /\ pc = "capture" /\ pairs = <<>> /\ messages' = messages \o toolCalls(output)
      /\ output' = <<>> /\ pc' = "client" /\ UNCHANGED <<cacheVars, pairs, rest, input, turns, given>>
  BY DEF Deliver
<1>2. /\ toolCalls(output) \in Seq(OwnCalls \cup {NoCall})
      /\ Called(output) \subseteq ToSet(toolCalls(output)) \cup {NoCall}
  BY ToolCallsAre DEF TurnsInv, TurnsTyped
<1>3. messages' \in Seq(OwnCalls \cup {NoCall})
        /\ ToSet(messages') = ToSet(messages) \cup ToSet(toolCalls(output))
  <2>. PICK s \in Seq(OwnCalls \cup {NoCall}), t \in Seq(OwnCalls \cup {NoCall}) :
         s = messages /\ t = toolCalls(output)
    BY <1>2 DEF TurnsInv, TurnsTyped
  <2>1. s \o t \in Seq(OwnCalls \cup {NoCall})
    OBVIOUS
  <2>2. ToSet(s \o t) = ToSet(s) \cup ToSet(t)
    <3>. PICK S : S = OwnCalls \cup {NoCall}
      OBVIOUS
    <3>. QED  BY ToSetConcat
  <2>. QED  BY <1>1, <2>1, <2>2
<1>4. entries' = entries /\ last' = last /\ now' = now /\ KeptInv'
  BY <1>1, KeptNext DEF TurnsInv, cacheVars
<1>5. TurnsTyped'
  <2>1. <<>> \in Seq(Item)
    OBVIOUS
  <2>. QED  BY <1>1, <1>3, <2>1 DEF TurnsInv, TurnsTyped
<1>6. GivenInv'
  <2>1. \A a \in given : a[1] \in OwnCalls /\ a[1] # NoCall
    BY TurnsAssumption DEF TurnsInv, TurnsTyped
  <2>2. \A a \in given : a[1] \in ToSet(messages')
    BY <1>2, <1>3, <2>1 DEF TurnsInv, GivenInv
  <2>3. ToSet(pairs) = {}
    BY <1>1 DEF ToSet
  <2>. QED  BY <1>1, <2>2, <2>3 DEF TurnsInv, GivenInv
<1>7. StoredInv'
  BY <1>1, <1>4 DEF TurnsInv, StoredInv
<1>8. InputInv'
  BY <1>1, <1>3, <1>4 DEF TurnsInv, InputInv, ItemOK, Due
<1>. QED  BY <1>4, <1>5, <1>6, <1>7, <1>8 DEF TurnsInv

LEMMA RequestKeeps ==
    ASSUME TurnsInv, Request
    PROVE  TurnsInv'
<1>1. UNCHANGED <<cacheVars, output, pairs, messages, turns, given>> /\ input' = <<>>
        /\ rest' = messages /\ pc' = "convert" /\ pc = "client"
  BY DEF Request
<1>2. <<>> \in Seq(Item) /\ DOMAIN <<>> = {}
  OBVIOUS
<1>3. KeptInv' /\ GivenInv' /\ StoredInv'
  BY <1>1, KeptNext DEF TurnsInv, GivenInv, StoredInv, cacheVars
<1>4. TurnsTyped' /\ InputInv'
  BY <1>1, <1>2 DEF TurnsInv, TurnsTyped, InputInv, ItemOK
<1>. QED  BY <1>3, <1>4 DEF TurnsInv

LEMMA SendKeeps ==
    ASSUME TurnsInv, Send
    PROVE  TurnsInv'
<1>1. UNCHANGED <<cacheVars, output, pairs, messages, rest, input, turns, given>>
        /\ pc' = "upstream" /\ pc = "convert"
  BY DEF Send
<1>2. KeptInv' /\ GivenInv' /\ StoredInv'
  BY <1>1, KeptNext DEF TurnsInv, GivenInv, StoredInv, cacheVars
<1>3. InputInv'
  BY <1>1 DEF TurnsInv, InputInv, ItemOK, Due, cacheVars
<1>4. TurnsTyped'
  BY <1>1 DEF TurnsInv, TurnsTyped
<1>. QED  BY <1>2, <1>3, <1>4 DEF TurnsInv

\* A call whose proof is not due finds it, and finds its own.
LEMMA HitOrDue ==
    ASSUME TurnsInv, pairs = <<>>, NEW a \in given, ~Due(a[1])
    PROVE  Hit(a[1]) /\ entries[a[1]].item = a[2]
<1>. PICK c \in OwnCalls : c = a[1]
  BY DEF TurnsInv, TurnsTyped
<1>1. ToSet(pairs) = {} /\ c \in CallIDs
  BY TurnsAssumption DEF ToSet
<1>2. last[c].at > 0 /\ last[c].since < Capacity /\ now - last[c].at <= TTL
  BY <1>1 DEF TurnsInv, StoredInv, Due
<1>3. c \in DOMAIN entries /\ entries[c].createdAt = last[c].at
  BY <1>1, <1>2 DEF TurnsInv, KeptInv, DueInv, EntriesInv
<1>4. ~(now - last[c].at > TTL)
  BY <1>1, <1>2, CacheAssumption DEF TurnsInv, KeptInv, HistoryInv, History
<1>5. <<c, entries[c].item>> \in given
  BY <1>3 DEF TurnsInv, StoredInv
<1>6. entries[c].item = a[2]
  BY <1>5 DEF TurnsInv, GivenInv
<1>. QED  BY <1>3, <1>4, <1>6 DEF Hit, Expired

\* An item keeps its neighbours when others are added behind.
LEMMA OldItem ==
    ASSUME NEW s, NEW t, NEW i \in Nat, Len(s) \in Nat, Len(t) \in Nat, Len(s) <= Len(t),
           ItemOK(s, i), t[i] = s[i], i < Len(s) => t[i + 1] = s[i + 1],
           i > 1 => t[i - 1] = s[i - 1]
    PROVE  ItemOK(t, i)
<1>1. t[i].type = "function_call" => t[i].call \in ToSet(messages)
  BY DEF ItemOK
<1>2. t[i].type = "reasoning" =>
        /\ i < Len(t) /\ t[i + 1].type = "function_call"
        /\ <<t[i + 1].call, t[i].proof>> \in given
  BY DEF ItemOK
<1>3. \A a \in given : t[i] = FunctionCall(a[1]) => Due(a[1]) \/ (i > 1 /\ t[i - 1] = Reasoning(a[2]))
  BY DEF ItemOK
<1>. QED  BY <1>1, <1>2, <1>3 DEF ItemOK

LEMMA ConvertKeeps ==
    ASSUME TurnsInv, ConvertCall
    PROVE  TurnsInv'
<1>. PICK c, proof : c = Head(rest) /\ proof = IF c # NoCall /\ Hit(c)
                                            THEN <<Reasoning(entries[c].item)>> ELSE <<>>
  OBVIOUS
<1>. PICK t : t = input'
  OBVIOUS
<1>1. /\ pc = "convert" /\ UNCHANGED <<cacheVars, pc, output, pairs, messages, turns, given>>
      /\ t = input \o proof \o <<FunctionCall(c)>> /\ rest' = Tail(rest) /\ pairs = <<>>
  BY DEF ConvertCall, TurnsInv, TurnsTyped
<1>2. /\ c \in OwnCalls \cup {NoCall} /\ c \in ToSet(messages)
      /\ Tail(rest) \in Seq(OwnCalls \cup {NoCall}) /\ ToSet(Tail(rest)) \subseteq ToSet(messages)
  <2>. PICK S : S = OwnCalls \cup {NoCall}
    OBVIOUS
  <2>. PICK r \in Seq(S) : r = rest /\ r # <<>>
    BY DEF TurnsInv, TurnsTyped, ConvertCall
  <2>1. Head(r) \in S /\ Tail(r) \in Seq(S) /\ ToSet(r) = {Head(r)} \cup ToSet(Tail(r))
    BY ToSetHead
  <2>. QED  BY <2>1 DEF TurnsInv, TurnsTyped
<1>3. /\ \A d : Due(d)' <=> Due(d)
      /\ KeptInv' /\ GivenInv' /\ StoredInv'
  BY <1>1, KeptNext DEF TurnsInv, GivenInv, StoredInv, Due, cacheVars
<1>4. PICK n \in Nat : n = Len(input) /\ input \in Seq(Item) /\ DOMAIN input = 1..n
  BY DEF TurnsInv, TurnsTyped
<1>5. FunctionCall(c) \in Item /\ FunctionCall(c).type = "function_call" /\ FunctionCall(c).call = c
  BY <1>2 DEF Item, FunctionCall
<1>6. \A a \in given : a \in OwnCalls \X Proofs /\ a[1] # NoCall /\ (FunctionCall(c) = FunctionCall(a[1]) => a[1] = c)
  BY TurnsAssumption DEF TurnsInv, TurnsTyped, FunctionCall
<1>7. \A i \in 1..n : ItemOK(input, i)
  BY <1>4 DEF TurnsInv, InputInv
<1>8. TurnsTyped' /\ InputInv'
  <2>1. CASE c # NoCall /\ Hit(c)
    <3>. PICK q : q = entries[c].item
      OBVIOUS
    <3>1. <<c, q>> \in given /\ q \in Proofs
      <4>1. <<c, q>> \in given
        BY <1>2, <2>1 DEF Hit, TurnsInv, StoredInv
      <4>. QED  BY <4>1 DEF TurnsInv, TurnsTyped
    <3>2. Reasoning(q) \in Item /\ Reasoning(q).type = "reasoning" /\ Reasoning(q).proof = q
      BY <3>1 DEF Item, Reasoning
    <3>3. Reasoning(q) # FunctionCall(c) /\ \A d : Reasoning(q) # FunctionCall(d)
      BY DEF Reasoning, FunctionCall
    <3>4. t = input \o <<Reasoning(q)>> \o <<FunctionCall(c)>>
      BY <1>1, <2>1
    <3>5. /\ t \in Seq(Item) /\ Len(t) = n + 2 /\ DOMAIN t = 1..(n + 2)
          /\ \A i \in 1..n : t[i] = input[i]
          /\ t[n + 1] = Reasoning(q) /\ t[n + 2] = FunctionCall(c)
      <4>. PICK x \in Item, y \in Item : x = Reasoning(q) /\ y = FunctionCall(c)
        BY <1>5, <3>2
      <4>1. t = input \o <<x>> \o <<y>>
        BY <3>4
      <4>. QED  BY <1>4, <4>1
    <3>6. TurnsTyped'
      BY <1>1, <1>2, <3>5 DEF TurnsInv, TurnsTyped
    <3>7. ASSUME NEW i \in 1..(n + 2)
          PROVE  ItemOK(t, i)
      <4>1. CASE i \in 1..n
        <5>1. /\ t[i] = input[i] /\ (i < n => t[i + 1] = input[i + 1])
              /\ (i > 1 => t[i - 1] = input[i - 1])
          BY <3>5, <4>1
        <5>2. i \in DOMAIN input /\ Len(input) = n /\ Len(t) >= n /\ ItemOK(input, i)
          BY <1>4, <1>7, <3>5, <4>1
        <5>. QED  BY <5>1, <5>2, OldItem
      <4>2. CASE i = n + 1
        <5>1. t[i] = Reasoning(q) /\ t[i + 1] = FunctionCall(c) /\ i < n + 2
          BY <3>5, <4>2
        <5>. QED  BY <1>5, <3>1, <3>2, <3>3, <3>5, <5>1 DEF ItemOK
      <4>3. CASE i = n + 2
        <5>1. t[i] = FunctionCall(c) /\ t[i - 1] = Reasoning(q) /\ i > 1
          BY <3>5, <4>3
        <5>2. \A a \in given : a[1] = c => a[2] = q
          BY <3>1 DEF TurnsInv, GivenInv
        <5>. QED  BY <1>2, <1>5, <1>6, <5>1, <5>2 DEF ItemOK
      <4>. QED  BY <4>1, <4>2, <4>3
    <3>8. \A i \in DOMAIN t : ItemOK(t, i)
      BY <3>5, <3>7
    <3>9. InputInv'
      BY <1>1, <1>3, <3>8 DEF InputInv, ItemOK
    <3>. QED  BY <3>6, <3>9
  <2>2. CASE ~(c # NoCall /\ Hit(c))
    <3>1. t = input \o <<FunctionCall(c)>>
      <4>1. proof = <<>>
        BY <2>2
      <4>2. input \o <<>> = input
        BY <1>4
      <4>. QED  BY <1>1, <4>1, <4>2
    <3>2. /\ t \in Seq(Item) /\ Len(t) = n + 1 /\ DOMAIN t = 1..(n + 1)
          /\ \A i \in 1..n : t[i] = input[i]
          /\ t[n + 1] = FunctionCall(c)
      <4>. PICK y \in Item : y = FunctionCall(c)
        BY <1>5
      <4>1. t = input \o <<y>>
        BY <3>1
      <4>. QED  BY <1>4, <4>1
    <3>3. TurnsTyped'
      BY <1>1, <1>2, <3>2 DEF TurnsInv, TurnsTyped
    <3>4. \A a \in given : a[1] = c => Due(a[1])
      BY <1>1, <1>6, <2>2, HitOrDue
    <3>5. ASSUME NEW i \in 1..(n + 1)
          PROVE  ItemOK(t, i)
      <4>1. CASE i \in 1..n
        <5>1. /\ t[i] = input[i] /\ (i < n => t[i + 1] = input[i + 1])
              /\ (i > 1 => t[i - 1] = input[i - 1])
          BY <3>2, <4>1
        <5>2. i \in DOMAIN input /\ Len(input) = n /\ Len(t) >= n /\ ItemOK(input, i)
          BY <1>4, <1>7, <3>2, <4>1
        <5>. QED  BY <5>1, <5>2, OldItem
      <4>2. CASE i = n + 1
        BY <1>2, <1>5, <1>6, <3>2, <3>4, <4>2 DEF ItemOK
      <4>. QED  BY <4>1, <4>2
    <3>6. \A i \in DOMAIN t : ItemOK(t, i)
      BY <3>2, <3>5
    <3>7. InputInv'
      BY <1>1, <1>3, <3>6 DEF InputInv, ItemOK
    <3>. QED  BY <3>3, <3>7
  <2>. QED  BY <2>1, <2>2
<1>. QED  BY <1>3, <1>8 DEF TurnsInv

LEMMA TurnsInvNext == TurnsInv /\ [TurnsNext]_turnVars => TurnsInv'
<1>. SUFFICES ASSUME TurnsInv, [TurnsNext]_turnVars PROVE TurnsInv'
  OBVIOUS
<1>1. CASE TurnsNext
  BY <1>1, RespondKeeps, StoreKeeps, DeliverKeeps, RequestKeeps, ConvertKeeps, SendKeeps, OthersKeep
     DEF TurnsNext
<1>2. CASE UNCHANGED turnVars
  <2>1. KeptInv'
    BY <1>2, KeptNext DEF turnVars, TurnsInv
  <2>2. TurnsTyped' /\ GivenInv' /\ StoredInv'
    BY <1>2 DEF turnVars, cacheVars, TurnsInv, TurnsTyped, GivenInv, StoredInv
  <2>3. InputInv'
    BY <1>2 DEF turnVars, cacheVars, TurnsInv, InputInv, ItemOK, Due
  <2>. QED  BY <2>1, <2>2, <2>3 DEF TurnsInv
<1>. QED  BY <1>1, <1>2

\* However many calls run in parallel, whichever proofs have expired or been evicted, and
\* whatever other conversations store meanwhile: convertMessages puts a proof only in
\* front of the call that the upstream made from it.
THEOREM ProofsAreTheirOwn == TurnsSpec => []ReplayIsFaithful
<1>1. TurnsInv => ReplayIsFaithful
  BY DEF TurnsInv, InputInv, ItemOK, ReplayIsFaithful
<1>. QED  BY <1>1, TurnsInvInit, TurnsInvNext, PTL DEF TurnsSpec

\* And it puts one there for every call that followed a proof, unless the proof is due to
\* have left the cache: none is lost between the capture and the replay.
THEOREM ProofsComeBack == TurnsSpec => []ReplayIsComplete
<1>1. TurnsInv => ReplayIsComplete
  BY DEF TurnsInv, InputInv, ItemOK, ReplayIsComplete, Due
<1>. QED  BY <1>1, TurnsInvInit, TurnsInvNext, PTL DEF TurnsSpec

\* In a conversation the cache keeps what it promises of itself.
THEOREM CacheKeepsItsPromises == TurnsSpec => [](SizeBounded /\ KeptUntilDue)
<1>1. TurnsSpec => CacheSpec
  <2>1. TurnsInit => CacheInit
    BY DEF TurnsInit
  <2>2. TurnsInv /\ [TurnsNext]_turnVars => [CacheNext]_cacheVars
    BY TurnsAssumption DEF turnVars, TurnsNext, Respond, StoreProof, Deliver, Request, ConvertCall, Send,
       Others, CacheNext, TurnsInv, TurnsTyped
  <2>. QED  BY <2>1, <2>2, TurnsInvInit, TurnsInvNext, PTL DEF TurnsSpec, CacheSpec
<1>. QED  BY <1>1, CacheBounded, ProofsKept, PTL
=============================================================================
