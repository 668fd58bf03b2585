---------------------------- MODULE ProxyProofs ----------------------------
(***************************************************************************)
(* Proofs about ProxyRotation, for any number of goroutines, lists and      *)
(* replacements of the file.                                               *)
(*                                                                         *)
(* A load remembers the time it saw before it read the file.  If that is    *)
(* still the file's time nothing was replaced in between, so the list it    *)
(* read is the file's; if not, the next call loads anew.  What is needed of *)
(* the others is only that no two store at once.                           *)
(***************************************************************************)
EXTENDS ProxyRotation, SequenceTheorems, TLAPS

Content == Lists \cup {Missing, Broken}
Words == {"array", "length"}
PC == {"idle", "cached", "read", "stamp", "assign", "pick", "direct"}

Call == [pc : PC, time : Nat, list : Seq(STRING \cup {Garbage}), words : SUBSET Words]
Cache == [time : Nat, array : Lists \cup {<<>>}, length : Nat]

Stores(g) == caller[g].pc \in {"stamp", "assign"}

TypedInv ==
    /\ contents \in Seq(Content) /\ contents # <<>>
    /\ cache \in Cache /\ cache.time =< ModTime
    /\ index \in 0..IndexCycle - 1
    /\ caller \in [Callers -> Call]
    /\ \A g \in Callers :
         /\ caller[g].time =< ModTime
         /\ Stores(g) => caller[g].list \in Lists
         /\ caller[g].pc = "pick" => caller[g].list # <<>>

OneStores == \A g, h \in Callers : Stores(g) /\ Stores(h) => g = h

\* What a load holds and what it has stored so far.
LoadInv ==
    \A g \in Callers :
        /\ Stores(g) /\ caller[g].time = ModTime => caller[g].list = File
        /\ caller[g].pc = "assign" =>
             /\ cache.time = caller[g].time
             /\ "array" \notin caller[g].words => cache.array = caller[g].list
             /\ "length" \notin caller[g].words => cache.length = Len(caller[g].list)

CurrentInv == LoadInv /\ CacheIsCurrent

-----------------------------------------------------------------------------
(* Types. *)

LEMMA ListTyped ==
    ASSUME NEW list \in Lists \cup {<<>>}
    PROVE  /\ list \in Seq(STRING) /\ list \in Seq(STRING \cup {Garbage})
           /\ Len(list) \in Nat
           /\ Slice(list, Len(list)) = list
           /\ \A n \in Nat : Slice(list, n) \in Seq(STRING \cup {Garbage})
<1>1. list \in Seq(STRING) /\ Len(list) \in Nat
  <2>1. Lists \subseteq Seq(STRING)
    BY ProxyAssumption, Zenon
  <2>2. CASE list \in Lists
    BY <2>1, <2>2
  <2>3. CASE list = <<>>
    BY <2>3
  <2>. QED  BY <2>2, <2>3
<1>2. list \in Seq(STRING \cup {Garbage})
  BY <1>1
<1>3. Slice(list, Len(list)) = list
  BY <1>1 DEF Slice
<1>4. ASSUME NEW n \in Nat PROVE Slice(list, n) \in Seq(STRING \cup {Garbage})
  <2>1. \A i \in 1..n : (IF i <= Len(list) THEN list[i] ELSE Garbage) \in STRING \cup {Garbage}
    BY <1>1
  <2>. QED  BY <2>1, IsASeq DEF Slice
<1>. QED  BY <1>1, <1>2, <1>3, <1>4

\* The file holds something, and keeps what it held under the numbers it had.
LEMMA Held ==
    ASSUME TypedInv
    PROVE  /\ ModTime \in Nat /\ ModTime \in DOMAIN contents /\ File \in Content
           /\ EditFile => /\ contents' \in Seq(Content) /\ contents' # <<>>
                          /\ ModTime' = ModTime + 1
                          /\ \A i \in 1..ModTime : contents'[i] = contents[i]
<1>1. ModTime \in Nat /\ ModTime \in DOMAIN contents /\ File \in Content
  BY DEF TypedInv, ModTime, File
<1>2. ASSUME NEW content \in Content, contents' = Append(contents, content)
      PROVE  /\ contents' \in Seq(Content) /\ contents' # <<>>
             /\ Len(contents') = Len(contents) + 1
             /\ \A i \in 1..Len(contents) : contents'[i] = contents[i]
  BY <1>2 DEF TypedInv
<1>. QED  BY <1>1, <1>2 DEF EditFile, Content, ModTime

\* The record of a call that has its list.
LEMMA LoadedTyped ==
    ASSUME TypedInv, NEW g \in Callers, NEW list \in Seq(STRING \cup {Garbage}), Loaded(g, list)
    PROVE  /\ caller' \in [Callers -> Call]
           /\ \A h \in Callers : h # g => caller'[h] = caller[h]
           /\ caller'[g].pc \in {"direct", "pick"} /\ caller'[g].time = 0
           /\ caller'[g].list = list
           /\ caller'[g].pc = "pick" <=> list # <<>>
<1>. DEFINE new == [Idle EXCEPT !.pc = IF list = <<>> THEN "direct" ELSE "pick", !.list = list]
<1>1. /\ new \in Call /\ new.pc \in {"direct", "pick"} /\ new.time = 0 /\ new.list = list
      /\ new.pc = "pick" <=> list # <<>>
  BY DEF Idle, Call, PC, Words
<1>2. caller' = [caller EXCEPT ![g] = new]
  BY DEF Loaded
<1>. HIDE DEF new
<1>. QED  BY <1>1, <1>2 DEF TypedInv

\* What one call's step has to show for the types.
LEMMA OneCall ==
    ASSUME TypedInv, NEW g \in Callers, contents' = contents,
           cache' \in Cache, cache'.time =< ModTime, index' \in 0..IndexCycle - 1,
           caller' \in [Callers -> Call],
           \A h \in Callers : h # g => caller'[h] = caller[h],
           caller'[g].time =< ModTime,
           caller'[g].pc \in {"stamp", "assign"} => caller'[g].list \in Lists,
           caller'[g].pc = "pick" => caller'[g].list # <<>>
    PROVE  TypedInv'
BY DEF TypedInv, Stores, ModTime

LEMMA LoadedNext ==
    ASSUME TypedInv, NEW g \in Callers, NEW list \in Seq(STRING \cup {Garbage}), Loaded(g, list),
           contents' = contents, cache' \in Cache, cache'.time =< ModTime, index' = index
    PROVE  TypedInv'
<1>1. /\ caller' \in [Callers -> Call]
      /\ \A h \in Callers : h # g => caller'[h] = caller[h]
      /\ caller'[g].pc \in {"direct", "pick"} /\ caller'[g].time = 0
      /\ caller'[g].list = list
      /\ caller'[g].pc = "pick" <=> list # <<>>
  BY LoadedTyped
<1>2. index' \in 0..IndexCycle - 1 /\ 0 =< ModTime
  BY Held DEF TypedInv
<1>. QED  BY <1>1, <1>2, OneCall

LEMMA TypedNext == TypedInv /\ [ProxyNext]_proxyVars => TypedInv'
<1>. SUFFICES ASSUME TypedInv, [ProxyNext]_proxyVars PROVE TypedInv'
  OBVIOUS
<1>1. /\ \A g \in Callers : caller[g] \in Call
      /\ cache \in Cache /\ cache.time =< ModTime /\ index \in 0..IndexCycle - 1
      /\ ModTime \in Nat /\ File \in Content
      /\ <<>> \in Seq(STRING \cup {Garbage})
  BY Held DEF TypedInv
<1>2. ASSUME NEW g \in Callers, Stat(g) PROVE TypedInv'
  <2>1. CASE Loaded(g, <<>>)
    BY <1>1, <1>2, <2>1, LoadedNext DEF Stat
  <2>2. CASE caller' = [caller EXCEPT ![g] =
               [Idle EXCEPT !.pc = IF cache.time = ModTime THEN "cached" ELSE "read",
                            !.time = ModTime]]
    <3>. DEFINE new == [Idle EXCEPT !.pc = IF cache.time = ModTime THEN "cached" ELSE "read",
                                    !.time = ModTime]
    <3>1. new \in Call /\ new.pc \in {"cached", "read"} /\ new.time = ModTime
      BY <1>1 DEF Idle, Call, PC, Words
    <3>2. caller' = [caller EXCEPT ![g] = new]
      BY <2>2
    <3>. HIDE DEF new
    <3>3. /\ caller' \in [Callers -> Call] /\ caller'[g] = new
          /\ \A h \in Callers : h # g => caller'[h] = caller[h]
      BY <3>1, <3>2 DEF TypedInv
    <3>. QED  BY <1>1, <1>2, <3>1, <3>3, OneCall DEF Stat
  <2>. QED  BY <1>2, <2>1, <2>2 DEF Stat
<1>3. ASSUME NEW g \in Callers, ReadCached(g) PROVE TypedInv'
  <2>1. Slice(cache.array, cache.length) \in Seq(STRING \cup {Garbage})
    BY <1>1, ListTyped DEF Cache
  <2>. QED  BY <1>1, <1>3, <2>1, LoadedNext DEF ReadCached
<1>4. ASSUME NEW g \in Callers, ReadFile(g) PROVE TypedInv'
  <2>1. CASE Loaded(g, <<>>)
    BY <1>1, <1>4, <2>1, LoadedNext DEF ReadFile
  <2>2. CASE File \notin {Missing, Broken}
             /\ caller' = [caller EXCEPT ![g].pc = "stamp", ![g].list = File]
    <3>1. File \in Lists /\ File \in Seq(STRING \cup {Garbage})
      BY <1>1, <2>2, ListTyped DEF Content
    <3>. DEFINE list == File
    <3>2. list \in Seq(STRING \cup {Garbage})
      BY <3>1
    <3>3. caller' = [caller EXCEPT ![g] = [caller[g] EXCEPT !.pc = "stamp", !.list = list]]
      BY <2>2
    <3>. HIDE DEF list
    <3>. DEFINE new == [caller[g] EXCEPT !.pc = "stamp", !.list = list]
    <3>4. new \in Call /\ new.pc = "stamp" /\ new.list = list /\ new.time = caller[g].time
      BY <1>1, <3>2 DEF Call, PC
    <3>5. caller' = [caller EXCEPT ![g] = new]
      BY <3>3
    <3>. HIDE DEF new
    <3>6. /\ caller' \in [Callers -> Call] /\ caller'[g] = new
          /\ \A h \in Callers : h # g => caller'[h] = caller[h]
      BY <3>4, <3>5 DEF TypedInv
    <3>7. new.list \in Lists /\ new.time =< ModTime
      BY <3>1, <3>4 DEF TypedInv, list
    <3>. QED  BY <1>1, <1>4, <3>4, <3>6, <3>7, OneCall DEF ReadFile
  <2>. QED  BY <1>4, <2>1, <2>2 DEF ReadFile
<1>5. ASSUME NEW g \in Callers, StoreTime(g) PROVE TypedInv'
  <2>. DEFINE new == [caller[g] EXCEPT !.pc = "assign", !.words = {"array", "length"}]
  <2>1. new \in Call /\ new.pc = "assign" /\ new.list = caller[g].list /\ new.time = caller[g].time
    BY <1>1 DEF Call, PC, Words
  <2>2. caller' = [caller EXCEPT ![g] = new]
    BY <1>5 DEF StoreTime
  <2>. HIDE DEF new
  <2>3. /\ caller' \in [Callers -> Call] /\ caller'[g] = new
        /\ \A h \in Callers : h # g => caller'[h] = caller[h]
    BY <2>1, <2>2 DEF TypedInv
  <2>4. cache' \in Cache /\ cache'.time = caller[g].time
    BY <1>1, <1>5 DEF StoreTime, Cache, Call
  <2>5. caller[g].time =< ModTime /\ caller[g].list \in Lists
    BY <1>5 DEF TypedInv, StoreTime, Stores
  <2>. QED  BY <1>1, <1>5, <2>1, <2>3, <2>4, <2>5, OneCall DEF StoreTime
<1>6. ASSUME NEW g \in Callers, NEW word \in Words, StoreWord(g, word) PROVE TypedInv'
  <2>1. caller[g].list \in Lists /\ Len(caller[g].list) \in Nat
        /\ caller[g].list \in Seq(STRING \cup {Garbage})
    BY <1>6, ListTyped DEF TypedInv, StoreWord, Stores
  <2>2. cache' \in Cache /\ cache'.time = cache.time
    BY <1>1, <1>6, <2>1 DEF StoreWord, Cache
  <2>3. CASE Loaded(g, caller[g].list)
    BY <1>1, <1>6, <2>1, <2>2, <2>3, LoadedNext DEF StoreWord
  <2>4. CASE caller' = [caller EXCEPT ![g].words = @ \ {word}]
    <3>. DEFINE new == [caller[g] EXCEPT !.words = @ \ {word}]
    <3>1. /\ new \in Call /\ new.pc = caller[g].pc /\ new.list = caller[g].list
          /\ new.time = caller[g].time
      BY <1>1 DEF Call
    <3>2. caller' = [caller EXCEPT ![g] = new]
      BY <2>4
    <3>. HIDE DEF new
    <3>3. /\ caller' \in [Callers -> Call] /\ caller'[g] = new
          /\ \A h \in Callers : h # g => caller'[h] = caller[h]
      BY <3>1, <3>2 DEF TypedInv
    <3>4. caller[g].time =< ModTime /\ caller[g].pc = "assign"
      BY <1>6 DEF TypedInv, StoreWord
    <3>. QED  BY <1>1, <1>6, <2>1, <2>2, <3>1, <3>3, <3>4, OneCall DEF StoreWord
  <2>. QED  BY <1>6, <2>3, <2>4 DEF StoreWord
<1>7. ASSUME NEW g \in Callers, Pick(g) PROVE TypedInv'
  <2>1. Idle \in Call /\ Idle.pc = "idle" /\ Idle.time = 0
    BY <1>1 DEF Idle, Call, PC
  <2>2. /\ caller' \in [Callers -> Call] /\ caller'[g] = Idle
        /\ \A h \in Callers : h # g => caller'[h] = caller[h]
    BY <1>7, <2>1 DEF Pick, TypedInv
  <2>3. index' \in 0..IndexCycle - 1
    BY <1>1, <1>7, ProxyAssumption DEF Pick
  <2>. QED  BY <1>1, <1>7, <2>1, <2>2, <2>3, OneCall DEF Pick
<1>8. CASE EditFile
  <2>1. contents' \in Seq(Content) /\ contents' # <<>> /\ ModTime' = ModTime + 1
    BY <1>8, Held
  <2>2. \A g \in Callers : caller[g].time \in Nat /\ cache.time \in Nat
    BY <1>1 DEF Call, Cache
  <2>. QED  BY <1>1, <1>8, <2>1, <2>2 DEF EditFile, TypedInv, Stores, Cache
<1>9. CASE UNCHANGED proxyVars
  BY <1>9 DEF proxyVars, TypedInv, Stores, ModTime
<1>. QED  BY <1>2, <1>3, <1>4, <1>5, <1>6, <1>7, <1>8, <1>9 DEF ProxyNext, Words

-----------------------------------------------------------------------------
(* The list remembered. *)

\* A step that ends no load leaves what is remembered to be compared with the file.
LEMMA StillCurrent ==
    ASSUME CacheIsCurrent, contents' = contents, cache' = cache,
           \A g \in Callers : Stores(g) <=> Stores(g)'
    PROVE  CacheIsCurrent'
BY DEF CacheIsCurrent, Stores, ModTime, File

LEMMA CurrentNext ==
    ASSUME TypedInv, TypedInv', OneStores, OneStores', CurrentInv, [ProxyNext]_proxyVars
    PROVE  CurrentInv'
<1>1. /\ \A g \in Callers : caller[g] \in Call
      /\ caller \in [Callers -> Call]
      /\ cache \in Cache /\ cache.time =< ModTime
      /\ ModTime \in Nat /\ File \in Content
      /\ <<>> \in Seq(STRING \cup {Garbage})
  BY Held DEF TypedInv
<1>2. ASSUME contents' = contents, cache' = cache, NEW g \in Callers,
             ~Stores(g), caller'[g].pc \notin {"stamp", "assign"},
             \A h \in Callers : h # g => caller'[h] = caller[h]
      PROVE  CurrentInv'
  <2>1. \A h \in Callers : Stores(h) <=> Stores(h)'
    BY <1>2 DEF Stores
  <2>2. LoadInv'
    BY <1>2 DEF CurrentInv, LoadInv, Stores, ModTime, File
  <2>. QED  BY <1>2, <2>1, <2>2, StillCurrent DEF CurrentInv
<1>3. ASSUME NEW g \in Callers, NEW list \in Seq(STRING \cup {Garbage}), Loaded(g, list),
             ~Stores(g), contents' = contents, cache' = cache
      PROVE  CurrentInv'
  <2>1. /\ caller'[g].pc \in {"direct", "pick"}
        /\ \A h \in Callers : h # g => caller'[h] = caller[h]
    BY <1>3, LoadedTyped
  <2>. QED  BY <1>2, <1>3, <2>1
<1>4. ASSUME NEW g \in Callers, Stat(g) PROVE CurrentInv'
  <2>1. ~Stores(g) /\ contents' = contents /\ cache' = cache
    BY <1>4 DEF Stat, Stores
  <2>2. CASE Loaded(g, <<>>)
    BY <1>1, <1>3, <2>1, <2>2
  <2>3. CASE caller' = [caller EXCEPT ![g] =
               [Idle EXCEPT !.pc = IF cache.time = ModTime THEN "cached" ELSE "read",
                            !.time = ModTime]]
    <3>1. /\ caller'[g].pc \in {"cached", "read"}
          /\ \A h \in Callers : h # g => caller'[h] = caller[h]
      BY <1>1, <2>3 DEF Idle
    <3>. QED  BY <1>2, <2>1, <3>1
  <2>. QED  BY <1>4, <2>2, <2>3 DEF Stat
<1>5. ASSUME NEW g \in Callers, ReadCached(g) PROVE CurrentInv'
  <2>1. Slice(cache.array, cache.length) \in Seq(STRING \cup {Garbage})
    BY <1>1, ListTyped DEF Cache
  <2>. QED  BY <1>3, <1>5, <2>1 DEF ReadCached, Stores
<1>6. ASSUME NEW g \in Callers, ReadFile(g) PROVE CurrentInv'
  <2>1. ~Stores(g) /\ contents' = contents /\ cache' = cache
    BY <1>6 DEF ReadFile, Stores
  <2>2. CASE Loaded(g, <<>>)
    BY <1>1, <1>3, <2>1, <2>2
  <2>3. CASE caller' = [caller EXCEPT ![g].pc = "stamp", ![g].list = File]
    <3>1. caller'[g] = [caller[g] EXCEPT !.pc = "stamp", !.list = File]
      BY <1>1, <2>3
    <3>2. caller'[g].pc = "stamp" /\ caller'[g].list = File
      BY <1>1, <3>1 DEF Call
    <3>3. \A h \in Callers : h # g => caller'[h] = caller[h]
      BY <1>1, <2>3
    <3>4. LoadInv'
      BY <2>1, <3>2, <3>3 DEF CurrentInv, LoadInv, Stores, ModTime, File
    <3>5. CacheIsCurrent'
      BY <3>2 DEF CacheIsCurrent
    <3>. QED  BY <3>4, <3>5 DEF CurrentInv
  <2>. QED  BY <1>6, <2>2, <2>3 DEF ReadFile
<1>7. ASSUME NEW g \in Callers, StoreTime(g) PROVE CurrentInv'
  <2>1. caller'[g] = [caller[g] EXCEPT !.pc = "assign", !.words = {"array", "length"}]
    BY <1>1, <1>7 DEF StoreTime
  <2>2. /\ caller'[g].pc = "assign" /\ caller'[g].words = {"array", "length"}
        /\ caller'[g].list = caller[g].list /\ caller'[g].time = caller[g].time
    BY <1>1, <2>1 DEF Call
  <2>3. \A h \in Callers : h # g => caller'[h] = caller[h] /\ ~Stores(h)
    <3>1. \A h \in Callers : h # g => caller'[h] = caller[h]
      BY <1>1, <1>7 DEF StoreTime
    <3>2. Stores(g)
      BY <1>7 DEF StoreTime, Stores
    <3>. QED  BY <3>1, <3>2 DEF OneStores
  <2>4. cache'.time = caller[g].time /\ contents' = contents
    BY <1>1, <1>7 DEF StoreTime, Cache
  <2>5. Stores(g)
    BY <1>7 DEF StoreTime, Stores
  <2>6. LoadInv'
    BY <2>2, <2>3, <2>4, <2>5 DEF CurrentInv, LoadInv, Stores, ModTime, File
  <2>7. CacheIsCurrent'
    BY <2>2 DEF CacheIsCurrent
  <2>. QED  BY <2>6, <2>7 DEF CurrentInv
<1>8. ASSUME NEW g \in Callers, NEW word \in Words, StoreWord(g, word) PROVE CurrentInv'
  <2>1. /\ caller[g].pc = "assign" /\ Stores(g) /\ contents' = contents
        /\ cache.time = caller[g].time
        /\ \A h \in Callers : h # g => ~Stores(h)
    BY <1>8 DEF StoreWord, Stores, OneStores, CurrentInv, LoadInv
  <2>2. caller[g].list \in Lists /\ caller[g].list \in Seq(STRING \cup {Garbage})
        /\ Slice(caller[g].list, Len(caller[g].list)) = caller[g].list
    BY <2>1, ListTyped DEF TypedInv
  <2>3. /\ cache'.time = caller[g].time
        /\ cache'.array = IF word = "array" THEN caller[g].list ELSE cache.array
        /\ cache'.length = IF word = "length" THEN Len(caller[g].list) ELSE cache.length
    BY <1>1, <1>8, <2>1 DEF StoreWord, Cache, Words
  <2>4. /\ "array" \notin caller[g].words => cache.array = caller[g].list
        /\ "length" \notin caller[g].words => cache.length = Len(caller[g].list)
        /\ caller[g].time = ModTime => caller[g].list = File
    BY <2>1 DEF CurrentInv, LoadInv
  <2>5. CASE caller[g].words = {word} /\ Loaded(g, caller[g].list)
    <3>1. /\ caller'[g].pc \in {"direct", "pick"}
          /\ \A h \in Callers : h # g => caller'[h] = caller[h]
      BY <2>2, <2>5, LoadedTyped
    <3>2. LoadInv'
      BY <2>1, <3>1 DEF LoadInv, Stores
    <3>3. cache'.array = caller[g].list /\ cache'.length = Len(caller[g].list)
      BY <2>3, <2>4, <2>5 DEF Words
    <3>4. CacheIsCurrent'
      BY <2>1, <2>2, <2>3, <2>4, <3>3 DEF CacheIsCurrent, Slice, ModTime, File
    <3>. QED  BY <3>2, <3>4 DEF CurrentInv
  <2>6. CASE caller' = [caller EXCEPT ![g].words = @ \ {word}]
    <3>1. caller'[g] = [caller[g] EXCEPT !.words = @ \ {word}]
      BY <1>1, <2>6
    <3>2. /\ caller'[g].pc = "assign" /\ caller'[g].words = caller[g].words \ {word}
          /\ caller'[g].list = caller[g].list /\ caller'[g].time = caller[g].time
      BY <1>1, <2>1, <3>1 DEF Call
    <3>3. \A h \in Callers : h # g => caller'[h] = caller[h]
      BY <1>1, <2>6
    <3>4. LoadInv'
      BY <2>1, <2>3, <2>4, <3>2, <3>3 DEF LoadInv, Stores, ModTime, File, Words
    <3>5. CacheIsCurrent'
      BY <3>2 DEF CacheIsCurrent
    <3>. QED  BY <3>4, <3>5 DEF CurrentInv
  <2>. QED  BY <1>8, <2>5, <2>6 DEF StoreWord
<1>9. ASSUME NEW g \in Callers, Pick(g) PROVE CurrentInv'
  <2>1. ~Stores(g) /\ contents' = contents /\ cache' = cache
    BY <1>9 DEF Pick, Stores
  <2>2. caller'[g].pc = "idle" /\ \A h \in Callers : h # g => caller'[h] = caller[h]
    BY <1>1, <1>9 DEF Pick, Idle
  <2>. QED  BY <1>2, <2>1, <2>2
<1>10. CASE EditFile
  <2>1. ModTime' = ModTime + 1 /\ caller' = caller /\ cache' = cache
    BY <1>10, Held DEF EditFile
  <2>2. \A g \in Callers : caller[g].time =< ModTime /\ caller[g].time \in Nat
    BY <1>1 DEF TypedInv, Call
  <2>3. cache.time \in Nat
    BY <1>1 DEF Cache
  <2>4. LoadInv'
    BY <1>1, <2>1, <2>2 DEF CurrentInv, LoadInv, Stores
  <2>5. CacheIsCurrent'
    BY <1>1, <2>1, <2>3 DEF CacheIsCurrent
  <2>. QED  BY <2>4, <2>5 DEF CurrentInv
<1>11. CASE UNCHANGED proxyVars
  BY <1>11 DEF proxyVars, CurrentInv, LoadInv, CacheIsCurrent, Stores, ModTime, File
<1>. QED
  BY <1>4, <1>5, <1>6, <1>7, <1>8, <1>9, <1>10, <1>11 DEF ProxyNext, Words

LEMMA ProxyInvInit == ProxyInit => TypedInv /\ CurrentInv
<1>. SUFFICES ASSUME ProxyInit PROVE TypedInv /\ CurrentInv
  OBVIOUS
<1>1. contents \in Seq(Content) /\ contents # <<>> /\ ModTime = 1
  <2>1. PICK content \in Content : contents = <<content>>
    BY DEF ProxyInit, Content
  <2>. QED  BY <2>1 DEF ModTime
<1>2. Idle \in Call /\ Idle.pc = "idle" /\ Idle.time = 0
  <2>1. <<>> \in Seq(STRING \cup {Garbage})
    OBVIOUS
  <2>. QED  BY <2>1 DEF Idle, Call, PC
<1>3. cache \in Cache /\ cache.time = 0
  BY DEF ProxyInit, Cache
<1>4. index \in 0..IndexCycle - 1
  <2>1. IndexCycle \in Nat \ {0}
    BY ProxyAssumption, Zenon
  <2>. QED  BY <2>1 DEF ProxyInit
<1>5. TypedInv
  BY <1>1, <1>2, <1>3, <1>4 DEF ProxyInit, TypedInv, Stores
<1>6. LoadInv
  BY <1>2 DEF ProxyInit, LoadInv, Stores
<1>7. CacheIsCurrent
  BY <1>1, <1>3 DEF CacheIsCurrent
<1>. QED  BY <1>5, <1>6, <1>7 DEF CurrentInv

LEMMA ProxyTyped == ProxySpec => []TypedInv
  BY ProxyInvInit, TypedNext, PTL DEF ProxySpec

\* Whatever the file holds and however its replacements and the loads interleave, no
\* call divides by the length of an empty list, and none remembers a time to come.
THEOREM ProxyTypes == ProxySpec => []ProxyTypeOK
<1>1. TypedInv => ProxyTypeOK
  <2>. SUFFICES ASSUME TypedInv PROVE ProxyTypeOK
    OBVIOUS
  <2>1. ModTime \in Nat
    BY Held
  <2>. QED  BY <2>1 DEF TypedInv, ProxyTypeOK, Content, Cache, Call, PC, Words
<1>. QED  BY <1>1, ProxyTyped, PTL

\* As long as no two loads overlap, the list remembered is the file's, however often
\* the file is replaced while one is read.
THEOREM SoleLoad == ProxySpec => SoleLoadIsCurrent
<1>1. (\A g, h \in Callers : Loads(g) /\ Loads(h) => g = h) => OneStores
  BY DEF OneStores, Loads, Stores
<1>2. TypedInv /\ TypedInv' /\ OneStores /\ OneStores' /\ CurrentInv /\ [ProxyNext]_proxyVars
        => CurrentInv'
  BY CurrentNext
<1>3. CurrentInv => CacheIsCurrent
  BY DEF CurrentInv
<1>. QED  BY <1>1, <1>2, <1>3, ProxyInvInit, ProxyTyped, PTL DEF ProxySpec, SoleLoadIsCurrent

-----------------------------------------------------------------------------
(* The lists used. *)

Exclusive ==
    \A g, h \in Callers :
        caller[g].pc \in {"stamp", "assign"} /\ (Loads(h) \/ caller[h].pc = "cached") => g = h

InFile(list) == \E i \in 1..ModTime : contents[i] = list

\* What each call goes by has been in the file.
UsesInv ==
    \A g \in Callers :
        /\ Stores(g) => InFile(caller[g].list)
        /\ caller[g].pc = "cached" => InFile(Slice(cache.array, cache.length))
        /\ caller[g].pc = "pick" => InFile(caller[g].list)
        /\ caller[g].pc = "direct" => \E none \in {Missing, Broken, <<>>} : InFile(none)

\* What one call's step has to show, if no other is about to read what it stores.
LEMMA OneUse ==
    ASSUME UsesInv, NEW g \in Callers, contents' = contents,
           \A h \in Callers : h # g => caller'[h] = caller[h],
           cache' = cache \/ \A h \in Callers : h # g => caller[h].pc # "cached",
           caller'[g].pc \in {"stamp", "assign", "pick"} => InFile(caller'[g].list),
           caller'[g].pc = "cached" => cache' = cache /\ InFile(Slice(cache.array, cache.length)),
           caller'[g].pc = "direct" => \E none \in {Missing, Broken, <<>>} : InFile(none)
    PROVE  UsesInv'
<1>1. \A list : InFile(list)' <=> \E i \in 1..ModTime : contents[i] = list'
  BY DEF InFile, ModTime
<1>2. ASSUME NEW h \in Callers
      PROVE  /\ Stores(h)' => InFile(caller[h].list)'
             /\ caller'[h].pc = "cached" => InFile(Slice(cache.array, cache.length))'
             /\ caller'[h].pc = "pick" => InFile(caller[h].list)'
             /\ caller'[h].pc = "direct" => \E none \in {Missing, Broken, <<>>} : InFile(none)'
  <2>1. CASE h = g
    BY <2>1 DEF InFile, ModTime, Stores, Slice
  <2>2. CASE h # g
    BY <2>2 DEF UsesInv, InFile, ModTime, Stores, Slice
  <2>. QED  BY <2>1, <2>2
<1>. QED  BY <1>2 DEF UsesInv

LEMMA LoadedUse ==
    ASSUME TypedInv, UsesInv, NEW g \in Callers, NEW list \in Seq(STRING \cup {Garbage}),
           Loaded(g, list), contents' = contents,
           cache' = cache \/ \A h \in Callers : h # g => caller[h].pc # "cached",
           list # <<>> => InFile(list),
           list = <<>> => \E none \in {Missing, Broken, <<>>} : InFile(none)
    PROVE  UsesInv'
<1>1. /\ \A h \in Callers : h # g => caller'[h] = caller[h]
      /\ caller'[g].pc \in {"direct", "pick"} /\ caller'[g].list = list
      /\ caller'[g].pc = "pick" <=> list # <<>>
  BY LoadedTyped
<1>. QED  BY <1>1, OneUse

LEMMA UsesNext ==
    ASSUME TypedInv, CurrentInv, Exclusive, Exclusive', UsesInv, [ProxyNext]_proxyVars
    PROVE  UsesInv'
<1>1. /\ \A g \in Callers : caller[g] \in Call
      /\ caller \in [Callers -> Call]
      /\ cache \in Cache /\ ModTime \in Nat /\ File \in Content
      /\ <<>> \in Seq(STRING \cup {Garbage})
  BY Held DEF TypedInv
<1>2. InFile(File)
  BY Held DEF InFile, File, TypedInv, ModTime
<1>3. ASSUME NEW g \in Callers, Stat(g) PROVE UsesInv'
  <2>1. contents' = contents /\ cache' = cache
    BY <1>3 DEF Stat
  <2>2. CASE File = Missing /\ Loaded(g, <<>>)
    BY <1>1, <1>2, <2>1, <2>2, LoadedUse
  <2>3. CASE caller' = [caller EXCEPT ![g] =
               [Idle EXCEPT !.pc = IF cache.time = ModTime THEN "cached" ELSE "read",
                            !.time = ModTime]]
    <3>1. /\ caller'[g].pc = IF cache.time = ModTime THEN "cached" ELSE "read"
          /\ \A h \in Callers : h # g => caller'[h] = caller[h]
      BY <1>1, <2>3 DEF Idle
    <3>2. CASE cache.time # ModTime
      BY <2>1, <3>1, <3>2, OneUse
    <3>3. CASE cache.time = ModTime
      <4>1. \A h \in Callers : caller[h].pc \notin {"stamp", "assign"}
        <5>1. \A h \in Callers : h # g => caller[h].pc \notin {"stamp", "assign"}
          BY <3>1, <3>3 DEF Exclusive
        <5>2. caller[g].pc \notin {"stamp", "assign"}
          BY <1>3 DEF Stat
        <5>. QED  BY <5>1, <5>2
      <4>2. Slice(cache.array, cache.length) = File
        BY <3>3, <4>1 DEF CurrentInv, CacheIsCurrent
      <4>. QED  BY <1>2, <2>1, <3>1, <3>3, <4>2, OneUse
    <3>. QED  BY <3>2, <3>3
  <2>. QED  BY <1>3, <2>2, <2>3 DEF Stat
<1>4. ASSUME NEW g \in Callers, ReadCached(g) PROVE UsesInv'
  <2>. DEFINE list == Slice(cache.array, cache.length)
  <2>1. list \in Seq(STRING \cup {Garbage})
    BY <1>1, ListTyped DEF Cache
  <2>2. InFile(list)
    BY <1>4 DEF UsesInv, ReadCached
  <2>3. Loaded(g, list) /\ contents' = contents /\ cache' = cache
    BY <1>4 DEF ReadCached
  <2>. HIDE DEF list
  <2>. QED  BY <2>1, <2>2, <2>3, LoadedUse
<1>5. ASSUME NEW g \in Callers, ReadFile(g) PROVE UsesInv'
  <2>1. contents' = contents /\ cache' = cache
    BY <1>5 DEF ReadFile
  <2>2. CASE File \in {Missing, Broken} /\ Loaded(g, <<>>)
    BY <1>1, <1>2, <2>1, <2>2, LoadedUse
  <2>3. CASE caller' = [caller EXCEPT ![g].pc = "stamp", ![g].list = File]
    <3>1. caller'[g] = [caller[g] EXCEPT !.pc = "stamp", !.list = File]
      BY <1>1, <2>3
    <3>2. caller'[g].pc = "stamp" /\ caller'[g].list = File
      BY <1>1, <3>1 DEF Call
    <3>3. \A h \in Callers : h # g => caller'[h] = caller[h]
      BY <1>1, <2>3
    <3>. QED  BY <1>2, <2>1, <3>2, <3>3, OneUse
  <2>. QED  BY <1>5, <2>2, <2>3 DEF ReadFile
<1>6. ASSUME NEW g \in Callers, Stores(g)
      PROVE  InFile(caller[g].list) /\ \A h \in Callers : h # g => caller[h].pc # "cached"
  BY <1>6 DEF UsesInv, Exclusive, Stores
<1>7. ASSUME NEW g \in Callers, StoreTime(g) PROVE UsesInv'
  <2>1. caller'[g] = [caller[g] EXCEPT !.pc = "assign", !.words = {"array", "length"}]
    BY <1>1, <1>7 DEF StoreTime
  <2>2. caller'[g].pc = "assign" /\ caller'[g].list = caller[g].list
    BY <1>1, <2>1 DEF Call
  <2>3. contents' = contents /\ \A h \in Callers : h # g => caller'[h] = caller[h]
    BY <1>1, <1>7 DEF StoreTime
  <2>4. InFile(caller[g].list) /\ \A h \in Callers : h # g => caller[h].pc # "cached"
    BY <1>6, <1>7 DEF StoreTime, Stores
  <2>. QED  BY <2>2, <2>3, <2>4, OneUse
<1>8. ASSUME NEW g \in Callers, NEW word \in Words, StoreWord(g, word) PROVE UsesInv'
  <2>1. caller[g].pc = "assign" /\ Stores(g) /\ contents' = contents
    BY <1>8 DEF StoreWord, Stores
  <2>2. InFile(caller[g].list) /\ \A h \in Callers : h # g => caller[h].pc # "cached"
    BY <1>6, <2>1
  <2>3. CASE Loaded(g, caller[g].list)
    <3>1. caller[g].list \in Seq(STRING \cup {Garbage})
      BY <1>1 DEF Call
    <3>. QED  BY <2>1, <2>2, <2>3, <3>1, LoadedUse
  <2>4. CASE caller' = [caller EXCEPT ![g].words = @ \ {word}]
    <3>1. caller'[g] = [caller[g] EXCEPT !.words = @ \ {word}]
      BY <1>1, <2>4
    <3>2. caller'[g].pc = "assign" /\ caller'[g].list = caller[g].list
      BY <1>1, <2>1, <3>1 DEF Call
    <3>3. \A h \in Callers : h # g => caller'[h] = caller[h]
      BY <1>1, <2>4
    <3>. QED  BY <2>1, <2>2, <3>2, <3>3, OneUse
  <2>. QED  BY <1>8, <2>3, <2>4 DEF StoreWord
<1>9. ASSUME NEW g \in Callers, Pick(g) PROVE UsesInv'
  <2>1. contents' = contents /\ cache' = cache
    BY <1>9 DEF Pick
  <2>2. caller'[g].pc = "idle" /\ \A h \in Callers : h # g => caller'[h] = caller[h]
    BY <1>1, <1>9 DEF Pick, Idle
  <2>. QED  BY <2>1, <2>2, OneUse
<1>10. CASE EditFile
  <2>1. caller' = caller /\ cache' = cache
    BY <1>10 DEF EditFile
  <2>2. ModTime' = ModTime + 1 /\ \A i \in 1..ModTime : contents'[i] = contents[i]
    BY <1>10, Held
  <2>3. \A list : (\E i \in 1..ModTime : contents[i] = list)
                     => \E i \in 1..ModTime' : contents'[i] = list
    BY <1>1, <2>2
  <2>. QED  BY <2>1, <2>3 DEF UsesInv, InFile, Stores, Slice
<1>11. CASE UNCHANGED proxyVars
  BY <1>11 DEF proxyVars, UsesInv, InFile, Stores, Slice, ModTime
<1>. QED
  BY <1>3, <1>4, <1>5, <1>7, <1>8, <1>9, <1>10, <1>11 DEF ProxyNext, Words

\* As long as nobody reads the remembered list, or loads another, while one is stored,
\* a call uses a list the file has held, and goes direct only when it held none.
THEOREM FilesListUsed == ProxySpec => UsesFilesList
<1>1. (\A g, h \in Callers :
          caller[g].pc \in {"stamp", "assign"} /\ (Loads(h) \/ caller[h].pc = "cached") => g = h)
        => Exclusive /\ OneStores
  BY DEF Exclusive, OneStores, Loads, Stores
<1>2. TypedInv /\ TypedInv' /\ OneStores /\ OneStores' /\ CurrentInv /\ [ProxyNext]_proxyVars
        => CurrentInv'
  BY CurrentNext
<1>3. TypedInv /\ CurrentInv /\ Exclusive /\ Exclusive' /\ UsesInv /\ [ProxyNext]_proxyVars
        => UsesInv'
  BY UsesNext
<1>4. ProxyInit => UsesInv
  <2>1. ProxyInit => \A g \in Callers : caller[g].pc = "idle"
    <3>1. Idle.pc = "idle"
      BY DEF Idle
    <3>. QED  BY <3>1, Zenon DEF ProxyInit
  <2>. QED  BY <2>1 DEF UsesInv, Stores
<1>5. UsesInv =>
        (\A g \in Callers :
             /\ caller[g].pc = "pick" => \E i \in 1..ModTime : contents[i] = caller[g].list
             /\ caller[g].pc = "direct" =>
                    \E i \in 1..ModTime : contents[i] \in {Missing, Broken, <<>>})
  BY DEF UsesInv, InFile
<1>. QED
  BY <1>1, <1>2, <1>3, <1>4, <1>5, ProxyInvInit, ProxyTyped, PTL DEF ProxySpec, UsesFilesList

-----------------------------------------------------------------------------
(* The turn. *)

\* The lengths a list can have, whatever two loads at once made of it.
Lengths == {0} \cup {Len(list) : list \in Lists}

\* The position of the last pick is the index's, counted modulo the list's length:
\* the index starts over at a multiple of every length.
RotationInv ==
    /\ cache.length \in Lengths
    /\ \A g \in Callers : Len(caller[g].list) \in Lengths
    /\ Len(picked.list) \in Lengths
    /\ Len(picked.list) # 0 => picked.at % Len(picked.list) = index % Len(picked.list)

LEMMA Divides == \A n \in Lengths : n \in Nat /\ (n # 0 => IndexCycle % n = 0)
<1>. SUFFICES ASSUME NEW n \in Lengths PROVE n \in Nat /\ (n # 0 => IndexCycle % n = 0)
  OBVIOUS
<1>1. CASE n = 0
  BY <1>1
<1>2. CASE n # 0
  <2>1. PICK list \in Lists : n = Len(list)
    BY <1>2 DEF Lengths
  <2>2. list \in Seq(STRING) /\ Len(list) \in Nat
    BY ListTyped
  <2>3. list # <<>>
    BY <1>2, <2>1
  <2>4. IndexCycle % Len(list) = 0
    BY <2>3, ProxyAssumption, Zenon
  <2>. QED  BY <2>1, <2>2, <2>4
<1>. QED  BY <1>1, <1>2

\* A number is a multiple and a remainder in one way.
LEMMA ModDivides ==
    ASSUME NEW n \in Nat, NEW m \in Nat, m # 0
    PROVE  /\ n \div m \in Int /\ n % m \in 0..m - 1
           /\ n = m * (n \div m) + (n % m)
  BY Z3

LEMMA Multiples ==
    ASSUME NEW m \in Nat, m # 0, NEW j \in Int, NEW k \in Int, j < k
    PROVE  m * j + m =< m * k
<1>1. PICK d \in Nat : k = j + 1 + d
  <2>1. k - j - 1 \in Nat /\ k = j + 1 + (k - j - 1)
    OBVIOUS
  <2>. QED  BY <2>1
<1>2. m * (j + 1 + d) = m * j + m + m * d
  OBVIOUS
<1>3. m * d \in Nat
  OBVIOUS
<1>. QED  BY <1>1, <1>2, <1>3

LEMMA ModUnique ==
    ASSUME NEW n \in Nat, NEW m \in Nat, m # 0, NEW k \in Int, NEW r \in 0..m - 1,
           n = m * k + r
    PROVE  n % m = r
<1>. PICK j, s : j = n \div m /\ s = n % m
  OBVIOUS
<1>1. j \in Int /\ s \in 0..m - 1 /\ n = m * j + s
  BY ModDivides
<1>2. ~(j < k)
  <2>1. SUFFICES ASSUME j < k PROVE FALSE
    OBVIOUS
  <2>2. m * j + m =< m * k
    BY <1>1, <2>1, Multiples
  <2>3. m * j \in Int /\ m * k \in Int
    BY <1>1
  <2>. QED  BY <1>1, <2>2, <2>3
<1>3. ~(k < j)
  <2>1. SUFFICES ASSUME k < j PROVE FALSE
    OBVIOUS
  <2>2. m * k + m =< m * j
    BY <1>1, <2>1, Multiples
  <2>3. m * j \in Int /\ m * k \in Int
    BY <1>1
  <2>. QED  BY <1>1, <2>2, <2>3
<1>4. j = k
  BY <1>1, <1>2, <1>3
<1>5. m * k \in Int
  OBVIOUS
<1>. QED  BY <1>1, <1>4, <1>5

\* One more, modulo a length.
LEMMA ModSuccessor ==
    ASSUME NEW n \in Nat, NEW m \in Nat, m # 0
    PROVE  (n + 1) % m = (1 + (n % m)) % m
<1>. PICK j, r : j = n \div m /\ r = n % m
  OBVIOUS
<1>1. j \in Int /\ r \in 0..m - 1 /\ n = m * j + r
  BY ModDivides
<1>2. m * j \in Int
  BY <1>1
<1>3. CASE r + 1 < m
  <2>1. (n + 1) % m = r + 1
    <3>1. n + 1 = m * j + (r + 1) /\ n + 1 \in Nat /\ r + 1 \in 0..m - 1
      BY <1>1, <1>2, <1>3
    <3>. QED  BY <1>1, <3>1, ModUnique
  <2>2. (1 + r) % m = r + 1
    <3>1. 1 + r = m * 0 + (r + 1) /\ 1 + r \in Nat /\ r + 1 \in 0..m - 1
      BY <1>1, <1>3
    <3>. QED  BY <3>1, ModUnique
  <2>. QED  BY <2>1, <2>2
<1>4. CASE r + 1 = m
  <2>1. (n + 1) % m = 0
    <3>1. m * (j + 1) = m * j + m
      BY <1>1
    <3>2. n + 1 = m * (j + 1) + 0 /\ n + 1 \in Nat /\ j + 1 \in Int /\ 0 \in 0..m - 1
      BY <1>1, <1>2, <1>4, <3>1
    <3>. QED  BY <3>2, ModUnique
  <2>2. (1 + r) % m = 0
    <3>1. 1 + r = m * 1 + 0 /\ 1 + r \in Nat /\ 0 \in 0..m - 1
      BY <1>1, <1>4
    <3>. QED  BY <3>1, ModUnique
  <2>. QED  BY <2>1, <2>2
<1>. QED  BY <1>1, <1>3, <1>4

LEMMA IndexTurns ==
    ASSUME NEW n \in Lengths, n # 0, NEW i \in 0..IndexCycle - 1
    PROVE  ((i + 1) % IndexCycle) % n = (1 + (i % n)) % n
<1>0. n \in Nat /\ IndexCycle % n = 0 /\ i \in Nat /\ IndexCycle \in Nat /\ IndexCycle # 0
  BY Divides, ProxyAssumption
<1>1. (i + 1) % n = (1 + (i % n)) % n
  BY <1>0, ModSuccessor
<1>2. CASE i + 1 = IndexCycle
  <2>1. (i + 1) % IndexCycle = 0
    BY <1>0, <1>2
  <2>2. 0 % n = 0
    BY <1>0
  <2>. QED  BY <1>0, <1>1, <1>2, <2>1, <2>2
<1>3. CASE i + 1 # IndexCycle
  <2>1. (i + 1) % IndexCycle = i + 1
    <3>1. i + 1 < IndexCycle
      BY <1>0, <1>3
    <3>. QED  BY <1>0, <3>1
  <2>. QED  BY <1>1, <2>1
<1>. QED  BY <1>2, <1>3

\* What one step has to show: the position is that of a pick, or nothing moved.
LEMMA OneTurn ==
    ASSUME RotationInv, NEW g \in Callers, cache'.length \in Lengths,
           Len(caller'[g].list) \in Lengths,
           \A h \in Callers : h # g => caller'[h] = caller[h],
           index' = index, picked' = picked
    PROVE  RotationInv'
BY DEF RotationInv, Lengths

LEMMA EmptyLength == Len(<<>>) \in Lengths /\ Len(Idle.list) \in Lengths
  BY DEF Lengths, Idle

LEMMA LoadedTurn ==
    ASSUME TypedInv, RotationInv, NEW g \in Callers, NEW list \in Seq(STRING \cup {Garbage}),
           Len(list) \in Lengths, Loaded(g, list), cache'.length \in Lengths,
           index' = index, picked' = picked
    PROVE  RotationInv'
<1>1. /\ \A h \in Callers : h # g => caller'[h] = caller[h]
      /\ caller'[g].list = list
  BY LoadedTyped
<1>. QED  BY <1>1, OneTurn

LEMMA RotationNext == TypedInv /\ RotationInv /\ [ProxyNext]_proxyVars => RotationInv'
<1>. SUFFICES ASSUME TypedInv, RotationInv, [ProxyNext]_proxyVars PROVE RotationInv'
  OBVIOUS
<1>1. /\ \A g \in Callers : caller[g] \in Call
      /\ caller \in [Callers -> Call]
      /\ cache \in Cache /\ File \in Content /\ index \in 0..IndexCycle - 1
      /\ <<>> \in Seq(STRING \cup {Garbage})
      /\ cache.length \in Lengths
  BY Held DEF TypedInv, RotationInv
<1>2. ASSUME NEW g \in Callers, Stat(g) PROVE RotationInv'
  <2>1. cache' = cache /\ index' = index /\ picked' = picked
    BY <1>2 DEF Stat
  <2>2. CASE Loaded(g, <<>>)
    BY <1>1, <2>1, <2>2, LoadedTurn, EmptyLength
  <2>3. CASE caller' = [caller EXCEPT ![g] =
               [Idle EXCEPT !.pc = IF cache.time = ModTime THEN "cached" ELSE "read",
                            !.time = ModTime]]
    <3>1. /\ caller'[g].list = Idle.list
          /\ \A h \in Callers : h # g => caller'[h] = caller[h]
      BY <1>1, <2>3 DEF Idle
    <3>. QED  BY <1>1, <2>1, <3>1, OneTurn, EmptyLength
  <2>. QED  BY <1>2, <2>2, <2>3 DEF Stat
<1>3. ASSUME NEW g \in Callers, ReadCached(g) PROVE RotationInv'
  <2>. DEFINE list == Slice(cache.array, cache.length)
  <2>1. list \in Seq(STRING \cup {Garbage})
    BY <1>1, ListTyped DEF Cache
  <2>2. Len(list) = cache.length
    BY <1>1 DEF Slice, Cache
  <2>3. Loaded(g, list) /\ cache' = cache /\ index' = index /\ picked' = picked
    BY <1>3 DEF ReadCached
  <2>. HIDE DEF list
  <2>. QED  BY <1>1, <2>1, <2>2, <2>3, LoadedTurn
<1>4. ASSUME NEW g \in Callers, ReadFile(g) PROVE RotationInv'
  <2>1. cache' = cache /\ index' = index /\ picked' = picked
    BY <1>4 DEF ReadFile
  <2>2. CASE Loaded(g, <<>>)
    BY <1>1, <2>1, <2>2, LoadedTurn, EmptyLength
  <2>3. CASE File \notin {Missing, Broken}
             /\ caller' = [caller EXCEPT ![g].pc = "stamp", ![g].list = File]
    <3>1. caller'[g] = [caller[g] EXCEPT !.pc = "stamp", !.list = File]
      BY <1>1, <2>3
    <3>2. caller'[g].list = File
      BY <1>1, <3>1 DEF Call
    <3>3. Len(File) \in Lengths
      BY <1>1, <2>3 DEF Content, Lengths
    <3>4. \A h \in Callers : h # g => caller'[h] = caller[h]
      BY <1>1, <2>3
    <3>. QED  BY <1>1, <2>1, <3>2, <3>3, <3>4, OneTurn
  <2>. QED  BY <1>4, <2>2, <2>3 DEF ReadFile
<1>5. ASSUME NEW g \in Callers, StoreTime(g) PROVE RotationInv'
  <2>1. caller'[g] = [caller[g] EXCEPT !.pc = "assign", !.words = {"array", "length"}]
    BY <1>1, <1>5 DEF StoreTime
  <2>2. caller'[g].list = caller[g].list
    BY <1>1, <2>1 DEF Call
  <2>3. index' = index /\ picked' = picked /\ cache'.length = cache.length
    BY <1>1, <1>5 DEF StoreTime, Cache
  <2>4. \A h \in Callers : h # g => caller'[h] = caller[h]
    BY <1>1, <1>5 DEF StoreTime
  <2>5. Len(caller[g].list) \in Lengths
    BY DEF RotationInv
  <2>. QED  BY <1>1, <2>2, <2>3, <2>4, <2>5, OneTurn
<1>6. ASSUME NEW g \in Callers, NEW word \in Words, StoreWord(g, word) PROVE RotationInv'
  <2>1. Len(caller[g].list) \in Lengths /\ caller[g].list \in Seq(STRING \cup {Garbage})
    BY <1>1 DEF RotationInv, Call
  <2>2. cache'.length \in Lengths /\ index' = index /\ picked' = picked
    BY <1>1, <1>6, <2>1 DEF StoreWord, Cache
  <2>3. CASE Loaded(g, caller[g].list)
    BY <2>1, <2>2, <2>3, LoadedTurn
  <2>4. CASE caller' = [caller EXCEPT ![g].words = @ \ {word}]
    <3>1. caller'[g] = [caller[g] EXCEPT !.words = @ \ {word}]
      BY <1>1, <2>4
    <3>2. caller'[g].list = caller[g].list
      BY <1>1, <3>1 DEF Call
    <3>3. \A h \in Callers : h # g => caller'[h] = caller[h]
      BY <1>1, <2>4
    <3>. QED  BY <2>1, <2>2, <3>2, <3>3, OneTurn
  <2>. QED  BY <1>6, <2>3, <2>4 DEF StoreWord
<1>7. ASSUME NEW g \in Callers, Pick(g) PROVE RotationInv'
  <2>1. /\ cache' = cache
        /\ \A h \in Callers : Len(caller'[h].list) \in Lengths
    <3>1. caller'[g] = Idle /\ \A h \in Callers : h # g => caller'[h] = caller[h]
      BY <1>1, <1>7 DEF Pick
    <3>2. cache' = cache
      BY <1>7 DEF Pick
    <3>. QED  BY <3>1, <3>2, EmptyLength DEF RotationInv
  <2>. PICK n : n = Len(caller[g].list)
    OBVIOUS
  <2>2. n \in Lengths /\ n \in Nat /\ n # 0
    <3>1. caller[g].list # <<>> /\ caller[g].list \in Seq(STRING \cup {Garbage})
      BY <1>1, <1>7 DEF TypedInv, Pick, Call
    <3>. QED  BY <3>1 DEF RotationInv
  <2>3. /\ picked'.list = caller[g].list /\ picked'.at = 1 + (index % n)
        /\ index' = (index + 1) % IndexCycle
    BY <1>7 DEF Pick
  <2>4. picked'.at % n = index' % n
    BY <1>1, <2>2, <2>3, IndexTurns
  <2>. QED  BY <1>1, <2>1, <2>2, <2>3, <2>4 DEF RotationInv, Lengths
<1>8. CASE EditFile
  BY <1>8 DEF EditFile, RotationInv, Lengths
<1>9. CASE UNCHANGED proxyVars
  BY <1>9 DEF proxyVars, RotationInv, Lengths
<1>. QED  BY <1>2, <1>3, <1>4, <1>5, <1>6, <1>7, <1>8, <1>9 DEF ProxyNext, Words

\* Two proxied calls in a row that use one list take neighbouring entries of it, however
\* the goroutines interleave, whatever they load, and also where the index starts over.
THEOREM TurnsAreTaken == ProxySpec => RoundRobin
<1>1. ProxyInit => RotationInv
  <2>. SUFFICES ASSUME ProxyInit PROVE RotationInv
    OBVIOUS
  <2>1. \A g \in Callers : caller[g] = Idle
    BY DEF ProxyInit
  <2>2. cache.length = 0 /\ Len(picked.list) = 0
    BY DEF ProxyInit
  <2>. QED  BY <2>1, <2>2, EmptyLength DEF RotationInv, Lengths
<1>2. TypedInv /\ RotationInv /\ [ProxyNext]_proxyVars
        => [picked' # picked /\ picked'.list = picked.list /\ Len(picked.list) > 1
             => picked'.at = 1 + (picked.at % Len(picked.list))]_picked
  <2>. SUFFICES ASSUME RotationInv, [ProxyNext]_proxyVars, picked' # picked,
                       picked'.list = picked.list, Len(picked.list) > 1
                PROVE  picked'.at = 1 + (picked.at % Len(picked.list))
    OBVIOUS
  <2>1. PICK g \in Callers : Pick(g)
    BY DEF ProxyNext, proxyVars, Stat, ReadCached, ReadFile, StoreTime, StoreWord, EditFile
  <2>2. picked'.at = 1 + (index % Len(picked.list))
    BY <2>1 DEF Pick
  <2>3. Len(picked.list) # 0
    OBVIOUS
  <2>. QED  BY <2>2, <2>3 DEF RotationInv
<1>. QED  BY <1>1, <1>2, ProxyTyped, RotationNext, PTL DEF ProxySpec, RoundRobin
=============================================================================
