--------------------------- MODULE SequenceLemmas ---------------------------
EXTENDS Integers, SequencesExt, SequenceTheorems, WellFoundedInduction, TLAPS

\* Induction, stated with a set in place of a predicate.
LEMMA SetInduction ==
    ASSUME NEW S, 0 \in S, \A n \in Nat : n \in S => n + 1 \in S
    PROVE  Nat \subseteq S
<1>. DEFINE T == Nat \ S
            R == OpToRel(<, Nat)
<1>1. SUFFICES ASSUME T # {} PROVE FALSE
  OBVIOUS
<1>2. PICK x \in T : \A y \in T : <<y, x>> \notin R
  <2>. HIDE DEF R
  <2>1. IsWellFoundedOn(R, Nat)
    BY NatLessThanWellFounded DEF R
  <2>2. T \subseteq Nat
    OBVIOUS
  <2>. HIDE DEF T
  <2>. QED  BY <1>1, <2>1, <2>2, WFMin
<1>3. x \in Nat /\ x # 0
  OBVIOUS
<1>4. x - 1 \in Nat /\ <<x - 1, x>> \in R
  BY <1>3 DEF OpToRel
<1>5. x - 1 \in S
  BY <1>2, <1>4
<1>6. (x - 1) + 1 \in S
  BY <1>4, <1>5
<1>7. (x - 1) + 1 = x
  BY <1>3
<1>. QED  BY <1>6, <1>7

\* Sequences written out.
LEMMA ShortSeqs ==
    ASSUME NEW S
    PROVE  /\ <<>> \in Seq(S)
           /\ \A a \in S : <<a>> \in Seq(S)
           /\ \A a, b \in S : <<a, b>> \in Seq(S)
  OBVIOUS

LEMMA ShortConcats ==
    /\ \A a : <<a>> \o <<>> = <<a>>
    /\ \A a, b : <<a>> \o <<b>> = <<a, b>>
<1>1. ASSUME NEW a PROVE <<a>> \o <<>> = <<a>>
  OBVIOUS
<1>2. ASSUME NEW a, NEW b PROVE <<a>> \o <<b>> = <<a, b>>
  <2>1. <<a>> \in Seq({a, b}) /\ b \in {a, b}
    BY ShortSeqs
  <2>2. Append(<<a>>, b) = <<a>> \o <<b>>
    BY <2>1, AppendIsConcat
  <2>3. Append(<<a>>, b) = <<a, b>>
    <3>1. <<a, b>> \in Seq({a, b}) /\ Append(<<a>>, b) \in Seq({a, b})
      BY <2>1, ShortSeqs
    <3>2. Len(Append(<<a>>, b)) = 2 /\ Append(<<a>>, b)[1] = a /\ Append(<<a>>, b)[2] = b
      OBVIOUS
    <3>3. Len(<<a, b>>) = 2 /\ <<a, b>>[1] = a /\ <<a, b>>[2] = b
      OBVIOUS
    <3>4. \A i \in 1..2 : Append(<<a>>, b)[i] = <<a, b>>[i]
      BY <3>2, <3>3
    <3>. QED  BY <3>1, <3>2, <3>3, <3>4, SeqEqual
  <2>. QED  BY <2>2, <2>3
<1>. QED  BY <1>1, <1>2

LEMMA ConcatFacts ==
    ASSUME NEW S, NEW s \in Seq(S), NEW t \in Seq(S)
    PROVE  /\ s \o t \in Seq(S) /\ Len(s \o t) = Len(s) + Len(t)
           /\ DOMAIN (s \o t) = 1..(Len(s) + Len(t)) /\ DOMAIN s \subseteq DOMAIN (s \o t)
           /\ \A i \in DOMAIN s : (s \o t)[i] = s[i]
           /\ \A i \in DOMAIN t : /\ Len(s) + i \in DOMAIN (s \o t)
                                 /\ (s \o t)[Len(s) + i] = t[i]
  OBVIOUS

LEMMA HeadsAndTails ==
    /\ \A a : Head(<<a>>) = a /\ Tail(<<a>>) = <<>>
    /\ \A a, b : Head(<<a, b>>) = a /\ Tail(<<a, b>>) = <<b>>
    /\ \A S : \A s \in Seq(S), a \in S :
         <<a>> \o s # <<>> /\ Head(<<a>> \o s) = a /\ Tail(<<a>> \o s) = s
<1>1. ASSUME NEW a, NEW b PROVE /\ Head(<<a>>) = a /\ Tail(<<a>>) = <<>>
                                /\ Head(<<a, b>>) = a /\ Tail(<<a, b>>) = <<b>>
  OBVIOUS
<1>2. ASSUME NEW S, NEW s \in Seq(S), NEW a \in S
      PROVE  <<a>> \o s # <<>> /\ Head(<<a>> \o s) = a /\ Tail(<<a>> \o s) = s
  <2>. DEFINE t == <<a>> \o s
  <2>1. /\ t \in Seq(S) /\ Len(t) = Len(s) + 1 /\ t[1] = a
        /\ \A i \in 1..Len(s) : t[i + 1] = s[i]
    BY ShortSeqs, ConcatProperties
  <2>. HIDE DEF t
  <2>2. t # <<>> /\ Head(t) = a /\ Tail(t) \in Seq(S) /\ Len(Tail(t)) = Len(s)
    BY <2>1
  <2>3. \A i \in 1..Len(s) : Tail(t)[i] = s[i]
    BY <2>1
  <2>4. Tail(t) = s
    BY <2>2, <2>3, SeqEqual
  <2>. QED  BY <2>2, <2>4 DEF t
<1>. QED  BY <1>1, <1>2

LEMMA ToSetAppend ==
    ASSUME NEW S, NEW s \in Seq(S), NEW x \in S
    PROVE  ToSet(Append(s, x)) = ToSet(s) \cup {x}
<1>1. /\ DOMAIN Append(s, x) = (DOMAIN s) \cup {Len(s) + 1}
      /\ \A i \in DOMAIN s : Append(s, x)[i] = s[i]
      /\ Append(s, x)[Len(s) + 1] = x
  OBVIOUS
<1>. QED  BY <1>1 DEF ToSet

\* What FlattenSeq computes for a sequence of n sequences, with its values for the
\* shorter ones.
Flattening(ss, n, f) ==
    f = [i \in 1..n |-> IF i = 1 THEN ss[i] ELSE f[i - 1] \o ss[i]]

Agree(f, g, n) == \A i \in 1..n : f[i] = g[i]

LEMMA FlatteningAt ==
    ASSUME NEW ss, NEW n \in Nat, NEW f, Flattening(ss, n, f), NEW i \in 1..n
    PROVE  f[i] = IF i = 1 THEN ss[i] ELSE f[i - 1] \o ss[i]
<1>. DEFINE h == [j \in 1..n |-> IF j = 1 THEN ss[j] ELSE f[j - 1] \o ss[j]]
<1>1. f = h
  BY DEF Flattening
<1>2. h[i] = IF i = 1 THEN ss[i] ELSE f[i - 1] \o ss[i]
  OBVIOUS
<1>. HIDE DEF h
<1>. QED  BY <1>1, <1>2

LEMMA FlatteningExists ==
    ASSUME NEW ss, NEW n \in Nat
    PROVE  \E f : Flattening(ss, n, f)
<1>. DEFINE S == {k \in Nat : \E f : Flattening(ss, k, f)}
<1>1. 0 \in S
  <2>1. Flattening(ss, 0, [i \in 1..0 |-> <<>>])
    BY DEF Flattening
  <2>. QED  BY <2>1
<1>2. ASSUME NEW k \in Nat, k \in S PROVE k + 1 \in S
  <2>1. PICK f : Flattening(ss, k, f)
    BY <1>2
  <2>. DEFINE g == [i \in 1..(k + 1) |->
                      IF i =< k THEN f[i] ELSE IF i = 1 THEN ss[i] ELSE f[i - 1] \o ss[i]]
  <2>2. ASSUME NEW i \in 1..(k + 1)
        PROVE  g[i] = IF i = 1 THEN ss[i] ELSE g[i - 1] \o ss[i]
    <3>1. CASE i = k + 1
      BY <3>1
    <3>2. CASE i =< k
      <4>1. f[i] = IF i = 1 THEN ss[i] ELSE f[i - 1] \o ss[i]
        BY <2>1, <3>2, FlatteningAt
      <4>. QED  BY <3>2, <4>1
    <3>. QED  BY <3>1, <3>2
  <2>3. g = [i \in 1..(k + 1) |-> IF i = 1 THEN ss[i] ELSE g[i - 1] \o ss[i]]
    <3>. DEFINE h == [i \in 1..(k + 1) |-> IF i = 1 THEN ss[i] ELSE g[i - 1] \o ss[i]]
    <3>1. g = [i \in 1..(k + 1) |-> g[i]]
      OBVIOUS
    <3>2. h = [i \in 1..(k + 1) |-> h[i]]
      OBVIOUS
    <3>3. \A i \in 1..(k + 1) : g[i] = h[i]
      BY <2>2
    <3>. HIDE DEF g, h
    <3>4. g = h
      BY <3>1, <3>2, <3>3
    <3>. QED  BY <3>4 DEF h
  <2>4. Flattening(ss, k + 1, g)
    <3>. HIDE DEF g
    <3>. QED  BY <2>3 DEF Flattening
  <2>. QED  BY <2>4
<1>. HIDE DEF S
<1>3. Nat \subseteq S
  BY <1>1, <1>2, SetInduction
<1>. QED  BY <1>3 DEF S

LEMMA FlatteningUnique ==
    ASSUME NEW ss, NEW tt, NEW n \in Nat, NEW m \in Nat, NEW f, NEW g,
           Flattening(ss, n, f), Flattening(tt, m, g),
           n =< m, Agree(ss, tt, n)
    PROVE  Agree(f, g, n)
<1>. USE DEF Agree
<1>. DEFINE S == {k \in Nat : k + 1 \in 1..n => f[k + 1] = g[k + 1]}
<1>0. /\ \A i \in 1..n : f[i] = IF i = 1 THEN ss[i] ELSE f[i - 1] \o ss[i]
      /\ \A i \in 1..m : g[i] = IF i = 1 THEN tt[i] ELSE g[i - 1] \o tt[i]
  BY FlatteningAt
<1>1. 0 \in S
  BY <1>0
<1>2. ASSUME NEW k \in Nat, k \in S PROVE k + 1 \in S
  BY <1>0, <1>2
<1>3. Nat \subseteq S
  <2>. HIDE DEF S
  <2>. QED  BY <1>1, <1>2, SetInduction
<1>4. ASSUME NEW i \in 1..n PROVE f[i] = g[i]
  <2>1. i - 1 \in S
    BY <1>3
  <2>. QED  BY <2>1
<1>. QED  BY <1>4

LEMMA FlattenSeqIs ==
    ASSUME NEW ss, Len(ss) \in Nat, Len(ss) # 0
    PROVE  \E f : Flattening(ss, Len(ss), f) /\ FlattenSeq(ss) = f[Len(ss)]
<1>1. \E f : Flattening(ss, Len(ss), f)
  BY FlatteningExists
<1>2. PICK f : f = CHOOSE h : Flattening(ss, Len(ss), h)
  OBVIOUS
<1>3. Flattening(ss, Len(ss), f)
  BY <1>1, <1>2
<1>4. FlattenSeq(ss) = f[Len(ss)]
  BY <1>2 DEF FlattenSeq, Flattening
<1>. QED  BY <1>3, <1>4

LEMMA FlattenEmpty == FlattenSeq(<<>>) = <<>>
  BY DEF FlattenSeq

LEMMA FlattenAppend ==
    ASSUME NEW S, NEW ss \in Seq(Seq(S)), NEW s \in Seq(S)
    PROVE  /\ FlattenSeq(ss) \in Seq(S)
           /\ FlattenSeq(Append(ss, s)) = FlattenSeq(ss) \o s
<1>1. FlattenSeq(<<>>) = <<>>
  BY FlattenEmpty
<1>2. FlattenSeq(ss) \in Seq(S)
  <2>1. CASE Len(ss) = 0
    <3>1. ss = <<>>
      BY <2>1, EmptySeq
    <3>2. <<>> \in Seq(S)
      OBVIOUS
    <3>. QED  BY <1>1, <3>1, <3>2
  <2>2. CASE Len(ss) # 0
    <3>1. PICK f : Flattening(ss, Len(ss), f) /\ FlattenSeq(ss) = f[Len(ss)]
      BY <2>2, FlattenSeqIs
    <3>. DEFINE T == {k \in Nat : k + 1 \in 1..Len(ss) => f[k + 1] \in Seq(S)}
    <3>2. \A i \in 1..Len(ss) : f[i] = IF i = 1 THEN ss[i] ELSE f[i - 1] \o ss[i]
      BY <3>1, FlatteningAt
    <3>3. 0 \in T
      BY <3>2
    <3>4. ASSUME NEW k \in Nat, k \in T PROVE k + 1 \in T
      <4>1. SUFFICES ASSUME k + 2 \in 1..Len(ss) PROVE f[k + 2] \in Seq(S)
        OBVIOUS
      <4>2. f[k + 1] \in Seq(S)
        BY <3>4, <4>1
      <4>3. f[k + 2] = f[k + 1] \o ss[k + 2]
        <5>1. (k + 2) - 1 = k + 1 /\ k + 2 # 1
          OBVIOUS
        <5>. QED  BY <3>2, <4>1, <5>1
      <4>4. ss[k + 2] \in Seq(S)
        BY <4>1
      <4>. QED  BY <4>2, <4>3, <4>4
    <3>5. Nat \subseteq T
      <4>. HIDE DEF T
      <4>. QED  BY <3>3, <3>4, SetInduction
    <3>6. Len(ss) - 1 \in T
      <4>. HIDE DEF T
      <4>. QED  BY <2>2, <3>5
    <3>. QED  BY <2>2, <3>1, <3>6
  <2>. QED  BY <2>1, <2>2
<1>3. FlattenSeq(Append(ss, s)) = FlattenSeq(ss) \o s
  <2>. DEFINE tt == Append(ss, s)
  <2>00. PICK n \in Nat : n = Len(ss)
    OBVIOUS
  <2>0. /\ tt \in Seq(Seq(S)) /\ Len(tt) = n + 1 /\ n \in Nat
        /\ \A i \in 1..n : tt[i] = ss[i]
        /\ tt[n + 1] = s
    BY <2>00
  <2>. HIDE DEF tt
  <2>1. PICK g : Flattening(tt, n + 1, g) /\ FlattenSeq(tt) = g[n + 1]
    BY <2>0, FlattenSeqIs
  <2>2. CASE n = 0
    <3>1. g[1] = s
      BY <2>0, <2>1, <2>2, FlatteningAt
    <3>2. ss = <<>>
      BY <2>00, <2>2, EmptySeq
    <3>. QED  BY <1>1, <2>1, <2>2, <3>1, <3>2 DEF tt
  <2>3. CASE n # 0
    <3>1. PICK f : Flattening(ss, n, f) /\ FlattenSeq(ss) = f[n]
      BY <2>00, <2>3, FlattenSeqIs
    <3>2. f[n] = g[n]
      <4>1. n \in Nat /\ n + 1 \in Nat /\ n =< n + 1 /\ n \in 1..n
        BY <2>0, <2>3
      <4>2. Agree(ss, tt, n)
        BY <2>0 DEF Agree
      <4>3. Flattening(ss, n, f) /\ Flattening(tt, n + 1, g)
        BY <2>1, <3>1
      <4>4. Agree(f, g, n)
        BY <4>1, <4>2, <4>3, FlatteningUnique
      <4>. QED  BY <4>1, <4>4 DEF Agree
    <3>3. g[n + 1] = g[n] \o tt[n + 1]
      <4>1. n + 1 \in Nat /\ n + 1 \in 1..n + 1 /\ n + 1 # 1 /\ (n + 1) - 1 = n
        BY <2>0, <2>3
      <4>2. g[n + 1] = IF n + 1 = 1 THEN tt[n + 1] ELSE g[(n + 1) - 1] \o tt[n + 1]
        BY <2>1, <4>1, FlatteningAt
      <4>. QED  BY <4>1, <4>2
    <3>. QED  BY <2>0, <2>1, <3>1, <3>2, <3>3 DEF tt
  <2>. QED  BY <2>2, <2>3
<1>. QED  BY <1>1, <1>2, <1>3

-----------------------------------------------------------------------------
\* What a map from elements to sequences makes of a sequence.
FlatMap(g, s) == FlattenSeq([i \in DOMAIN s |-> g[s[i]]])

LEMMA FlatMapEmpty == \A g : FlatMap(g, <<>>) = <<>>
<1>1. ASSUME NEW g PROVE [i \in DOMAIN <<>> |-> g[<<>>[i]]] = <<>>
  OBVIOUS
<1>. QED  BY <1>1, FlattenEmpty DEF FlatMap

LEMMA FunctionIsSeq ==
    ASSUME NEW S, NEW n \in Nat, NEW f \in [1..n -> S] PROVE f \in Seq(S)
  BY SeqDef

LEMMA FunctionLen ==
    ASSUME NEW S, NEW n \in Nat, NEW f \in [1..n -> S] PROVE Len(f) = n
<1>1. f \in Seq(S) /\ DOMAIN f = 1..n
  BY FunctionIsSeq
<1>. QED  BY <1>1

\* A function that goes one further than another.
LEMMA FunctionAppend ==
    ASSUME NEW S, NEW n \in Nat, NEW f \in [1..n -> S], NEW g \in [1..(n + 1) -> S],
           \A i \in 1..n : g[i] = f[i]
    PROVE  g = Append(f, g[n + 1])
<1>. DEFINE h == Append(f, g[n + 1])
<1>1. f \in Seq(S) /\ g \in Seq(S) /\ Len(f) = n /\ Len(g) = n + 1 /\ g[n + 1] \in S
  BY FunctionIsSeq, FunctionLen
<1>2. /\ h \in Seq(S) /\ Len(h) = n + 1 /\ h[n + 1] = g[n + 1]
      /\ \A i \in 1..n : h[i] = f[i]
  BY <1>1
<1>. HIDE DEF h
<1>3. \A i \in 1..(n + 1) : h[i] = g[i]
  BY <1>2
<1>4. h = g
  BY <1>1, <1>2, <1>3, SeqEqual
<1>. QED  BY <1>4 DEF h

LEMMA FlatMapType ==
    ASSUME NEW A, NEW S, NEW g \in [A -> Seq(S)], NEW s \in Seq(A)
    PROVE  FlatMap(g, s) \in Seq(S)
<1>. DEFINE m == [i \in DOMAIN s |-> g[s[i]]]
<1>1. m \in Seq(Seq(S))
  <2>1. m \in [1..Len(s) -> Seq(S)] /\ Len(s) \in Nat
    OBVIOUS
  <2>. HIDE DEF m
  <2>. QED  BY <2>1, FunctionIsSeq
<1>2. <<>> \in Seq(S)
  OBVIOUS
<1>. HIDE DEF m
<1>. QED  BY <1>1, <1>2, FlattenAppend DEF FlatMap, m

LEMMA FlatMapAppend ==
    ASSUME NEW A, NEW S, NEW g \in [A -> Seq(S)], NEW s \in Seq(A), NEW x \in A
    PROVE  FlatMap(g, Append(s, x)) = FlatMap(g, s) \o g[x]
<1>. DEFINE M(t) == [i \in DOMAIN t |-> g[t[i]]]
<1>1. M(s) \in Seq(Seq(S)) /\ g[x] \in Seq(S)
  OBVIOUS
<1>2. M(Append(s, x)) = Append(M(s), g[x])
  OBVIOUS
<1>. HIDE DEF M
<1>3. FlattenSeq(Append(M(s), g[x])) = FlattenSeq(M(s)) \o g[x]
  BY <1>1, FlattenAppend
<1>. QED  BY <1>2, <1>3 DEF FlatMap, M

\* A sequence is empty, or another one with an element at its end.
LEMMA SeqInduction ==
    ASSUME NEW A, NEW P, <<>> \in P,
           \A s \in Seq(A), x \in A : s \in P => Append(s, x) \in P
    PROVE  Seq(A) \subseteq P
<1>. DEFINE T == {n \in Nat : \A s \in Seq(A) : Len(s) = n => s \in P}
<1>1. 0 \in T
  <2>1. SUFFICES ASSUME NEW s \in Seq(A), Len(s) = 0 PROVE s \in P
    OBVIOUS
  <2>2. s = <<>>
    BY <2>1, EmptySeq
  <2>. QED  BY <2>2
<1>2. ASSUME NEW n \in Nat, n \in T PROVE n + 1 \in T
  <2>1. SUFFICES ASSUME NEW s \in Seq(A), Len(s) = n + 1 PROVE s \in P
    OBVIOUS
  <2>2. s # <<>>
    BY <2>1
  <2>3. PICK u \in Seq(A), x \in A : s = Append(u, x)
    BY <2>2, SequenceEmptyOrAppend
  <2>4. Len(u) = n
    BY <2>1, <2>3
  <2>. QED  BY <1>2, <2>3, <2>4
<1>. HIDE DEF T
<1>3. Nat \subseteq T
  BY <1>1, <1>2, SetInduction
<1>4. ASSUME NEW s \in Seq(A) PROVE s \in P
  <2>1. Len(s) \in T
    BY <1>3
  <2>. QED  BY <2>1 DEF T
<1>. QED  BY <1>4

LEMMA FlatMapConcat ==
    ASSUME NEW A, NEW S, NEW g \in [A -> Seq(S)], NEW s \in Seq(A), NEW t \in Seq(A)
    PROVE  FlatMap(g, s \o t) = FlatMap(g, s) \o FlatMap(g, t)
<1>. DEFINE P == {u \in Seq(A) : FlatMap(g, s \o u) = FlatMap(g, s) \o FlatMap(g, u)}
<1>0. FlatMap(g, s) \in Seq(S)
  BY FlatMapType
<1>1. <<>> \in P
  BY <1>0, FlatMapEmpty
<1>2. ASSUME NEW u \in Seq(A), NEW x \in A, u \in P PROVE Append(u, x) \in P
  <2>1. s \o Append(u, x) = Append(s \o u, x) /\ s \o u \in Seq(A)
    OBVIOUS
  <2>2. FlatMap(g, s \o Append(u, x)) = FlatMap(g, s \o u) \o g[x]
    BY <2>1, FlatMapAppend
  <2>3. FlatMap(g, Append(u, x)) = FlatMap(g, u) \o g[x]
    BY FlatMapAppend
  <2>4. FlatMap(g, u) \in Seq(S) /\ g[x] \in Seq(S)
    BY FlatMapType
  <2>5. (FlatMap(g, s) \o FlatMap(g, u)) \o g[x] = FlatMap(g, s) \o (FlatMap(g, u) \o g[x])
    BY <1>0, <2>4, ConcatAssociative
  <2>6. FlatMap(g, s \o u) = FlatMap(g, s) \o FlatMap(g, u)
    BY <1>2
  <2>7. FlatMap(g, s \o Append(u, x)) = FlatMap(g, s) \o FlatMap(g, Append(u, x))
    BY <2>2, <2>3, <2>5, <2>6
  <2>8. Append(u, x) \in Seq(A)
    OBVIOUS
  <2>. QED  BY <2>7, <2>8
<1>3. Seq(A) \subseteq P
  <2>. HIDE DEF P
  <2>. QED  BY <1>1, <1>2, SeqInduction
<1>. QED  BY <1>3

-----------------------------------------------------------------------------
\* The elements of a sequence that are in a set, as Selected finds them.
Filter(K, s) == FlattenSeq([i \in DOMAIN s |-> IF s[i] \in K THEN <<s[i]>> ELSE <<>>])

Keeping(A, K) == [x \in A |-> IF x \in K THEN <<x>> ELSE <<>>]

LEMMA FilterIsFlatMap ==
    ASSUME NEW A, NEW K, NEW s \in Seq(A)
    PROVE  Filter(K, s) = FlatMap(Keeping(A, K), s)
<1>1. [i \in DOMAIN s |-> IF s[i] \in K THEN <<s[i]>> ELSE <<>>]
        = [i \in DOMAIN s |-> Keeping(A, K)[s[i]]]
  <2>1. \A i \in DOMAIN s : Keeping(A, K)[s[i]] = IF s[i] \in K THEN <<s[i]>> ELSE <<>>
    BY DEF Keeping
  <2>. QED  BY <2>1
<1>. QED  BY <1>1 DEF Filter, FlatMap

LEMMA KeepingType == \A A, K : Keeping(A, K) \in [A -> Seq(A)]
  BY ShortSeqs DEF Keeping

LEMMA FilterEmpty == \A K : Filter(K, <<>>) = <<>>
<1>1. ASSUME NEW K PROVE [i \in DOMAIN <<>> |-> IF <<>>[i] \in K THEN <<<<>>[i]>> ELSE <<>>] = <<>>
  OBVIOUS
<1>. QED  BY <1>1, FlattenEmpty DEF Filter

LEMMA FilterType ==
    ASSUME NEW A, NEW K, NEW s \in Seq(A)
    PROVE  Filter(K, s) \in Seq(A)
<1>. DEFINE g == Keeping(A, K)
<1>1. g \in [A -> Seq(A)] /\ Filter(K, s) = FlatMap(g, s)
  BY FilterIsFlatMap, KeepingType
<1>. HIDE DEF g
<1>. QED  BY <1>1, FlatMapType

LEMMA FilterAppend ==
    ASSUME NEW A, NEW K, NEW s \in Seq(A), NEW x \in A
    PROVE  Filter(K, Append(s, x)) = IF x \in K THEN Append(Filter(K, s), x) ELSE Filter(K, s)
<1>. DEFINE g == Keeping(A, K)
<1>1. g \in [A -> Seq(A)] /\ Filter(K, s) = FlatMap(g, s) /\ Filter(K, s) \in Seq(A)
  BY FilterIsFlatMap, FilterType, KeepingType
<1>2. Append(s, x) \in Seq(A)
  OBVIOUS
<1>3. Filter(K, Append(s, x)) = FlatMap(g, Append(s, x))
  BY <1>2, FilterIsFlatMap
<1>4. g[x] = IF x \in K THEN <<x>> ELSE <<>>
  BY DEF Keeping
<1>. HIDE DEF g
<1>5. FlatMap(g, Append(s, x)) = FlatMap(g, s) \o g[x]
  BY <1>1, FlatMapAppend
<1>6. Filter(K, s) \o <<x>> = Append(Filter(K, s), x) /\ Filter(K, s) \o <<>> = Filter(K, s)
  BY <1>1, AppendIsConcat
<1>. QED  BY <1>1, <1>3, <1>4, <1>5, <1>6

LEMMA FilterConcat ==
    ASSUME NEW A, NEW K, NEW s \in Seq(A), NEW t \in Seq(A)
    PROVE  Filter(K, s \o t) = Filter(K, s) \o Filter(K, t)
<1>1. s \o t \in Seq(A)
  OBVIOUS
<1>. PICK g \in [A -> Seq(A)] : g = Keeping(A, K)
  BY KeepingType
<1>2. /\ Filter(K, s) = FlatMap(g, s) /\ Filter(K, t) = FlatMap(g, t)
      /\ Filter(K, s \o t) = FlatMap(g, s \o t)
  BY <1>1, FilterIsFlatMap
<1>3. FlatMap(g, s \o t) = FlatMap(g, s) \o FlatMap(g, t)
  BY FlatMapConcat
<1>. QED  BY <1>2, <1>3

LEMMA FilterOne ==
    ASSUME NEW K, NEW x
    PROVE  Filter(K, <<x>>) = IF x \in K THEN <<x>> ELSE <<>>
<1>1. PICK A : x \in A
  OBVIOUS
<1>2. PICK e \in Seq(A) : e = <<>>
  BY ShortSeqs
<1>3. Filter(K, Append(e, x)) = IF x \in K THEN Append(Filter(K, e), x) ELSE Filter(K, e)
  BY <1>1, FilterAppend
<1>4. Append(<<>>, x) = <<x>>
  OBVIOUS
<1>. QED  BY <1>2, <1>3, <1>4, FilterEmpty

\* Taking the head of one sequence to the end of another.
LEMMA MoveHead ==
    ASSUME NEW A, NEW s \in Seq(A), NEW t \in Seq(A), t # <<>>
    PROVE  Append(s, Head(t)) \o Tail(t) = s \o t
<1>1. Head(t) \in A /\ Tail(t) \in Seq(A) /\ <<Head(t)>> \in Seq(A)
  OBVIOUS
<1>2. Append(s, Head(t)) = s \o <<Head(t)>>
  BY <1>1, AppendIsConcat
<1>3. (s \o <<Head(t)>>) \o Tail(t) = s \o (<<Head(t)>> \o Tail(t))
  BY <1>1, ConcatAssociative
<1>4. <<Head(t)>> \o Tail(t) = t
  <2>. DEFINE u == <<Head(t)>> \o Tail(t)
  <2>1. /\ u \in Seq(A) /\ Len(u) = 1 + Len(Tail(t))
        /\ \A i \in 1..(1 + Len(Tail(t))) :
             u[i] = IF i <= 1 THEN <<Head(t)>>[i] ELSE Tail(t)[i - 1]
    <3>1. Len(<<Head(t)>>) = 1
      OBVIOUS
    <3>. QED  BY <1>1, <3>1, ConcatProperties
  <2>. HIDE DEF u
  <2>2. Len(u) = Len(t) /\ \A i \in 1..Len(t) : u[i] = t[i]
    BY <2>1
  <2>3. u = t
    BY <2>1, <2>2, SeqEqual
  <2>. QED  BY <2>3 DEF u
<1>. QED  BY <1>2, <1>3, <1>4

\* What a filter leaves, as a set.
LEMMA FilterMembers ==
    ASSUME NEW A, NEW K, NEW s \in Seq(A)
    PROVE  ToSet(Filter(K, s)) = ToSet(s) \cap K
<1>. DEFINE P == {u \in Seq(A) : ToSet(Filter(K, u)) = ToSet(u) \cap K}
<1>1. <<>> \in P
  BY FilterEmpty DEF ToSet
<1>2. ASSUME NEW u \in Seq(A), NEW x \in A, u \in P PROVE Append(u, x) \in P
  <2>1. Append(u, x) \in Seq(A) /\ Filter(K, u) \in Seq(A)
    BY FilterType
  <2>2. ToSet(Append(u, x)) = ToSet(u) \cup {x}
    BY ToSetAppend
  <2>3. ToSet(Append(Filter(K, u), x)) = ToSet(Filter(K, u)) \cup {x}
    BY <2>1, ToSetAppend
  <2>4. Filter(K, Append(u, x)) = IF x \in K THEN Append(Filter(K, u), x) ELSE Filter(K, u)
    BY FilterAppend
  <2>. QED  BY <1>2, <2>1, <2>2, <2>3, <2>4
<1>. HIDE DEF P
<1>3. Seq(A) \subseteq P
  BY <1>1, <1>2, SeqInduction
<1>. QED  BY <1>3 DEF P

\* A coarser filter before a finer one changes nothing.
LEMMA FilterTwice ==
    ASSUME NEW A, NEW K, NEW L, K \subseteq L, NEW s \in Seq(A)
    PROVE  Filter(K, Filter(L, s)) = Filter(K, s)
<1>. DEFINE P == {u \in Seq(A) : Filter(K, Filter(L, u)) = Filter(K, u)}
<1>1. <<>> \in P
  BY FilterEmpty
<1>2. ASSUME NEW u \in Seq(A), NEW x \in A, u \in P PROVE Append(u, x) \in P
  <2>1. Append(u, x) \in Seq(A)
    OBVIOUS
  <2>2. PICK f \in Seq(A) : f = Filter(L, u)
    BY FilterType
  <2>3. Filter(L, Append(u, x)) = IF x \in L THEN Append(f, x) ELSE f
    BY <2>2, FilterAppend
  <2>4. Filter(K, Append(u, x)) = IF x \in K THEN Append(Filter(K, u), x) ELSE Filter(K, u)
    BY FilterAppend
  <2>5. Filter(K, Append(f, x)) = IF x \in K THEN Append(Filter(K, f), x) ELSE Filter(K, f)
    BY FilterAppend
  <2>6. Filter(K, f) = Filter(K, u)
    BY <1>2, <2>2
  <2>. QED  BY <2>1, <2>3, <2>4, <2>5, <2>6
<1>. HIDE DEF P
<1>3. Seq(A) \subseteq P
  BY <1>1, <1>2, SeqInduction
<1>. QED  BY <1>3 DEF P

LEMMA FlatMapOne ==
    ASSUME NEW A, NEW S, NEW g \in [A -> Seq(S)], NEW x \in A
    PROVE  FlatMap(g, <<x>>) = g[x]
<1>1. PICK e \in Seq(A) : e = <<>>
  BY ShortSeqs
<1>2. FlatMap(g, Append(e, x)) = FlatMap(g, e) \o g[x]
  BY FlatMapAppend
<1>3. Append(<<>>, x) = <<x>>
  OBVIOUS
<1>4. g[x] \in Seq(S)
  OBVIOUS
<1>5. <<>> \o g[x] = g[x]
  BY <1>4
<1>. QED  BY <1>1, <1>2, <1>3, <1>5, FlatMapEmpty

LEMMA ToSetConcat ==
    ASSUME NEW A, NEW s \in Seq(A), NEW t \in Seq(A)
    PROVE  ToSet(s \o t) = ToSet(s) \cup ToSet(t)
<1>1. /\ DOMAIN (s \o t) = 1..(Len(s) + Len(t))
      /\ \A i \in DOMAIN s : i \in DOMAIN (s \o t) /\ (s \o t)[i] = s[i]
      /\ \A i \in DOMAIN t : /\ Len(s) + i \in DOMAIN (s \o t)
                            /\ (s \o t)[Len(s) + i] = t[i]
  BY ConcatFacts
<1>2. ASSUME NEW i \in DOMAIN (s \o t) PROVE (s \o t)[i] \in ToSet(s) \cup ToSet(t)
  <2>1. CASE i \in DOMAIN s
    BY <1>1, <2>1 DEF ToSet
  <2>2. CASE i \notin DOMAIN s
    <3>1. PICK j \in DOMAIN t : i = Len(s) + j
      <4>1. i - Len(s) \in DOMAIN t /\ i = Len(s) + (i - Len(s))
        BY <1>1, <2>2
      <4>. QED  BY <4>1
    <3>. QED  BY <1>1, <3>1 DEF ToSet
  <2>. QED  BY <2>1, <2>2
<1>3. ToSet(s) \cup ToSet(t) \subseteq ToSet(s \o t)
  BY <1>1 DEF ToSet
<1>. QED  BY <1>2, <1>3 DEF ToSet

LEMMA FlattenMembers ==
    ASSUME NEW A, NEW ss \in Seq(Seq(A))
    PROVE  ToSet(FlattenSeq(ss)) = UNION {ToSet(s) : s \in ToSet(ss)}
<1>. DEFINE M(u) == UNION {ToSet(s) : s \in ToSet(u)}
            P == {u \in Seq(Seq(A)) : ToSet(FlattenSeq(u)) = M(u)}
<1>1. <<>> \in P
  BY FlattenEmpty DEF ToSet
<1>2. ASSUME NEW u \in Seq(Seq(A)), NEW x \in Seq(A), u \in P PROVE Append(u, x) \in P
  <2>1. FlattenSeq(u) \in Seq(A) /\ FlattenSeq(Append(u, x)) = FlattenSeq(u) \o x
    BY FlattenAppend
  <2>2. ToSet(FlattenSeq(u) \o x) = ToSet(FlattenSeq(u)) \cup ToSet(x)
    BY <2>1, ToSetConcat
  <2>3. ToSet(Append(u, x)) = ToSet(u) \cup {x}
    <3>. PICK B : B = Seq(A)
      OBVIOUS
    <3>. QED  BY ToSetAppend
  <2>4. M(Append(u, x)) = M(u) \cup ToSet(x)
    BY <2>3
  <2>5. Append(u, x) \in Seq(Seq(A))
    OBVIOUS
  <2>. QED  BY <1>2, <2>1, <2>2, <2>4, <2>5
<1>3. Seq(Seq(A)) \subseteq P
  <2>. HIDE DEF P
  <2>. QED  BY <1>1, <1>2, SeqInduction
<1>. QED  BY <1>3

\* The first element a filter leaves.
LEMMA FilterBehind ==
    ASSUME NEW A, NEW K, NEW x \in A, NEW s \in Seq(A)
    PROVE  /\ x \in K => Filter(K, <<x>> \o s) # <<>> /\ Filter(K, <<x>> \o s)[1] = x
           /\ x \notin K => Filter(K, <<x>> \o s) = Filter(K, s)
<1>1. <<x>> \in Seq(A) /\ Filter(K, s) \in Seq(A)
  BY ShortSeqs, FilterType
<1>2. Filter(K, <<x>> \o s) = Filter(K, <<x>>) \o Filter(K, s)
  <2>. PICK o \in Seq(A) : o = <<x>>
    BY <1>1
  <2>1. Filter(K, o \o s) = Filter(K, o) \o Filter(K, s)
    BY FilterConcat
  <2>. QED  BY <2>1
<1>3. Filter(K, <<x>>) = IF x \in K THEN <<x>> ELSE <<>>
  BY FilterOne
<1>4. <<>> \o Filter(K, s) = Filter(K, s)
  BY <1>1
<1>5. <<x>> \o Filter(K, s) # <<>> /\ (<<x>> \o Filter(K, s))[1] = x
  BY <1>1
<1>. QED  BY <1>2, <1>3, <1>4, <1>5

LEMMA FilterNonempty ==
    ASSUME NEW A, NEW K, NEW s \in Seq(A), Filter(K, s) # <<>>
    PROVE  Filter(K, s)[1] \in ToSet(s) \cap K
<1>1. Filter(K, s) \in Seq(A) /\ ToSet(Filter(K, s)) = ToSet(s) \cap K
  BY FilterType, FilterMembers
<1>2. 1 \in DOMAIN Filter(K, s)
  BY <1>1, EmptySeq
<1>. QED  BY <1>1, <1>2 DEF ToSet
=============================================================================
