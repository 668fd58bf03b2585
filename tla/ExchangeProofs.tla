--------------------------- MODULE ExchangeProofs ---------------------------
(***************************************************************************)
(* Proofs about ChatExchange, for any requests, replies, limits and        *)
(* bodies, and about the two of its parts that have no module of proofs of *)
(* their own, Access and SocksDial.                                        *)
(*                                                                         *)
(* The exchange keeps what it has read beside what it has made of it, and  *)
(* its inductive invariant says, phase by phase, how they are related: the *)
(* request to its conversion, the reply to the limit read out of it, what  *)
(* the stream converter has taken in to what is left of the reply, and the *)
(* count of posts to where they have gone. That the parts keep their own   *)
(* promises meanwhile is shown by refinement: each step of the exchange is *)
(* one of theirs, or none.                                                 *)
(***************************************************************************)
EXTENDS ChatExchange, ConverterProofs

(* Sessions and keys: the map of sessions agrees with the history of logins    *)
(* entry by entry, and the table of keys with the history of deletions, so an  *)
(* id stands for one key, in the table and in every listing anybody has.       *)

\* A session is in the map from its login until somebody ends it.
SessionsInv ==
    \A t \in SessionToken :
        sessions[t] = IF logins[t].state = "open" THEN logins[t].at + SessionTTL ELSE 0

\* An id is the number of its key, for ever; a key that is gone was revoked.
KeysInv ==
    /\ \A k \in Secret : keys[k] \in {0, k}
    /\ \A k \in Secret : k > lastKey => keys[k] = 0
    /\ \A k \in 1..lastKey : keys[k] = 0 => k \in revoked
    /\ \A a \in Admins : \A seen \in listed[a] : seen.id = seen.secret /\ seen.id =< lastKey

AccessInv == AccessTypeOK /\ SessionsInv /\ KeysInv

-----------------------------------------------------------------------------
LEMMA AccessInvInit == AccessInit => AccessInv
<1>. SUFFICES ASSUME AccessInit PROVE AccessInv
  OBVIOUS
<1>. USE AccessAssumption DEF AccessInit, SessionToken, Secret, NoLogin
<1>1. AccessTypeOK
  BY DEF AccessTypeOK, Row
<1>2. SessionsInv
  BY DEF SessionsInv
<1>3. KeysInv
  BY DEF KeysInv
<1>. QED  BY <1>1, <1>2, <1>3 DEF AccessInv

\* The steps that concern sessions.
LEMMA SessionsNext == AccessInv /\ [AccessNext]_accessVars => SessionsInv'
<1>. SUFFICES ASSUME AccessInv, [AccessNext]_accessVars PROVE SessionsInv'
  OBVIOUS
<1>. USE AccessAssumption DEF AccessInv, AccessTypeOK, SessionsInv
<1>1. ASSUME NEW version \in 1..MaxPasswords, Login(version) PROVE SessionsInv'
  BY <1>1 DEF Login
<1>2. ASSUME NEW token \in SessionToken, Logout(token) PROVE SessionsInv'
  BY <1>2 DEF Logout
<1>3. CASE Restart
  BY <1>3 DEF Restart
<1>4. CASE UNCHANGED <<sessions, logins>>
  BY <1>4
<1>. QED
  BY <1>1, <1>2, <1>3, <1>4 DEF AccessNext, EditPassword, TimePasses, GenerateKey, ListKeys,
       DeleteKey, accessVars

LEMMA KeysNext == AccessInv /\ [AccessNext]_accessVars => KeysInv'
<1>. SUFFICES ASSUME AccessInv, [AccessNext]_accessVars PROVE KeysInv'
  OBVIOUS
<1>. USE AccessAssumption DEF AccessInv, AccessTypeOK, KeysInv, Secret, Row
<1>1. CASE GenerateKey
  BY <1>1 DEF GenerateKey, NextId
<1>2. ASSUME NEW admin \in Admins, ListKeys(admin) PROVE KeysInv'
  BY <1>2 DEF ListKeys
<1>3. ASSUME NEW admin \in Admins, DeleteKey(admin) PROVE KeysInv'
  BY <1>3 DEF DeleteKey
<1>4. CASE UNCHANGED <<keys, lastKey, listed, revoked>>
  BY <1>4
<1>. QED
  BY <1>1, <1>2, <1>3, <1>4 DEF AccessNext, EditPassword, TimePasses, Login, Logout, Restart,
       accessVars

LEMMA AccessTypeNext == AccessInv /\ [AccessNext]_accessVars => AccessTypeOK'
<1>. SUFFICES ASSUME AccessInv, [AccessNext]_accessVars PROVE AccessTypeOK'
  OBVIOUS
<1>. USE AccessAssumption DEF AccessInv, AccessTypeOK
<1>1. ASSUME NEW version \in 1..MaxPasswords, Login(version) PROVE AccessTypeOK'
  BY <1>1 DEF Login
<1>2. ASSUME NEW token \in SessionToken, Logout(token) PROVE AccessTypeOK'
  BY <1>2 DEF Logout
<1>3. CASE Restart
  BY <1>3 DEF Restart
<1>4. CASE EditPassword \/ TimePasses
  BY <1>4 DEF EditPassword, TimePasses
<1>5. CASE GenerateKey
  <2>1. lastKey + 1 \in Secret /\ lastKey + 1 \in 0..MaxKeys
    BY <1>5 DEF GenerateKey, Secret
  <2>. QED  BY <1>5, <2>1 DEF GenerateKey, NextId
<1>6. ASSUME NEW admin \in Admins, ListKeys(admin) PROVE AccessTypeOK'
  <2>1. \A k \in Secret : keys[k] # 0 => [id |-> k, secret |-> keys[k]] \in Row
    BY DEF Row, Secret
  <2>2. {[id |-> k, secret |-> keys[k]] : k \in {n \in Secret : keys[n] # 0}} \in SUBSET Row
    BY <2>1
  <2>. QED  BY <1>6, <2>2 DEF ListKeys
<1>7. ASSUME NEW admin \in Admins, DeleteKey(admin) PROVE AccessTypeOK'
  <2>1. PICK seen \in listed[admin] : /\ keys' \in {keys, [keys EXCEPT ![seen.id] = 0]}
                                      /\ revoked' = revoked \cup {seen.secret}
    BY <1>7 DEF DeleteKey
  <2>2. seen.secret \in Secret
    BY DEF Row
  <2>. QED  BY <1>7, <2>1, <2>2 DEF DeleteKey
<1>8. CASE UNCHANGED accessVars
  BY <1>8 DEF accessVars
<1>. QED  BY <1>1, <1>2, <1>3, <1>4, <1>5, <1>6, <1>7, <1>8 DEF AccessNext

LEMMA AccessInvNext == AccessInv /\ [AccessNext]_accessVars => AccessInv'
  BY AccessTypeNext, SessionsNext, KeysNext DEF AccessInv

LEMMA AccessInvariant == AccessSpec => []AccessInv
  BY AccessInvInit, AccessInvNext, PTL DEF AccessSpec

-----------------------------------------------------------------------------
LEMMA AdmittedInv == AccessInv => AdmittedIsLogin
<1>. SUFFICES ASSUME AccessInv, NEW t \in SessionToken
              PROVE  Admitted(t) <=> logins[t].state = "open" /\ clock < logins[t].at + SessionTTL
  BY DEF AdmittedIsLogin
<1>1. clock \in Nat /\ logins[t].at \in Nat /\ SessionTTL \in Nat
  BY AccessAssumption DEF AccessInv, AccessTypeOK
<1>2. sessions[t] = IF logins[t].state = "open" THEN logins[t].at + SessionTTL ELSE 0
  BY DEF AccessInv, SessionsInv
<1>. QED  BY <1>1, <1>2 DEF Admitted

LEMMA KeysLastInv == AccessInv => KeysLastUntilRevoked
<1>. SUFFICES ASSUME AccessInv, NEW k \in 1..lastKey, k \notin revoked
              PROVE  \E id \in Secret : keys[id] = k
  BY DEF KeysLastUntilRevoked, Authorized
<1>1. k \in Secret /\ keys[k] # 0
  BY AccessAssumption DEF AccessInv, AccessTypeOK, KeysInv, Secret
<1>. QED  BY <1>1 DEF AccessInv, KeysInv

\* A token is let in exactly as long as its login lasts, whatever the bounds.
THEOREM AdmissionIsLogin == AccessSpec => []AdmittedIsLogin
  BY AdmittedInv, AccessInvariant, PTL

\* A key that was handed out lasts until somebody deletes the row he saw it in.
THEOREM KeysLast == AccessSpec => []KeysLastUntilRevoked
  BY KeysLastInv, AccessInvariant, PTL

-----------------------------------------------------------------------------
(* The SOCKS dialler, for any address and any buffer that holds the first four *)
(* bytes of a reply.  It looks at single bytes of what one Read returns.  What *)
(* makes this sound is which bytes can be unread at each step: only the last   *)
(* byte of the method reply can be left over, and in front of the connect      *)
(* reply it moves the version to where the code is looked for.                 *)

Granting == <<5, 0, 0, 1>> \o Address
Refusing == <<5, 1, 0, 1>> \o Address

\* What can be unread at each step.
MethodInv ==
    dial = "method" =>
        /\ conn = "open" /\ buf = Blank /\ ~granted
        /\ \/ wire = <<>>
           \/ wire = <<5, IF auth THEN 2 ELSE 0>>
           \/ wire = <<5, 255>> /\ refused /\ silent

LoginInv ==
    dial = "login" =>
        /\ conn = "open" /\ buf[2] = 2 /\ ~granted
        /\ \/ wire = <<>>
           \/ wire = <<1, 0>>
           \/ wire = <<1, 1>> /\ refused /\ silent

ConnectInv ==
    dial = "connect" =>
        /\ conn = "open"
        /\ \/ wire \in {<<>>, Refusing} /\ ~granted
           \/ wire = Granting /\ granted
           \/ wire \in {<<0>>, <<255>>, <<0>> \o Granting, <<0>> \o Refusing} /\ cut
        /\ wire = Refusing => refused

SocksInv ==
    /\ SocksTypeOK
    /\ dial = "idle" => conn = "none" /\ wire = <<>> /\ buf = Blank /\ ~granted
    /\ MethodInv
    /\ LoginInv
    /\ ConnectInv
    /\ OnlyIfGranted /\ WholeRepliesDecide

-----------------------------------------------------------------------------
(* Sequences. *)

\* A Read returns the first bytes of what is unread, and leaves the rest.
LEMMA ArrivedFacts ==
    ASSUME wire \in Seq(Nat), NEW max \in Nat, NEW bytes \in Arrived(max)
    PROVE  /\ Len(bytes) \in 1..Len(wire) /\ Len(bytes) =< max
           /\ bytes \in Seq(Nat)
           /\ \A i \in 1..Len(bytes) : bytes[i] = wire[i]
           /\ Unread(bytes) \in Seq(Nat)
           /\ Len(Unread(bytes)) = Len(wire) - Len(bytes)
           /\ \A i \in 1..(Len(wire) - Len(bytes)) : Unread(bytes)[i] = wire[Len(bytes) + i]
<1>1. PICK n \in 1..Len(wire) : n =< max /\ bytes = SubSeq(wire, 1, n)
  <2>1. DOMAIN wire = 1..Len(wire)
    OBVIOUS
  <2>. QED  BY <2>1 DEF Arrived
<1>2. Len(bytes) = n /\ bytes \in Seq(Nat) /\ \A i \in 1..n : bytes[i] = wire[i]
  BY <1>1
<1>. QED  BY <1>1, <1>2 DEF Unread

\* The replies to the connect request.
LEMMA AnswerFacts ==
    /\ Granting \in Seq(Nat) /\ Refusing \in Seq(Nat)
    /\ Len(Granting) = 4 + Len(Address) /\ Len(Refusing) = 4 + Len(Address)
    /\ Granting[1] = 5 /\ Refusing[1] = 5 /\ Granting[2] = 0 /\ Refusing[2] = 1
    /\ Len(Address) \in Nat
    /\ Answers("connect").yes = Granting /\ Answers("connect").no = Refusing
<1>1. Len(Address) \in Nat /\ Address \in Seq(Nat)
  BY SocksAssumption
<1>2. Answers("connect").yes = Granting /\ Answers("connect").no = Refusing
  BY DEF Answers, Granting, Refusing
<1>3. <<5, 0, 0, 1>> \in Seq(Nat) /\ <<5, 1, 0, 1>> \in Seq(Nat)
  OBVIOUS
<1>4. ASSUME NEW s \in Seq(Nat), Len(s) = 4
      PROVE  /\ s \o Address \in Seq(Nat) /\ Len(s \o Address) = 4 + Len(Address)
             /\ (s \o Address)[1] = s[1] /\ (s \o Address)[2] = s[2]
  <2>1. \A i \in 1..(Len(s) + Len(Address)) :
            (s \o Address)[i] = IF i =< Len(s) THEN s[i] ELSE Address[i - Len(s)]
    BY <1>1, <1>4, ConcatProperties
  <2>2. 1 \in 1..(Len(s) + Len(Address)) /\ 2 \in 1..(Len(s) + Len(Address))
    BY <1>1, <1>4
  <2>3. s \o Address \in Seq(Nat) /\ Len(s \o Address) = Len(s) + Len(Address)
    BY <1>1, <1>4, ConcatProperties
  <2>. QED  BY <1>1, <1>4, <2>1, <2>2, <2>3
<1>. QED  BY <1>1, <1>2, <1>3, <1>4 DEF Granting, Refusing

\* A byte in front of a reply to the connect request: the version, 5, is the second.
LEMMA ShiftedFacts ==
    ASSUME NEW b \in Nat, NEW answer \in {Granting, Refusing}
    PROVE  <<b>> \o answer \in Seq(Nat) /\ Len(<<b>> \o answer) > 4 /\ (<<b>> \o answer)[2] = 5
<1>1. answer \in Seq(Nat) /\ Len(answer) >= 4 /\ answer[1] = 5
  BY AnswerFacts
<1>2. <<b>> \in Seq(Nat) /\ Len(<<b>>) = 1
  OBVIOUS
<1>. QED  BY <1>1, <1>2, ConcatProperties

-----------------------------------------------------------------------------
(* The steps. *)

LEMMA FailKeeps ==
    ASSUME SocksInv, Fail, buf' \in [1..2 -> Nat], auth' = auth, cut' \in BOOLEAN,
           cut' \/ refused
    PROVE  SocksInv'
BY DEF SocksInv, SocksTypeOK, MethodInv, LoginInv, ConnectInv, OnlyIfGranted, WholeRepliesDecide, Fail, Waiting

\* What a request brings behind the bytes left.
LEMMA RequestFacts ==
    ASSUME NEW step \in Waiting, NEW left, Request(step, left),
           granted \in BOOLEAN, refused \in BOOLEAN, silent \in BOOLEAN
    PROVE  /\ dial' = step
           /\ granted' \in BOOLEAN /\ refused' \in BOOLEAN /\ silent' \in BOOLEAN
           /\ refused => refused'
           /\ \/ /\ wire' = left \o Answers(step).yes /\ ~silent
                 /\ granted' <=> step = "connect"
              \/ /\ wire' = left \o Answers(step).no /\ ~silent
                 /\ refused' /\ silent' /\ granted' = granted
              \/ wire' = left /\ granted' = granted
<1>1. (step = "connect") \in BOOLEAN
  OBVIOUS
<1>2. CASE /\ wire' = left \o Answers(step).yes /\ ~silent
           /\ granted' = (step = "connect")
           /\ UNCHANGED <<refused, silent>>
  BY <1>1, <1>2 DEF Request
<1>3. CASE /\ wire' = left \o Answers(step).no /\ ~silent
           /\ refused' = TRUE /\ silent' = TRUE
           /\ UNCHANGED granted
  BY <1>3 DEF Request
<1>4. CASE wire' = left /\ UNCHANGED <<granted, refused, silent>>
  BY <1>4 DEF Request
<1>. QED  BY <1>2, <1>3, <1>4 DEF Request

LEMMA ConnectKeeps == SocksInv /\ Connect => SocksInv'
<1>. SUFFICES ASSUME SocksInv, Connect PROVE SocksInv'
  OBVIOUS
<1>1. SocksTypeOK /\ ~granted /\ buf = Blank
  BY DEF SocksInv, Connect
<1>2. /\ dial' = "method" /\ conn' = "open" /\ buf' = buf /\ auth' = auth /\ cut' = cut
      /\ granted' \in BOOLEAN /\ refused' \in BOOLEAN /\ silent' \in BOOLEAN
      /\ \/ wire' = <<5, IF auth THEN 2 ELSE 0>> /\ ~granted'
         \/ wire' = <<5, 255>> /\ refused' /\ silent' /\ ~granted'
         \/ wire' = <<>> /\ ~granted'
  <2>1. Request("method", <<>>)
    BY DEF Connect
  <2>2. /\ <<>> \o Answers("method").yes = <<5, IF auth THEN 2 ELSE 0>>
        /\ <<>> \o Answers("method").no = <<5, 255>>
    <3>1. /\ Answers("method").yes = <<5, IF auth THEN 2 ELSE 0>>
          /\ Answers("method").no = <<5, 255>>
      BY DEF Answers
    <3>2. <<5, IF auth THEN 2 ELSE 0>> \in Seq(Nat) /\ <<5, 255>> \in Seq(Nat)
      OBVIOUS
    <3>. QED  BY <3>1, <3>2, ConcatEmptySeq
  <2>. QED  BY <1>1, <2>1, <2>2, RequestFacts DEF Waiting, SocksTypeOK, Connect
<1>3. wire' \in Seq(Nat)
  <2>1. /\ <<5, 2>> \in Seq(Nat) /\ <<5, 0>> \in Seq(Nat) /\ <<5, 255>> \in Seq(Nat)
        /\ <<>> \in Seq(Nat)
    BY EmptySeq
  <2>. QED  BY <1>2, <2>1
<1>. QED
  BY <1>1, <1>2, <1>3 DEF SocksInv, SocksTypeOK, MethodInv, LoginInv, ConnectInv,
       OnlyIfGranted, WholeRepliesDecide, Waiting

\* One read of a reply of two bytes: all of it, or the first byte only.
LEMMA TwoBytes ==
    ASSUME NEW x, NEW y, wire = <<x, y>>, x \in Nat, y \in Nat,
           buf \in [1..2 -> Nat], NEW bytes \in Arrived(2)
    PROVE  /\ Over(bytes) \in [1..2 -> Nat]
           /\ \/ Len(bytes) = 2 /\ Over(bytes) = <<x, y>> /\ Unread(bytes) = <<>>
              \/ Len(bytes) = 1 /\ Over(bytes) = <<x, buf[2]>> /\ Unread(bytes) = <<y>>
<1>1. wire \in Seq(Nat) /\ Len(wire) = 2 /\ wire[1] = x /\ wire[2] = y
  OBVIOUS
<1>2. /\ Len(bytes) \in 1..2 /\ \A i \in 1..Len(bytes) : bytes[i] = wire[i]
      /\ Unread(bytes) \in Seq(Nat) /\ Len(Unread(bytes)) = 2 - Len(bytes)
      /\ \A i \in 1..(2 - Len(bytes)) : Unread(bytes)[i] = wire[Len(bytes) + i]
  BY <1>1, ArrivedFacts
<1>3. CASE Len(bytes) = 2
  <2>1. Over(bytes) = [i \in 1..2 |-> IF i = 1 THEN x ELSE y]
    BY <1>1, <1>2, <1>3 DEF Over
  <2>. QED  BY <1>1, <1>2, <1>3, <2>1
<1>4. CASE Len(bytes) = 1
  <2>1. Over(bytes) = [i \in 1..2 |-> IF i = 1 THEN x ELSE buf[2]]
    BY <1>1, <1>2, <1>4 DEF Over
  <2>2. Len(Unread(bytes)) = 1 /\ Unread(bytes)[1] = y
    BY <1>1, <1>2, <1>4
  <2>. QED  BY <1>1, <1>2, <1>4, <2>1, <2>2
<1>. QED  BY <1>2, <1>3, <1>4

\* Bytes of the method reply that may be unread once the connect request is sent.
LeftOver(left) ==
    \/ left = <<>>
    \/ left = <<0>> /\ cut'
    \/ left = <<255>> /\ cut' /\ silent

\* The connect request may be sent with the last byte of the method reply unread.
LEMMA EnterConnect ==
    ASSUME NEW left, SocksTypeOK, conn = "open", ~granted, Request("connect", left),
           UNCHANGED <<conn, auth>>, buf' \in [1..2 -> Nat], cut' \in BOOLEAN,
           LeftOver(left)
    PROVE  SocksInv'
<1>1. /\ dial' = "connect"
      /\ granted' \in BOOLEAN /\ refused' \in BOOLEAN /\ silent' \in BOOLEAN
      /\ \/ wire' = left \o Granting /\ ~silent /\ granted'
         \/ wire' = left \o Refusing /\ ~silent /\ refused' /\ ~granted'
         \/ wire' = left /\ ~granted'
  BY RequestFacts, AnswerFacts DEF Waiting, SocksTypeOK
<1>2. ConnectInv' /\ wire' \in Seq(Nat)
  <2>1. CASE left = <<>>
    <3>1. <<>> \o Granting = Granting /\ <<>> \o Refusing = Refusing
      BY AnswerFacts, ConcatEmptySeq
    <3>2. Granting # Refusing /\ <<>> # Refusing
      BY AnswerFacts, EmptySeq
    <3>. QED  BY <1>1, <2>1, <3>1, <3>2, AnswerFacts, EmptySeq DEF ConnectInv
  <2>2. CASE left = <<0>> /\ cut'
    <3>1. /\ <<0>> \o Granting \in Seq(Nat) /\ <<0>> \o Refusing \in Seq(Nat)
          /\ <<0>> \o Granting # Refusing /\ <<0>> \o Refusing # Refusing
      BY ShiftedFacts, AnswerFacts
    <3>2. <<0>> \in Seq(Nat) /\ <<0>> # Refusing
      BY AnswerFacts
    <3>. QED  BY <1>1, <2>2, <3>1, <3>2 DEF ConnectInv
  <2>3. CASE left = <<255>> /\ cut' /\ silent
    <3>1. <<255>> \in Seq(Nat) /\ <<255>> # Refusing
      BY AnswerFacts
    <3>. QED  BY <1>1, <2>3, <3>1 DEF ConnectInv
  <2>. QED  BY <2>1, <2>2, <2>3 DEF LeftOver
<1>. QED
  BY <1>1, <1>2 DEF SocksInv, SocksTypeOK, MethodInv, LoginInv, OnlyIfGranted, WholeRepliesDecide, Waiting

LEMMA ReadMethodKeeps == SocksInv /\ ReadMethod => SocksInv'
<1>. SUFFICES ASSUME SocksInv, ReadMethod PROVE SocksInv'
  OBVIOUS
<1>1. /\ SocksTypeOK /\ dial = "method" /\ conn = "open" /\ buf = Blank /\ ~granted
      /\ auth' = auth
  BY DEF SocksInv, MethodInv, ReadMethod
<1>2. PICK bytes \in Arrived(2) :
        /\ buf' = Over(bytes)
        /\ cut' = (cut \/ Len(bytes) < 2)
        /\ IF buf' = <<5, IF auth THEN 2 ELSE 0>>
           THEN /\ Request(IF auth THEN "login" ELSE "connect", Unread(bytes))
                /\ UNCHANGED conn
           ELSE Fail
  BY DEF ReadMethod
<1>3. cut' \in BOOLEAN /\ (Len(bytes) < 2 => cut') /\ buf \in [1..2 -> Nat] /\ buf[2] = 0
  BY <1>1, <1>2 DEF SocksTypeOK, Blank
<1>4. PICK y \in Nat : wire = <<5, y>> /\ (y = (IF auth THEN 2 ELSE 0) \/ (y = 255 /\ refused /\ silent))
  <2>1. wire # <<>>
    BY <1>1, ArrivedFacts DEF SocksTypeOK
  <2>2. \/ wire = <<5, IF auth THEN 2 ELSE 0>>
        \/ wire = <<5, 255>> /\ refused /\ silent
    BY <1>1, <2>1 DEF SocksInv, MethodInv
  <2>3. (IF auth THEN 2 ELSE 0) \in Nat
    OBVIOUS
  <2>. QED  BY <2>2, <2>3
<1>5. /\ Over(bytes) \in [1..2 -> Nat]
      /\ \/ Len(bytes) = 2 /\ Over(bytes) = <<5, y>> /\ Unread(bytes) = <<>>
         \/ Len(bytes) = 1 /\ Over(bytes) = <<5, 0>> /\ Unread(bytes) = <<y>>
  BY <1>3, <1>4, TwoBytes
<1>6. CASE buf' # <<5, IF auth THEN 2 ELSE 0>>
  BY <1>1, <1>2, <1>3, <1>4, <1>5, <1>6, FailKeeps
<1>7. CASE buf' = <<5, 2>> /\ auth
  <2>1. Request("login", <<>>) /\ UNCHANGED conn
    BY <1>2, <1>4, <1>5, <1>7
  <2>2. Answers("login").yes = <<1, 0>> /\ Answers("login").no = <<1, 1>>
    BY DEF Answers
  <2>3. <<>> \o <<1, 0>> = <<1, 0>> /\ <<>> \o <<1, 1>> = <<1, 1>>
    OBVIOUS
  <2>4. /\ dial' = "login"
        /\ granted' \in BOOLEAN /\ refused' \in BOOLEAN /\ silent' \in BOOLEAN
        /\ \/ wire' = <<1, 0>> /\ ~granted'
           \/ wire' = <<1, 1>> /\ refused' /\ silent' /\ ~granted'
           \/ wire' = <<>> /\ ~granted'
    BY <1>1, <2>1, <2>2, <2>3, RequestFacts DEF Waiting, SocksTypeOK
  <2>5. wire' \in Seq(Nat)
    <3>1. <<1, 0>> \in Seq(Nat) /\ <<1, 1>> \in Seq(Nat) /\ <<>> \in Seq(Nat)
      BY EmptySeq
    <3>. QED  BY <2>4, <3>1
  <2>6. buf'[2] = 2 /\ buf' \in [1..2 -> Nat]
    BY <1>2, <1>5, <1>7
  <2>. QED
    BY <1>1, <1>3, <2>1, <2>4, <2>5, <2>6 DEF SocksInv, SocksTypeOK, MethodInv, LoginInv, ConnectInv,
         OnlyIfGranted, WholeRepliesDecide, Waiting
<1>8. CASE buf' = <<5, 0>> /\ ~auth
  <2>1. Request("connect", Unread(bytes)) /\ UNCHANGED conn
    BY <1>2, <1>8
  <2>2. LeftOver(Unread(bytes))
    <3>1. y = 0 \/ (y = 255 /\ silent)
      BY <1>4, <1>8
    <3>2. CASE Len(bytes) = 2
      <4>1. Unread(bytes) = <<>>
        BY <1>5, <3>2
      <4>. QED  BY <4>1 DEF LeftOver
    <3>3. CASE Len(bytes) = 1
      <4>1. Unread(bytes) = <<y>> /\ cut'
        <5>1. Unread(bytes) = <<y>>
          BY <1>5, <3>3
        <5>2. cut'
          BY <1>3, <3>3
        <5>. QED  BY <5>1, <5>2
      <4>. QED  BY <3>1, <4>1 DEF LeftOver
    <3>. QED  BY <1>5, <3>2, <3>3
  <2>3. buf' \in [1..2 -> Nat]
    BY <1>2, <1>5
  <2>. QED  BY <1>1, <1>3, <2>1, <2>2, <2>3, EnterConnect
<1>. QED  BY <1>6, <1>7, <1>8

LEMMA ReadLoginKeeps == SocksInv /\ ReadLogin => SocksInv'
<1>. SUFFICES ASSUME SocksInv, ReadLogin PROVE SocksInv'
  OBVIOUS
<1>1. /\ SocksTypeOK /\ dial = "login" /\ conn = "open" /\ buf[2] = 2 /\ ~granted
      /\ auth' = auth
  BY DEF SocksInv, LoginInv, ReadLogin
<1>2. PICK bytes \in Arrived(2) :
        /\ buf' = Over(bytes)
        /\ cut' = (cut \/ Len(bytes) < 2)
        /\ IF buf'[2] = 0 THEN Request("connect", Unread(bytes)) /\ UNCHANGED conn ELSE Fail
  BY DEF ReadLogin
<1>3. cut' \in BOOLEAN /\ (Len(bytes) < 2 => cut') /\ buf \in [1..2 -> Nat]
  BY <1>1, <1>2 DEF SocksTypeOK
<1>4. PICK y \in Nat : wire = <<1, y>> /\ (y = 0 \/ (y = 1 /\ refused))
  <2>1. wire # <<>>
    BY <1>1, ArrivedFacts DEF SocksTypeOK
  <2>2. \/ wire = <<1, 0>>
        \/ wire = <<1, 1>> /\ refused
    BY <1>1, <2>1 DEF SocksInv, LoginInv
  <2>. QED  BY <2>2
<1>5. /\ Over(bytes) \in [1..2 -> Nat]
      /\ \/ Len(bytes) = 2 /\ Over(bytes) = <<1, y>> /\ Unread(bytes) = <<>>
         \/ Len(bytes) = 1 /\ Over(bytes) = <<1, 2>> /\ Unread(bytes) = <<y>>
  BY <1>1, <1>3, <1>4, TwoBytes
<1>6. CASE buf'[2] # 0
  BY <1>1, <1>2, <1>3, <1>4, <1>5, <1>6, FailKeeps
<1>7. CASE buf'[2] = 0
  <2>1. Request("connect", <<>>) /\ UNCHANGED conn
    BY <1>2, <1>5, <1>7
  <2>2. buf' \in [1..2 -> Nat]
    BY <1>2, <1>5
  <2>3. LeftOver(<<>>)
    BY DEF LeftOver
  <2>. QED  BY <1>1, <1>3, <2>1, <2>2, <2>3, EnterConnect
<1>. QED  BY <1>6, <1>7

LEMMA ReadConnectKeeps == SocksInv /\ ReadConnect => SocksInv'
<1>. SUFFICES ASSUME SocksInv, ReadConnect PROVE SocksInv'
  OBVIOUS
<1>1. SocksTypeOK /\ dial = "connect" /\ conn = "open" /\ ConnectInv /\ auth' = auth /\ buf' = buf
  BY DEF SocksInv, ConnectInv, ReadConnect
<1>2. PICK bytes \in Arrived(RespSize) :
        /\ cut' = (cut \/ Len(bytes) < Len(Answers("connect").yes))
        /\ IF Len(bytes) >= 4 /\ bytes[2] = 0
           THEN /\ dial' = "tunnel" /\ wire' = Unread(bytes)
                /\ UNCHANGED <<conn, silent, granted, refused>>
           ELSE Fail
  BY DEF ReadConnect
<1>3. /\ Len(bytes) \in 1..Len(wire)
      /\ \A i \in 1..Len(bytes) : bytes[i] = wire[i]
      /\ Unread(bytes) \in Seq(Nat) /\ Len(Unread(bytes)) = Len(wire) - Len(bytes)
  BY <1>1, SocksAssumption, ArrivedFacts DEF SocksTypeOK
<1>4. /\ cut' \in BOOLEAN /\ buf' \in [1..2 -> Nat]
      /\ ~cut' => ~cut /\ Len(bytes) >= 4 + Len(Address)
  <2>1. Len(Answers("connect").yes) = 4 + Len(Address) /\ Len(Address) \in Nat
    BY AnswerFacts
  <2>2. Len(bytes) \in Nat /\ cut \in BOOLEAN /\ buf' \in [1..2 -> Nat]
    BY <1>1, <1>3 DEF SocksTypeOK
  <2>3. cut' = (cut \/ Len(bytes) < 4 + Len(Address))
    BY <1>2, <2>1
  <2>4. ~cut' => ~cut /\ ~(Len(bytes) < 4 + Len(Address))
    BY <2>3
  <2>5. cut' \in BOOLEAN
    BY <2>3
  <2>. QED  BY <2>1, <2>2, <2>4, <2>5
<1>5. \/ wire = Refusing /\ refused
      \/ wire = Granting /\ granted
      \/ cut /\ Len(wire) = 1
      \/ cut /\ Len(wire) > 4 /\ wire[2] = 5
  <2>1. wire # <<>>
    BY <1>3, EmptySeq
  <2>2. /\ Len(<<0>>) = 1 /\ Len(<<255>>) = 1
        /\ Len(<<0>> \o Granting) > 4 /\ (<<0>> \o Granting)[2] = 5
        /\ Len(<<0>> \o Refusing) > 4 /\ (<<0>> \o Refusing)[2] = 5
    BY ShiftedFacts
  <2>. QED  BY <1>1, <2>1, <2>2 DEF ConnectInv
<1>6. CASE Len(bytes) >= 4 /\ bytes[2] = 0
  <2>1. wire[2] = 0 /\ Len(wire) >= 4
    BY <1>3, <1>6
  <2>2. wire = Granting /\ granted
    BY <1>5, <2>1, AnswerFacts
  <2>3. ~cut' => Unread(bytes) = <<>>
    BY <1>3, <1>4, <2>2, AnswerFacts, EmptySeq
  <2>. QED
    BY <1>1, <1>2, <1>3, <1>4, <1>6, <2>2, <2>3 DEF SocksInv, SocksTypeOK, MethodInv, LoginInv,
         ConnectInv, OnlyIfGranted, WholeRepliesDecide, Waiting
<1>7. CASE ~(Len(bytes) >= 4 /\ bytes[2] = 0)
  <2>1. cut' \/ refused
    BY <1>3, <1>4, <1>5, <1>7, AnswerFacts
  <2>. QED  BY <1>1, <1>2, <1>4, <1>7, <2>1, FailKeeps
<1>. QED  BY <1>6, <1>7

-----------------------------------------------------------------------------
LEMMA SocksInvInit == SocksInit => SocksInv
<1>1. Blank \in [1..2 -> Nat] /\ <<>> \in Seq(Nat)
  BY EmptySeq DEF Blank
<1>. QED
  BY <1>1 DEF SocksInit, SocksInv, SocksTypeOK, MethodInv, LoginInv, ConnectInv, OnlyIfGranted, WholeRepliesDecide, Waiting

LEMMA SocksInvNext == SocksInv /\ [SocksNext]_socksVars => SocksInv'
<1>. SUFFICES ASSUME SocksInv, [SocksNext]_socksVars PROVE SocksInv'
  OBVIOUS
<1>1. CASE NoConnection
  BY <1>1 DEF NoConnection, SocksInv, SocksTypeOK, MethodInv, LoginInv, ConnectInv,
       OnlyIfGranted, WholeRepliesDecide, Waiting
<1>2. CASE ReadFails
  <2>1. buf' \in [1..2 -> Nat] /\ auth' = auth /\ cut' = TRUE /\ Fail
    BY <1>2 DEF ReadFails, SocksInv, SocksTypeOK
  <2>. QED  BY <2>1, FailKeeps
<1>3. CASE ProxyCloses
  BY <1>3 DEF ProxyCloses, SocksInv, SocksTypeOK, MethodInv, LoginInv, ConnectInv,
       OnlyIfGranted, WholeRepliesDecide, Waiting
<1>4. CASE UNCHANGED socksVars
  BY <1>4 DEF socksVars, SocksInv, SocksTypeOK, MethodInv, LoginInv, ConnectInv,
       OnlyIfGranted, WholeRepliesDecide, Waiting
<1>. QED
  BY <1>1, <1>2, <1>3, <1>4, ConnectKeeps, ReadMethodKeeps, ReadLoginKeeps, ReadConnectKeeps
       DEF SocksNext

LEMMA SocksInvariant == SocksSpec => []SocksInv
  BY SocksInvInit, SocksInvNext, PTL DEF SocksSpec

\* Whatever the address and however the replies are cut, nobody gets a connection that
\* the proxy has not granted, and none is left open by a dial that failed.
THEOREM NoUngrantedTunnel == SocksSpec => []OnlyIfGranted
<1>1. SocksInv => OnlyIfGranted
  BY DEF SocksInv
<1>. QED  BY <1>1, SocksInvariant, PTL

\* With whole replies, the caller starts on a clean connection, and a failed dial was
\* refused.
THEOREM RepliesDecide == SocksSpec => []WholeRepliesDecide
<1>1. SocksInv => WholeRepliesDecide
  BY DEF SocksInv
<1>. QED  BY <1>1, SocksInvariant, PTL

-----------------------------------------------------------------------------
(* Messages *)

Message == [role : Role, content : Seq(Part)]
Line == [role : Role, text : Texts]
TextPart == {p \in Part : p.type = "text"}

SaidBy(m) ==
    LET texts == extractText(m.content)
    IN  [i \in DOMAIN texts |-> [role |-> m.role, text |-> texts[i].text]]

Saying == [m \in Message |-> SaidBy(m)]
Itemizing == [m \in Message |-> ItemsOf(m)]

LEMMA TextsAreFiltered ==
    ASSUME NEW content \in Seq(Part)
    PROVE  /\ extractText(content) = Filter(TextPart, content)
           /\ extractText(content) \in Seq(Part)
           /\ convertContent(content) \in Seq(Part)
           /\ extractText(extractText(content)) = extractText(content)
           /\ extractText(convertContent(content)) = extractText(content)
<1>. DEFINE Passed == {p \in Part : p.type \in {"text", "image_url"}}
<1>1. ASSUME NEW s \in Seq(Part)
      PROVE  extractText(s) = Filter(TextPart, s) /\ convertContent(s) = Filter(Passed, s)
  <2>1. \A i \in DOMAIN s : s[i] \in TextPart <=> s[i].type = "text"
    BY DEF TextPart
  <2>2. [i \in DOMAIN s |-> IF s[i].type = "text" THEN <<s[i]>> ELSE <<>>]
          = [i \in DOMAIN s |-> IF s[i] \in TextPart THEN <<s[i]>> ELSE <<>>]
    BY <2>1
  <2>3. \A i \in DOMAIN s : s[i] \in Passed <=> s[i].type \in {"text", "image_url"}
    OBVIOUS
  <2>. HIDE DEF Passed
  <2>4. [i \in DOMAIN s |-> IF s[i].type \in {"text", "image_url"} THEN <<s[i]>> ELSE <<>>]
          = [i \in DOMAIN s |-> IF s[i] \in Passed THEN <<s[i]>> ELSE <<>>]
    BY <2>3
  <2>. QED  BY <2>2, <2>4 DEF extractText, convertContent, Selected, Filter
<1>2. TextPart \subseteq Passed
  BY DEF TextPart
<1>. HIDE DEF Passed
<1>3. Filter(TextPart, content) \in Seq(Part) /\ Filter(Passed, content) \in Seq(Part)
  BY FilterType
<1>4. Filter(TextPart, Filter(Passed, content)) = Filter(TextPart, content)
  BY <1>2, FilterTwice
<1>5. Filter(TextPart, Filter(TextPart, content)) = Filter(TextPart, content)
  BY FilterTwice
<1>. QED  BY <1>1, <1>3, <1>4, <1>5

LEMMA SaidByType == Saying \in [Message -> Seq(Line)]
<1>1. ASSUME NEW m \in Message PROVE SaidBy(m) \in Seq(Line)
  <2>. DEFINE texts == extractText(m.content)
  <2>1. texts \in Seq(Part) /\ m.role \in Role
    BY TextsAreFiltered DEF Message
  <2>2. SaidBy(m) = [i \in DOMAIN texts |-> [role |-> m.role, text |-> texts[i].text]]
    BY DEF SaidBy
  <2>. HIDE DEF texts
  <2>3. PICK n \in Nat : DOMAIN texts = 1..n
    BY <2>1
  <2>4. SaidBy(m) \in [1..n -> Line]
    <3>1. \A i \in 1..n : texts[i] \in Part
      BY <2>1, <2>3
    <3>. QED  BY <2>1, <2>2, <2>3, <3>1 DEF Line, Part
  <2>. QED  BY <2>3, <2>4, FunctionIsSeq
<1>. QED  BY <1>1 DEF Saying

LEMMA ItemsType == Itemizing \in [Message -> Seq(Message)]
<1>1. ASSUME NEW m \in Message PROVE ItemsOf(m) \in Seq(Message)
  <2>1. ASSUME NEW content \in Seq(Part), NEW role \in Role
        PROVE  <<Item(role, content)>> \in Seq(Message)
    <3>1. Item(role, content) \in Message
      BY DEF Item, Message
    <3>. QED  BY <3>1, ShortSeqs
  <2>2. /\ m.role \in Role /\ m.content \in Seq(Part)
        /\ extractText(m.content) \in Seq(Part) /\ convertContent(m.content) \in Seq(Part)
        /\ <<>> \in Seq(Message)
    BY TextsAreFiltered, ShortSeqs DEF Message
  <2>3. /\ "user" \in Role /\ "tool" \in Role
    BY DEF Role
  <2>. QED  BY <2>1, <2>2, <2>3 DEF ItemsOf
<1>. QED  BY <1>1 DEF Itemizing

LEMMA SaidIs ==
    ASSUME NEW ms \in Seq(Message)
    PROVE  Said(ms) = FlatMap(Saying, ms) /\ convertMessages(ms) = FlatMap(Itemizing, ms)
<1>1. \A i \in DOMAIN ms : Saying[ms[i]] = SaidBy(ms[i]) /\ Itemizing[ms[i]] = ItemsOf(ms[i])
  BY DEF Saying, Itemizing
<1>2. [i \in DOMAIN ms |-> Saying[ms[i]]] = [i \in DOMAIN ms |-> SaidBy(ms[i])]
  BY <1>1
<1>3. [i \in DOMAIN ms |-> Itemizing[ms[i]]] = [i \in DOMAIN ms |-> ItemsOf(ms[i])]
  BY <1>1
<1>4. Said(ms) = FlattenSeq([i \in DOMAIN ms |-> SaidBy(ms[i])])
  BY DEF Said, SaidBy, extractText, Selected
<1>. QED  BY <1>2, <1>3, <1>4 DEF FlatMap, convertMessages

\* The items of one message say what it says.
LEMMA ItemsSay ==
    ASSUME NEW m \in Message
    PROVE  Said(ItemsOf(m)) = IF m.role # "other" THEN SaidBy(m) ELSE <<>>
<1>. DEFINE text == extractText(m.content)
<1>1. /\ m.content \in Seq(Part) /\ text \in Seq(Part) /\ convertContent(m.content) \in Seq(Part)
      /\ extractText(text) = text /\ extractText(convertContent(m.content)) = text
  BY TextsAreFiltered DEF Message
<1>. HIDE DEF text
<1>2. SaidBy(m) = [i \in DOMAIN text |-> [role |-> m.role, text |-> text[i].text]]
  BY DEF SaidBy, text
<1>3. ASSUME NEW content \in Seq(Part), extractText(content) = text
      PROVE  Said(<<Item(m.role, content)>>) = SaidBy(m)
  <2>1. Item(m.role, content) \in Message
    BY DEF Item, Message
  <2>2. SaidBy(Item(m.role, content)) = SaidBy(m)
    BY <1>2, <1>3 DEF SaidBy, Item
  <2>3. <<Item(m.role, content)>> \in Seq(Message)
    BY <2>1, ShortSeqs
  <2>4. Said(<<Item(m.role, content)>>) = Saying[Item(m.role, content)]
    BY <2>1, <2>3, SaidIs, SaidByType, FlatMapOne
  <2>. QED  BY <2>1, <2>2, <2>4 DEF Saying
<1>4. Said(<<>>) = <<>>
  <2>1. <<>> \in Seq(Message)
    BY ShortSeqs
  <2>. QED  BY <2>1, SaidIs, FlatMapEmpty
<1>5. text = <<>> => SaidBy(m) = <<>>
  BY <1>2
<1>6. m.role \in Role
  BY DEF Message
<1>. QED  BY <1>1, <1>3, <1>4, <1>5, <1>6 DEF ItemsOf, Role, text

Heard == {m \in Message : m.role # "other"}

LEMMA HeardIs ==
    ASSUME NEW ms \in Seq(Message)
    PROVE  Selected(ms, LAMBDA m : m.role # "other") = Filter(Heard, ms)
<1>1. \A i \in DOMAIN ms : ms[i] \in Heard <=> ms[i].role # "other"
  BY DEF Heard
<1>2. [i \in DOMAIN ms |-> IF ms[i].role # "other" THEN <<ms[i]>> ELSE <<>>]
        = [i \in DOMAIN ms |-> IF ms[i] \in Heard THEN <<ms[i]>> ELSE <<>>]
  BY <1>1
<1>. QED  BY <1>2 DEF Selected, Filter

LEMMA NothingUnsaid ==
    ASSUME NEW ms \in Seq(Message)
    PROVE  Said(convertMessages(ms)) = Said(Filter(Heard, ms))
<1>. DEFINE P == {u \in Seq(Message) : Said(convertMessages(u)) = Said(Filter(Heard, u))}
<1>0. PICK say \in [Message -> Seq(Line)], items \in [Message -> Seq(Message)] :
        /\ say = Saying /\ items = Itemizing
        /\ \A u \in Seq(Message) : Said(u) = FlatMap(say, u) /\ convertMessages(u) = FlatMap(items, u)
  BY SaidByType, ItemsType, SaidIs
<1>1. <<>> \in P
  <2>1. <<>> \in Seq(Message)
    BY ShortSeqs
  <2>. QED  BY <1>0, <2>1, FlatMapEmpty, FilterEmpty
<1>2. ASSUME NEW u \in Seq(Message), NEW m \in Message, u \in P PROVE Append(u, m) \in P
  <2>. DEFINE c == convertMessages(u)
             f == Filter(Heard, u)
  <2>1. Append(u, m) \in Seq(Message) /\ items[m] = ItemsOf(m) /\ items[m] \in Seq(Message)
          /\ say[m] = SaidBy(m) /\ say[m] \in Seq(Line)
    BY <1>0 DEF Itemizing, Saying
  <2>2. c \in Seq(Message) /\ convertMessages(Append(u, m)) = c \o items[m]
    <3>1. FlatMap(items, Append(u, m)) = FlatMap(items, u) \o items[m]
      BY FlatMapAppend
    <3>2. FlatMap(items, u) \in Seq(Message)
      BY FlatMapType
    <3>. QED  BY <1>0, <2>1, <3>1, <3>2
  <2>3. f \in Seq(Message)
          /\ Filter(Heard, Append(u, m)) = IF m \in Heard THEN Append(f, m) ELSE f
    BY FilterType, FilterAppend
  <2>4. Said(c) = Said(f)
    BY <1>2
  <2>. HIDE DEF c, f
  <2>5. Said(c \o items[m]) = Said(c) \o Said(items[m])
    <3>. PICK t \in Seq(Message) : t = items[m]
      BY <2>1
    <3>1. FlatMap(say, c \o t) = FlatMap(say, c) \o FlatMap(say, t)
      BY <2>2, FlatMapConcat
    <3>2. c \o items[m] \in Seq(Message)
      BY <2>1, <2>2
    <3>. QED  BY <1>0, <2>1, <2>2, <3>1, <3>2
  <2>6. Said(Append(f, m)) = Said(f) \o say[m]
    <3>. PICK g \in Seq(Message) : g = f
      BY <2>3
    <3>1. FlatMap(say, Append(g, m)) = FlatMap(say, g) \o say[m]
      BY FlatMapAppend
    <3>2. Append(f, m) \in Seq(Message)
      BY <2>3
    <3>. QED  BY <1>0, <2>3, <3>1, <3>2
  <2>7. Said(items[m]) = IF m \in Heard THEN say[m] ELSE <<>>
    BY <2>1, ItemsSay DEF Heard
  <2>8. Said(c) \o <<>> = Said(c)
    <3>1. FlatMap(say, c) \in Seq(Line)
      BY <2>2, FlatMapType
    <3>. QED  BY <1>0, <2>2, <3>1
  <2>9. Said(convertMessages(Append(u, m))) = Said(Filter(Heard, Append(u, m)))
    BY <2>2, <2>3, <2>4, <2>5, <2>6, <2>7, <2>8
  <2>. QED  BY <2>1, <2>9
<1>. HIDE DEF P
<1>3. Seq(Message) \subseteq P
  BY <1>1, <1>2, SeqInduction
<1>. QED  BY <1>3 DEF P

-----------------------------------------------------------------------------
(* Tools *)

GivenTool == {t \in ToolType : t.form # "null"}
Given(ts) == Selected(ts, LAMBDA t : t.form # "null")
Extra(r) == IF AddSearch(r) THEN <<Tool("web_search", "flat", NoText)>> ELSE <<>>

LEMMA SearchToolType ==
    /\ Tool("web_search", "flat", NoText) \in GivenTool
    /\ Tool("web_search", "flat", NoText).type = "web_search"
<1>1. Absent \in ListType
  BY ShortSeqs DEF Absent, ListType
<1>2. Unlisted \in [Field -> ListType]
  BY <1>1 DEF Unlisted
<1>3. /\ "web_search" \in ToolKind /\ "flat" \in {"flat", "nested"} /\ NoText \in Names \cup {NoText}
      /\ "absent" \in {"absent", "malformed", "object"}
  BY DEF ToolKind
<1>4. Tool("web_search", "flat", NoText) \in ToolType
  BY <1>2, <1>3 DEF Tool, ToolType
<1>. QED  BY <1>4 DEF Tool, GivenTool

LEMMA GivenIs ==
    ASSUME NEW ts \in Seq(ToolType)
    PROVE  Given(ts) = Filter(GivenTool, ts)
<1>1. \A i \in DOMAIN ts : ts[i] \in GivenTool <=> ts[i].form # "null"
  BY DEF GivenTool
<1>2. [i \in DOMAIN ts |-> IF ts[i].form # "null" THEN <<ts[i]>> ELSE <<>>]
        = [i \in DOMAIN ts |-> IF ts[i] \in GivenTool THEN <<ts[i]>> ELSE <<>>]
  BY <1>1
<1>. QED  BY <1>2 DEF Given, Selected, Filter

\* The tools that are posted: those given, in their places, and the search that
\* web_search_options asks for behind them.
LEMMA PostedTools ==
    ASSUME NEW r \in ChatRequest
    PROVE  /\ Given(r.tools) \in Seq(GivenTool)
           /\ ToSet(Given(r.tools)) = {t \in ToSet(r.tools) : t.form # "null"}
           /\ DOMAIN convertTools(r) = 1..(Len(Given(r.tools)) + Len(Extra(r)))
           /\ \A i \in DOMAIN Given(r.tools) :
                convertTools(r)[i] = flattenTool(Given(r.tools)[i])
           /\ AddSearch(r) =>
                convertTools(r)[Len(Given(r.tools)) + 1]
                  = flattenTool(Tool("web_search", "flat", NoText))
<1>. PICK given : given = Given(r.tools)
  OBVIOUS
<1>. PICK extra : extra = Extra(r)
  OBVIOUS
<1>1. r.tools \in Seq(ToolType) /\ GivenTool \subseteq ToolType
  BY DEF ChatRequest, GivenTool
<1>2. /\ extra \in Seq(GivenTool) /\ extra \in Seq(ToolType)
      /\ Filter(GivenTool, extra) = extra
      /\ Len(extra) = IF AddSearch(r) THEN 1 ELSE 0
      /\ AddSearch(r) => extra[1] = Tool("web_search", "flat", NoText)
  <2>1. CASE AddSearch(r)
    <3>1. extra = <<Tool("web_search", "flat", NoText)>>
      BY <2>1 DEF Extra
    <3>2. Tool("web_search", "flat", NoText) \in GivenTool
      BY SearchToolType
    <3>3. extra \in Seq(GivenTool) /\ extra \in Seq(ToolType)
      <4>1. Tool("web_search", "flat", NoText) \in ToolType
        BY <1>1, <3>2
      <4>. QED  BY <3>1, <3>2, <4>1, ShortSeqs
    <3>4. Filter(GivenTool, extra) = extra
      BY <3>1, <3>2, FilterOne
    <3>. QED  BY <2>1, <3>1, <3>3, <3>4
  <2>2. CASE ~AddSearch(r)
    <3>1. extra = <<>>
      BY <2>2 DEF Extra
    <3>. QED  BY <2>2, <3>1, ShortSeqs, FilterEmpty
  <2>. QED  BY <2>1, <2>2
<1>3. given = Filter(GivenTool, r.tools) /\ given \in Seq(ToolType)
  BY <1>1, GivenIs, FilterType
<1>4. ToSet(given) = {t \in ToSet(r.tools) : t.form # "null"}
  <2>1. ToSet(given) = ToSet(r.tools) \cap GivenTool
    <3>1. ToSet(Filter(GivenTool, r.tools)) = ToSet(r.tools) \cap GivenTool
      BY <1>1, FilterMembers
    <3>. QED  BY <1>3, <3>1
  <2>2. \A t \in ToSet(r.tools) : t \in ToolType
    BY <1>1 DEF ToSet
  <2>. QED  BY <2>1, <2>2 DEF GivenTool
<1>5. given \in Seq(GivenTool)
  <2>1. \A i \in DOMAIN given : given[i] \in ToSet(given)
    BY DEF ToSet
  <2>2. \A i \in DOMAIN given : given[i] \in GivenTool
    BY <1>3, <1>4, <2>1 DEF GivenTool
  <2>3. given \in [1..Len(given) -> GivenTool] /\ Len(given) \in Nat
    BY <1>3, <2>2
  <2>. QED  BY <2>3, FunctionIsSeq
<1>6. Given(rawTools(r)) = given \o extra
  <2>1. rawTools(r) = r.tools \o extra
    BY DEF rawTools, Extra
  <2>2. Filter(GivenTool, r.tools \o extra) = Filter(GivenTool, r.tools) \o Filter(GivenTool, extra)
    BY <1>1, <1>2, FilterConcat
  <2>3. r.tools \o extra \in Seq(ToolType)
    BY <1>1, <1>2, ConcatFacts
  <2>. QED  BY <1>2, <1>3, <2>1, <2>2, <2>3, GivenIs
<1>7. convertTools(r) = [i \in DOMAIN (given \o extra) |-> flattenTool((given \o extra)[i])]
  BY <1>6 DEF convertTools, Given, Selected
<1>8. /\ DOMAIN (given \o extra) = 1..(Len(given) + Len(extra))
      /\ DOMAIN given \subseteq DOMAIN (given \o extra)
      /\ \A i \in DOMAIN given : (given \o extra)[i] = given[i]
      /\ \A i \in DOMAIN extra : /\ Len(given) + i \in DOMAIN (given \o extra)
                                /\ (given \o extra)[Len(given) + i] = extra[i]
  BY <1>2, <1>5, ConcatFacts
<1>9. /\ DOMAIN convertTools(r) = 1..(Len(given) + Len(extra))
      /\ \A i \in DOMAIN given : convertTools(r)[i] = flattenTool(given[i])
  BY <1>7, <1>8
<1>10. ASSUME AddSearch(r)
       PROVE  convertTools(r)[Len(given) + 1] = flattenTool(Tool("web_search", "flat", NoText))
  <2>1. 1 \in DOMAIN extra /\ extra[1] = Tool("web_search", "flat", NoText)
    BY <1>2, <1>10
  <2>. QED  BY <1>7, <1>8, <2>1
<1>. QED  BY <1>4, <1>5, <1>9, <1>10

\* What a search tool that is not refused becomes.
LEMMA SearchKept ==
    ASSUME NEW tool, isWebSearchType(tool), ~RefusedSearch(tool)
    PROVE  /\ flattenTool(tool).type = "web_search"
           /\ \A field \in Field : ToSet(flattenTool(tool).filters[field]) = NamedDomains(tool, field)
           /\ \E field \in Field : flattenTool(tool).filters[field] = <<>>
<1>1. flattenTool(tool) = SearchTool([field \in Field |-> Domains(tool, field)])
  BY DEF flattenTool, convertWebSearchTool
<1>2. /\ flattenTool(tool).type = "web_search"
      /\ \A field \in Field : flattenTool(tool).filters[field] = Domains(tool, field)
  BY <1>1 DEF SearchTool
<1>3. ASSUME NEW field \in Field PROVE ToSet(Domains(tool, field)) = NamedDomains(tool, field)
  <2>1. ToSet(<<>>) = {}
    BY DEF ToSet
  <2>2. ~Conflicting(tool, field)
    BY DEF RefusedSearch
  <2>. QED  BY <2>1, <2>2 DEF Domains, NamedDomains, Conflicting
<1>. QED  BY <1>2, <1>3 DEF RefusedSearch

LEMMA SearchesPosted ==
    ASSUME NEW r \in ChatRequest, ~Refused(r)
    PROVE  /\ \A i \in DOMAIN Given(r.tools) : isWebSearchType(Given(r.tools)[i]) =>
                /\ convertTools(r)[i].type = "web_search"
                /\ \A field \in Field :
                     ToSet(convertTools(r)[i].filters[field]) = NamedDomains(Given(r.tools)[i], field)
                /\ \E field \in Field : convertTools(r)[i].filters[field] = <<>>
           /\ \A i \in DOMAIN convertTools(r) :
                /\ i \in DOMAIN Given(r.tools) => ~isWebSearchType(Given(r.tools)[i])
                /\ convertTools(r)[i].type = "web_search"
                => /\ r.web_search_options
                   /\ i = Len(Given(r.tools)) + 1
                   /\ \A j \in DOMAIN Given(r.tools) :
                        isWebSearchType(Given(r.tools)[j]) => Given(r.tools)[j].type = "web_search_preview"
           /\ r.web_search_options => \E t \in ToSet(convertTools(r)) : t.type = "web_search"
           /\ Len(convertTools(r)) \in Len(Given(r.tools))..(Len(Given(r.tools)) + 1)
<1>. PICK given : given = Given(r.tools)
  OBVIOUS
<1>. PICK made : made = convertTools(r)
  OBVIOUS
<1>1. /\ given \in Seq(GivenTool) /\ DOMAIN made = 1..(Len(given) + Len(Extra(r)))
      /\ \A i \in DOMAIN given : made[i] = flattenTool(given[i]) /\ given[i] \in ToSet(r.tools)
      /\ AddSearch(r) => made[Len(given) + 1] = flattenTool(Tool("web_search", "flat", NoText))
  BY PostedTools DEF ToSet
<1>2. ASSUME NEW t \in ToSet(r.tools), isWebSearchType(t) PROVE ~RefusedSearch(t)
  BY <1>2 DEF Refused, ToSet
<1>3. Len(Extra(r)) = IF AddSearch(r) THEN 1 ELSE 0
  BY DEF Extra
<1>4. ASSUME r.web_search_options PROVE \E t \in ToSet(made) : t.type = "web_search"
  <2>1. CASE AddSearch(r)
    <3>1. Len(given) + 1 \in DOMAIN made
      BY <1>1, <1>3, <2>1
    <3>2. made[Len(given) + 1].type = "web_search"
      BY <1>1, <2>1 DEF flattenTool, isWebSearchType, convertWebSearchTool, SearchTool, Tool
    <3>. QED  BY <3>1, <3>2 DEF ToSet
  <2>2. CASE ~AddSearch(r)
    <3>1. PICK i \in DOMAIN r.tools : r.tools[i].type = "web_search"
      BY <1>4, <2>2 DEF AddSearch
    <3>2. r.tools[i] \in ToolType
      BY DEF ChatRequest
    <3>3. r.tools[i].form # "null"
      BY <3>1, <3>2 DEF ToolType, Tool
    <3>4. r.tools[i] \in ToSet(given)
      BY <3>3, PostedTools DEF ToSet
    <3>5. PICK j \in DOMAIN given : given[j].type = "web_search"
      BY <3>1, <3>4 DEF ToSet
    <3>6. made[j].type = "web_search" /\ j \in DOMAIN made
      <4>1. made[j] = flattenTool(given[j])
        BY <1>1
      <4>2. j \in 1..Len(given) /\ Len(given) \in Nat
        BY <1>1
      <4>. QED  BY <1>1, <1>3, <3>5, <4>1, <4>2
             DEF flattenTool, isWebSearchType, convertWebSearchTool, SearchTool
    <3>. QED  BY <3>6 DEF ToSet
  <2>. QED  BY <2>1, <2>2
<1>5. Len(made) \in Len(given)..(Len(given) + 1)
  <2>. PICK n : n = Len(given) + Len(Extra(r))
    OBVIOUS
  <2>1. Len(given) \in Nat /\ n \in Nat /\ n \in Len(given)..(Len(given) + 1)
    BY <1>1, <1>3
  <2>2. DOMAIN made = 1..n
    BY <1>1
  <2>3. made \in [1..n -> {made[i] : i \in 1..n}]
    <3>1. made = [i \in DOMAIN made |-> made[i]]
      BY DEF convertTools
    <3>. QED  BY <2>2, <3>1
  <2>. QED  BY <2>1, <2>3, FunctionLen
<1>6. ASSUME NEW i \in DOMAIN given, isWebSearchType(given[i])
      PROVE  /\ made[i].type = "web_search"
             /\ \A field \in Field : ToSet(made[i].filters[field]) = NamedDomains(given[i], field)
             /\ \E field \in Field : made[i].filters[field] = <<>>
  <2>1. ~RefusedSearch(given[i]) /\ made[i] = flattenTool(given[i])
    BY <1>1, <1>2, <1>6
  <2>. QED  BY <1>6, <2>1, SearchKept
<1>7. ASSUME NEW i \in DOMAIN made, i \in DOMAIN given => ~isWebSearchType(given[i]),
             made[i].type = "web_search"
      PROVE  /\ r.web_search_options
             /\ i = Len(given) + 1
             /\ \A j \in DOMAIN given :
                  isWebSearchType(given[j]) => given[j].type = "web_search_preview"
  <2>1. i \notin DOMAIN given
    <3>1. ASSUME i \in DOMAIN given PROVE FALSE
      <4>1. ~isWebSearchType(given[i]) /\ made[i] = flattenTool(given[i])
        BY <1>1, <1>7, <3>1
      <4>. QED  BY <1>7, <4>1 DEF flattenTool, isWebSearchType
    <3>. QED  BY <3>1
  <2>2. AddSearch(r) /\ i = Len(given) + 1
    <3>1. Len(given) \in Nat /\ DOMAIN given = 1..Len(given)
      BY <1>1
    <3>2. i \in 1..(Len(given) + Len(Extra(r))) /\ i \notin 1..Len(given)
      BY <1>1, <2>1, <3>1
    <3>. QED  BY <1>3, <3>1, <3>2
  <2>3. ASSUME NEW j \in DOMAIN given, isWebSearchType(given[j])
        PROVE  given[j].type = "web_search_preview"
    <3>1. given[j] \in ToSet(r.tools)
      BY <1>1
    <3>2. given[j].type # "web_search"
      BY <2>2, <3>1 DEF AddSearch, ToSet
    <3>. QED  BY <2>3, <3>2 DEF isWebSearchType
  <2>. QED  BY <2>2, <2>3 DEF AddSearch
<1>. QED  BY <1>4, <1>5, <1>6, <1>7

LEMMA ChoicePosted ==
    ASSUME NEW r \in ChatRequest,
           NEW t \in ToSet(r.tools), t.type = "function", t.form # "null",
           r.tool_choice.type = "function", t.name = r.tool_choice.name
    PROVE  \E u \in ToSet(convertTools(r)) :
             /\ u.type = flattenToolChoice(r.tool_choice).type
             /\ u.name = flattenToolChoice(r.tool_choice).name
             /\ u.name = r.tool_choice.name
<1>. PICK given : given = Given(r.tools)
  OBVIOUS
<1>1. t \in ToSet(given)
  BY PostedTools
<1>2. PICK i \in DOMAIN given : given[i] = t
  BY <1>1 DEF ToSet
<1>3. convertTools(r)[i] = flattenTool(t) /\ i \in DOMAIN convertTools(r)
  <2>1. given \in Seq(GivenTool) /\ DOMAIN convertTools(r) = 1..(Len(given) + Len(Extra(r)))
        /\ Len(Extra(r)) \in Nat
    BY PostedTools DEF Extra
  <2>2. i \in 1..(Len(given) + Len(Extra(r)))
    BY <2>1
  <2>. QED  BY <1>2, <2>1, <2>2, PostedTools
<1>4. flattenTool(t).type = "function" /\ flattenTool(t).name = t.name
  BY DEF flattenTool, isWebSearchType
<1>5. flattenToolChoice(r.tool_choice).type = "function"
        /\ flattenToolChoice(r.tool_choice).name = r.tool_choice.name
  BY DEF flattenToolChoice
<1>. QED  BY <1>3, <1>4, <1>5 DEF ToSet

-----------------------------------------------------------------------------
(* Sums of durations *)

\* What Total computes for n spans, with its values for fewer.
Summing(spans, n, f) ==
    f = [i \in 0..n |-> IF i = 0 THEN 0 ELSE f[i - 1] + Length(spans[i])]

LEMMA SummingAt ==
    ASSUME NEW spans, NEW n \in Nat, NEW f, Summing(spans, n, f), NEW i \in 0..n
    PROVE  f[i] = IF i = 0 THEN 0 ELSE f[i - 1] + Length(spans[i])
<1>. DEFINE h == [j \in 0..n |-> IF j = 0 THEN 0 ELSE f[j - 1] + Length(spans[j])]
<1>1. f = h
  BY DEF Summing
<1>2. h[i] = IF i = 0 THEN 0 ELSE f[i - 1] + Length(spans[i])
  OBVIOUS
<1>. HIDE DEF h
<1>. QED  BY <1>1, <1>2

LEMMA SummingExists ==
    ASSUME NEW spans, NEW n \in Nat
    PROVE  \E f : Summing(spans, n, f)
<1>. DEFINE S == {k \in Nat : \E f : Summing(spans, k, f)}
<1>1. 0 \in S
  <2>1. Summing(spans, 0, [i \in 0..0 |-> 0])
    BY DEF Summing
  <2>. QED  BY <2>1
<1>2. ASSUME NEW k \in Nat, k \in S PROVE k + 1 \in S
  <2>1. PICK f : Summing(spans, k, f)
    BY <1>2
  <2>. DEFINE g == [i \in 0..(k + 1) |-> IF i =< k THEN f[i] ELSE f[i - 1] + Length(spans[i])]
              h == [i \in 0..(k + 1) |-> IF i = 0 THEN 0 ELSE g[i - 1] + Length(spans[i])]
  <2>2. ASSUME NEW i \in 0..(k + 1) PROVE g[i] = IF i = 0 THEN 0 ELSE g[i - 1] + Length(spans[i])
    <3>1. CASE i = k + 1
      BY <3>1
    <3>2. CASE i =< k
      <4>0. i \in 0..k /\ (i # 0 => i - 1 \in 0..(k + 1) /\ i - 1 =< k)
        BY <3>2
      <4>1. f[i] = IF i = 0 THEN 0 ELSE f[i - 1] + Length(spans[i])
        BY <2>1, <4>0, SummingAt
      <4>. QED  BY <3>2, <4>0, <4>1
    <3>. QED  BY <3>1, <3>2
  <2>3. /\ g = [i \in 0..(k + 1) |-> g[i]] /\ h = [i \in 0..(k + 1) |-> h[i]]
        /\ \A i \in 0..(k + 1) : g[i] = h[i]
    BY <2>2
  <2>4. g = h
    <3>. HIDE DEF g, h
    <3>. QED  BY <2>3
  <2>5. Summing(spans, k + 1, g)
    <3>1. g = [i \in 0..(k + 1) |-> IF i = 0 THEN 0 ELSE g[i - 1] + Length(spans[i])]
      <4>. HIDE DEF g
      <4>. QED  BY <2>4 DEF h
    <3>. HIDE DEF g
    <3>. QED  BY <3>1 DEF Summing
  <2>. QED  BY <2>5
<1>. HIDE DEF S
<1>3. Nat \subseteq S
  BY <1>1, <1>2, SetInduction
<1>. QED  BY <1>3 DEF S

LEMMA TotalIs ==
    ASSUME NEW spans, Len(spans) \in Nat
    PROVE  \E f : Summing(spans, Len(spans), f) /\ Total(spans) = f[Len(spans)]
<1>1. \E f : Summing(spans, Len(spans), f)
  BY SummingExists
<1>2. PICK f : f = CHOOSE h : Summing(spans, Len(spans), h)
  OBVIOUS
<1>3. Summing(spans, Len(spans), f)
  BY <1>1, <1>2
<1>4. Total(spans) = f[Len(spans)]
  BY <1>2 DEF Total, Summing
<1>. QED  BY <1>3, <1>4

LEMMA TotalEmpty == Total(<<>>) = 0
<1>1. PICK f : Summing(<<>>, 0, f) /\ Total(<<>>) = f[0]
  BY TotalIs
<1>. QED  BY <1>1, SummingAt

LEMMA TotalAppend ==
    ASSUME NEW S, NEW spans \in Seq(S), NEW x \in S
    PROVE  Total(Append(spans, x)) = Total(spans) + Length(x)
<1>0. PICK n \in Nat : n = Len(spans)
  OBVIOUS
<1>. DEFINE more == Append(spans, x)
<1>1. Len(more) = n + 1 /\ more[n + 1] = x /\ \A i \in 1..n : more[i] = spans[i]
  BY <1>0
<1>. HIDE DEF more
<1>2. PICK f : Summing(spans, n, f) /\ Total(spans) = f[n]
  BY <1>0, TotalIs
<1>3. PICK g : Summing(more, n + 1, g) /\ Total(more) = g[n + 1]
  BY <1>1, TotalIs
<1>4. /\ \A i \in 0..n : f[i] = IF i = 0 THEN 0 ELSE f[i - 1] + Length(spans[i])
      /\ \A i \in 0..(n + 1) : g[i] = IF i = 0 THEN 0 ELSE g[i - 1] + Length(more[i])
  BY <1>2, <1>3, SummingAt
<1>. DEFINE T == {k \in Nat : k \in 0..n => f[k] = g[k]}
<1>5. 0 \in T
  <2>1. 0 \in 0..n /\ 0 \in 0..(n + 1)
    OBVIOUS
  <2>2. f[0] = 0 /\ g[0] = 0
    BY <1>4, <2>1
  <2>. QED  BY <2>2
<1>6. ASSUME NEW k \in Nat, k \in T PROVE k + 1 \in T
  BY <1>1, <1>4, <1>6
<1>7. Nat \subseteq T
  <2>. HIDE DEF T
  <2>. QED  BY <1>5, <1>6, SetInduction
<1>8. f[n] = g[n]
  BY <1>7
<1>9. g[n + 1] = g[n] + Length(x)
  <2>1. n + 1 \in 0..(n + 1) /\ n + 1 # 0 /\ (n + 1) - 1 = n
    OBVIOUS
  <2>. QED  BY <1>1, <1>4, <2>1
<1>. QED  BY <1>2, <1>3, <1>8, <1>9 DEF more

\* Durations that are none of the numbers too long.
FitSpan == [amount : Nat, unit : Unit]

LEMMA LengthType ==
    /\ \A span \in SpanType : Length(span) \in Int
    /\ \A span \in FitSpan : Length(span) \in Nat
<1>1. \A unit \in Unit : Seconds(unit) \in Nat
  BY RateLimitAssumption DEF Unit, Seconds
<1>2. \A a \in Nat \cup {TooLong}, b \in Nat : a * b \in Int /\ (a \in Nat => a * b \in Nat)
  BY DEF TooLong
<1>. QED  BY <1>1, <1>2 DEF Length, SpanType, FitSpan

LEMMA TotalType ==
    /\ \A spans \in Seq(SpanType) : Total(spans) \in Int
    /\ \A spans \in Seq(FitSpan) : Total(spans) \in Nat
<1>1. ASSUME NEW S, NEW R \in {Int, Nat}, \A x \in S : Length(x) \in R
      PROVE  \A spans \in Seq(S) : Total(spans) \in R
  <2>. DEFINE P == {u \in Seq(S) : Total(u) \in R}
  <2>1. <<>> \in P
    BY <1>1, TotalEmpty
  <2>2. ASSUME NEW u \in Seq(S), NEW x \in S, u \in P PROVE Append(u, x) \in P
    <3>1. Total(Append(u, x)) = Total(u) + Length(x) /\ Append(u, x) \in Seq(S)
      BY TotalAppend
    <3>. QED  BY <1>1, <2>2, <3>1
  <2>3. Seq(S) \subseteq P
    <3>. HIDE DEF P
    <3>. QED  BY <2>1, <2>2, SeqInduction
  <2>. QED  BY <2>3
<1>. QED  BY <1>1, LengthType

LEMMA TotalConcat ==
    ASSUME NEW s \in Seq(FitSpan), NEW t \in Seq(FitSpan)
    PROVE  Total(s \o t) = Total(s) + Total(t)
<1>. PICK S : S = FitSpan
  OBVIOUS
<1>. DEFINE P == {u \in Seq(S) : Total(s \o u) = Total(s) + Total(u)}
<1>1. <<>> \in P
  <2>1. s \o <<>> = s /\ Total(s) \in Nat /\ <<>> \in Seq(S)
    BY TotalType
  <2>. QED  BY <2>1, TotalEmpty
<1>2. ASSUME NEW u \in Seq(S), NEW x \in S, u \in P PROVE Append(u, x) \in P
  <2>1. s \o Append(u, x) = Append(s \o u, x) /\ s \o u \in Seq(S) /\ Append(u, x) \in Seq(S)
    OBVIOUS
  <2>2. Total(Append(s \o u, x)) = Total(s \o u) + Length(x)
    BY <2>1, TotalAppend
  <2>3. Total(Append(u, x)) = Total(u) + Length(x)
    BY TotalAppend
  <2>4. Total(s) \in Nat /\ Total(u) \in Nat /\ Length(x) \in Nat
    BY TotalType, LengthType
  <2>5. Total(s \o u) = Total(s) + Total(u)
    BY <1>2
  <2>6. Total(s \o Append(u, x)) = (Total(s) + Total(u)) + Length(x)
    BY <2>1, <2>2, <2>5
  <2>7. (Total(s) + Total(u)) + Length(x) = Total(s) + (Total(u) + Length(x))
    BY <2>4
  <2>8. Total(s \o Append(u, x)) = Total(s) + Total(Append(u, x))
    BY <2>3, <2>6, <2>7
  <2>. QED  BY <2>1, <2>8
<1>3. Seq(S) \subseteq P
  <2>. HIDE DEF P
  <2>. QED  BY <1>1, <1>2, SeqInduction
<1>. QED  BY <1>3

\* A sum over some of the texts is at most the sum over all of them; each text's is, too.
LEMMA TotalSome ==
    ASSUME NEW u \in Seq(Seq(FitSpan))
    PROVE  /\ \A j \in DOMAIN u : Total(u[j]) =< Total(FlattenSeq(u))
           /\ \A v \in Seq(Seq(FitSpan)) :
                Len(v) = Len(u) /\ (\A i \in DOMAIN u : v[i] \in {u[i], <<>>})
                  => Total(FlattenSeq(v)) =< Total(FlattenSeq(u))
<1>. PICK B : B = Seq(FitSpan)
  OBVIOUS
<1>. DEFINE Each(w) == \A j \in DOMAIN w : Total(w[j]) =< Total(FlattenSeq(w))
            Some(w) == \A v \in Seq(B) :
                         Len(v) = Len(w) /\ (\A i \in DOMAIN w : v[i] \in {w[i], <<>>})
                           => Total(FlattenSeq(v)) =< Total(FlattenSeq(w))
            P == {w \in Seq(B) : Each(w) /\ Some(w)}
<1>1. <<>> \in P
  <2>1. ASSUME NEW v \in Seq(B), Len(v) = 0 PROVE Total(FlattenSeq(v)) =< Total(FlattenSeq(<<>>))
    <3>1. v = <<>>
      BY <2>1, EmptySeq
    <3>. QED  BY <3>1, FlattenEmpty, TotalEmpty
  <2>2. Len(<<>>) = 0 /\ <<>> \in Seq(B)
    OBVIOUS
  <2>3. Some(<<>>)
    BY <2>1, <2>2
  <2>4. Each(<<>>)
    OBVIOUS
  <2>. HIDE DEF Each, Some
  <2>. QED  BY <2>2, <2>3, <2>4
<1>2. ASSUME NEW w \in Seq(B), NEW x \in B, w \in P PROVE Append(w, x) \in P
  <2>. DEFINE more == Append(w, x)
  <2>1. /\ more \in Seq(B) /\ Len(more) = Len(w) + 1 /\ more[Len(w) + 1] = x
        /\ \A i \in DOMAIN w : more[i] = w[i] /\ i \in DOMAIN more
        /\ \A i \in DOMAIN more : i \in DOMAIN w \/ i = Len(w) + 1
        /\ Len(w) + 1 \in DOMAIN more
    OBVIOUS
  <2>2. ASSUME NEW s \in Seq(B), NEW y \in B
        PROVE  /\ Total(FlattenSeq(Append(s, y))) = Total(FlattenSeq(s)) + Total(y)
               /\ Total(FlattenSeq(s)) \in Nat /\ Total(y) \in Nat
    <3>1. FlattenSeq(s) \in B /\ FlattenSeq(Append(s, y)) = FlattenSeq(s) \o y
      BY FlattenAppend
    <3>. QED  BY <3>1, TotalConcat, TotalType
  <2>3. /\ Total(FlattenSeq(more)) = Total(FlattenSeq(w)) + Total(x)
        /\ Total(FlattenSeq(w)) \in Nat /\ Total(x) \in Nat
    BY <2>2
  <2>. HIDE DEF more
  <2>4. ASSUME NEW j \in DOMAIN more PROVE Total(more[j]) =< Total(FlattenSeq(more))
    <3>1. CASE j \in DOMAIN w
      <4>1. Total(w[j]) =< Total(FlattenSeq(w)) /\ Total(w[j]) \in Nat
        BY <1>2, <3>1, TotalType
      <4>. QED  BY <2>1, <2>3, <3>1, <4>1
    <3>2. CASE j = Len(w) + 1
      BY <2>1, <2>3, <3>2
    <3>. QED  BY <2>1, <3>1, <3>2
  <2>5. ASSUME NEW v \in Seq(B), Len(v) = Len(more), \A i \in DOMAIN more : v[i] \in {more[i], <<>>}
        PROVE  Total(FlattenSeq(v)) =< Total(FlattenSeq(more))
    <3>1. v # <<>>
      BY <2>1, <2>5
    <3>2. PICK s \in Seq(B), y \in B : v = Append(s, y)
      BY <3>1, SequenceEmptyOrAppend
    <3>3. Len(s) = Len(w) /\ v[Len(w) + 1] = y /\ \A i \in DOMAIN w : v[i] = s[i]
      BY <2>1, <2>5, <3>2
    <3>4. y \in {x, <<>>} /\ \A i \in DOMAIN w : s[i] \in {w[i], <<>>}
      BY <2>1, <2>5, <3>3
    <3>5. Total(FlattenSeq(s)) =< Total(FlattenSeq(w))
      BY <1>2, <3>3, <3>4
    <3>6. Total(FlattenSeq(v)) = Total(FlattenSeq(s)) + Total(y) /\ Total(FlattenSeq(s)) \in Nat
      BY <2>2, <3>2
    <3>7. Total(y) \in {Total(x), 0}
      BY <3>4, TotalEmpty
    <3>. QED  BY <2>3, <3>5, <3>6, <3>7
  <2>. QED  BY <2>1, <2>4, <2>5 DEF more
<1>3. Seq(B) \subseteq P
  <2>. HIDE DEF P
  <2>. QED  BY <1>1, <1>2, SeqInduction
<1>4. u \in P
  BY <1>3
<1>. QED  BY <1>4

-----------------------------------------------------------------------------
(* The texts of a reply that limits the account *)

UsableText == {t \in TextType : Usable(t)}
UsageText == {t \in TextType : t.usage # "none"}
Usages(body) == Selected(body.texts, LAMBDA t : t.usage # "none")

LEMMA SelectedTexts ==
    ASSUME NEW texts \in Seq(TextType)
    PROVE  /\ Selected(texts, Usable) = Filter(UsableText, texts)
           /\ Selected(texts, LAMBDA t : t.usage # "none") = Filter(UsageText, texts)
<1>1. \A i \in DOMAIN texts : /\ texts[i] \in UsableText <=> Usable(texts[i])
                              /\ texts[i] \in UsageText <=> texts[i].usage # "none"
  BY DEF UsableText, UsageText
<1>2. [i \in DOMAIN texts |-> IF Usable(texts[i]) THEN <<texts[i]>> ELSE <<>>]
        = [i \in DOMAIN texts |-> IF texts[i] \in UsableText THEN <<texts[i]>> ELSE <<>>]
  BY <1>1
<1>3. [i \in DOMAIN texts |-> IF texts[i].usage # "none" THEN <<texts[i]>> ELSE <<>>]
        = [i \in DOMAIN texts |-> IF texts[i] \in UsageText THEN <<texts[i]>> ELSE <<>>]
  BY <1>1
<1>. QED  BY <1>2, <1>3 DEF Selected, Filter

\* A set written as a sequence without repetitions is written in full.
LEMMA AnyOrder ==
    ASSUME NEW A, NEW s \in Seq(A), NEW p \in SetToSeqs(ToSet(s))
    PROVE  p \in Seq(A) /\ ToSet(p) = ToSet(s)
<1>. PICK S : S = ToSet(s)
  OBVIOUS
<1>1. S \subseteq A
  BY DEF ToSet
<1>2. IsFiniteSet(S)
  <2>1. s \in Surjection(1..Len(s), S)
    BY DEF ToSet, Surjection
  <2>. QED  BY <2>1, FS_NatSurjection DEF ExistsSurjection
<1>3. PICK n \in Nat : n = Cardinality(S)
  BY <1>2, FS_CardinalityType
<1>4. p \in [1..n -> S] /\ \A i, j \in 1..n : i # j => p[i] # p[j]
  BY <1>3 DEF SetToSeqs
<1>5. p \in Injection(1..n, S)
  BY <1>4 DEF Injection, IsInjective
<1>6. Cardinality(1..n) = n
  BY FS_Interval
<1>7. p \in Surjection(1..n, S)
  BY <1>2, <1>3, <1>5, <1>6, FS_Injection
<1>8. ToSet(p) = S
  BY <1>4, <1>7 DEF ToSet, Surjection
<1>9. p \in [1..n -> A]
  BY <1>1, <1>4
<1>. QED  BY <1>8, <1>9, FunctionIsSeq

LEMMA RawIsText ==
    ASSUME NEW body \in LimitBody
    PROVE  /\ RawText(body) \in TextType
           /\ Usable(RawText(body)) <=>
                ~body.escaped /\ Usages(body) # <<>> /\ Usable(Usages(body)[1])
<1>1. /\ body.texts \in Seq(TextType) /\ body.stray \in Seq(SpanType) /\ body.escaped \in BOOLEAN
  BY DEF LimitBody
<1>. DEFINE usages == Usages(body)
            marks == {i \in DOMAIN body.texts : body.texts[i].marked}
            after == {i \in DOMAIN body.texts : \E j \in marks : j =< i}
            parts == [i \in DOMAIN body.texts |-> IF i \in after THEN body.texts[i].spans ELSE <<>>]
            drawn == IF body.escaped \/ usages = <<>> THEN "none" ELSE usages[1].usage
<1>2. RawText(body) = Text(drawn, marks # {}, FlattenSeq(parts) \o body.stray)
  BY DEF RawText, Usages
<1>3. parts \in Seq(Seq(SpanType))
  <2>. PICK n \in Nat : DOMAIN body.texts = 1..n
    BY <1>1
  <2>1. parts \in [1..n -> Seq(SpanType)]
    <3>1. \A i \in 1..n : body.texts[i].spans \in Seq(SpanType)
      <4>1. \A i \in DOMAIN body.texts : body.texts[i] \in TextType
        BY <1>1
      <4>. HIDE DEF parts, after, marks, usages, drawn
      <4>. QED  BY <4>1 DEF TextType
    <3>2. <<>> \in Seq(SpanType)
      BY ShortSeqs
    <3>3. parts = [i \in 1..n |-> IF i \in after THEN body.texts[i].spans ELSE <<>>]
      OBVIOUS
    <3>4. ASSUME NEW i \in 1..n PROVE parts[i] \in Seq(SpanType)
      <4>1. parts[i] = IF i \in after THEN body.texts[i].spans ELSE <<>>
        OBVIOUS
      <4>. HIDE DEF after, parts
      <4>. QED  BY <3>1, <3>2, <4>1
    <3>. HIDE DEF after
    <3>. QED  BY <3>4
  <2>. QED
    <3>. HIDE DEF parts
    <3>. QED  BY <2>1, FunctionIsSeq
<1>4. usages = Filter(UsageText, body.texts)
  BY <1>1, SelectedTexts DEF Usages
<1>5. usages # <<>> => usages[1] \in TextType
  <2>1. Filter(UsageText, body.texts) # <<>> => Filter(UsageText, body.texts)[1] \in UsageText
    BY <1>1, FilterNonempty
  <2>. QED  BY <1>4, <2>1 DEF UsageText
<1>6. FlattenSeq(parts) \in Seq(SpanType)
  <2>. HIDE DEF parts
  <2>1. <<>> \in Seq(SpanType)
    BY ShortSeqs
  <2>. QED  BY <1>3, <2>1, FlattenAppend
<1>7. FlattenSeq(parts) \o body.stray \in Seq(SpanType)
  <2>. HIDE DEF parts
  <2>. QED  BY <1>1, <1>6, ConcatFacts
<1>. HIDE DEF parts, marks, usages
<1>8. drawn \in {"none", "unreadable", "Second", "Minute"} /\ (marks # {}) \in BOOLEAN
  BY <1>5 DEF TextType
<1>9. RawText(body) \in TextType
  BY <1>2, <1>7, <1>8 DEF TextType, Text
<1>10. RawText(body).usage = drawn
  BY <1>2 DEF Text
<1>. QED  BY <1>9, <1>10 DEF Usable, usages

LEMMA TextsTried ==
    ASSUME NEW body \in LimitBody, NEW texts \in Tried(body)
    PROVE  \E rest \in Seq(TextType) :
             /\ texts = <<RawText(body)>> \o rest
             /\ body.shape = "text" => rest = <<>>
             /\ body.shape = "array" => rest = body.texts
             /\ body.shape = "object" => ToSet(rest) = ToSet(body.texts)
<1>1. body.shape \in {"text", "array", "object"} /\ body.texts \in Seq(TextType)
  BY DEF LimitBody
<1>2. CASE body.shape = "text"
  <2>1. texts = <<RawText(body)>> \o <<>> /\ <<>> \in Seq(TextType)
    BY <1>2, ShortSeqs DEF Tried
  <2>. QED  BY <1>2, <2>1
<1>3. CASE body.shape = "array"
  <2>1. texts = <<RawText(body)>> \o body.texts
    BY <1>3 DEF Tried
  <2>. QED  BY <1>1, <1>3, <2>1
<1>4. CASE body.shape = "object"
  <2>1. PICK rest \in SetToSeqs(ToSet(body.texts)) : texts = <<RawText(body)>> \o rest
    BY <1>4 DEF Tried
  <2>2. rest \in Seq(TextType) /\ ToSet(rest) = ToSet(body.texts)
    BY <1>1, AnyOrder
  <2>. QED  BY <1>4, <2>1, <2>2
<1>. QED  BY <1>1, <1>2, <1>3, <1>4

\* The text that is used is one that is heeded, or the body as it came, where the text
\* with its first sentence is heeded and no other.
LEMMA TextUsed ==
    ASSUME NEW body \in LimitBody, NEW texts \in Tried(body)
    PROVE  /\ Heeded(body) \subseteq ToSet(body.texts) \cap UsableText
           /\ Heeded(body) = {} => ParseRateLimitMetadata(texts) = <<>>
           /\ Heeded(body) # {} => \E t \in Heeded(body) :
                \/ /\ ParseRateLimitMetadata(texts) = <<t>>
                   /\ ~Usable(RawText(body))
                \/ /\ ParseRateLimitMetadata(texts) = <<RawText(body)>>
                   /\ Usable(RawText(body)) /\ Heeded(body) = {t}
<1>. PICK given : given = body.texts
  OBVIOUS
<1>. DEFINE raw == RawText(body)
            usages == Usages(body)
            usable == Filter(UsableText, given)
<1>1. /\ given \in Seq(TextType) /\ raw \in TextType
      /\ body.shape \in {"text", "array", "object"} /\ body.escaped \in BOOLEAN
      /\ body.escaped => body.shape # "text"
      /\ Usable(raw) <=> ~body.escaped /\ usages # <<>> /\ Usable(usages[1])
  BY RawIsText DEF LimitBody
<1>2. /\ Selected(given, Usable) = usable /\ usages = Filter(UsageText, given)
      /\ ToSet(usable) = ToSet(given) \cap UsableText
      /\ usable # <<>> => usable[1] \in ToSet(given) \cap UsableText
      /\ usable # <<>> => usable[1] \in ToSet(usable)
      /\ usages # <<>> => usages[1] \in ToSet(given) \cap UsageText
  BY <1>1, SelectedTexts, FilterMembers, FilterNonempty DEF Usages
<1>3. PICK rest \in Seq(TextType) :
        /\ texts = <<raw>> \o rest
        /\ body.shape = "text" => rest = <<>>
        /\ body.shape = "array" => rest = given
        /\ body.shape = "object" => ToSet(rest) = ToSet(given)
  BY TextsTried
<1>4. /\ raw \in UsableText <=> Usable(raw)
      /\ Selected(texts, Usable) = Filter(UsableText, texts)
  <2>1. <<raw>> \in Seq(TextType)
    BY <1>1, ShortSeqs
  <2>2. texts \in Seq(TextType)
    <3>. PICK o \in Seq(TextType) : o = <<raw>>
      BY <2>1
    <3>1. o \o rest \in Seq(TextType)
      BY ConcatFacts
    <3>. QED  BY <1>3, <3>1
  <2>. QED  BY <1>1, <2>2, SelectedTexts DEF UsableText
<1>5. Heeded(body) =
        CASE usable = <<>> -> {}
          [] usable # <<>> /\ ~body.escaped /\ Usable(usages[1]) -> {usages[1]}
          [] OTHER -> CASE body.shape = "text" -> {}
                        [] body.shape = "array" -> {usable[1]}
                        [] body.shape = "object" -> ToSet(usable)
  BY <1>2 DEF Heeded, Usages
<1>6. usable # <<>> => usages # <<>>
  <2>1. ASSUME usable # <<>> PROVE usages # <<>>
    <3>1. usable[1] \in ToSet(given) \cap UsageText
      BY <1>2, <2>1 DEF UsableText, UsageText, Usable
    <3>2. usable[1] \in ToSet(Filter(UsageText, given))
      BY <1>1, <3>1, FilterMembers
    <3>. QED  BY <1>2, <3>2 DEF ToSet
  <2>. QED  BY <2>1
<1>7. Usable(raw) => usable # <<>> /\ usages[1] \in ToSet(given) \cap UsableText
  <2>1. ASSUME Usable(raw) PROVE usages[1] \in ToSet(given) \cap UsableText
    BY <1>1, <1>2, <2>1 DEF UsableText, UsageText
  <2>2. ASSUME Usable(raw) PROVE usable # <<>>
    BY <1>2, <2>1, <2>2 DEF ToSet
  <2>. QED  BY <2>1, <2>2
<1>8. PICK sel : sel = Selected(texts, Usable)
  OBVIOUS
<1>9. ParseRateLimitMetadata(texts) = IF sel = <<>> THEN <<>> ELSE <<sel[1]>>
  BY <1>8 DEF ParseRateLimitMetadata
<1>10. /\ Usable(raw) => sel # <<>> /\ sel[1] = raw
       /\ ~Usable(raw) => sel = Filter(UsableText, rest)
  BY <1>1, <1>3, <1>4, <1>8, FilterBehind
<1>. HIDE DEF raw, usages, usable
<1>11. CASE Usable(raw)
  <2>1. Heeded(body) = {usages[1]}
    BY <1>1, <1>5, <1>7, <1>11
  <2>2. ParseRateLimitMetadata(texts) = <<raw>>
    BY <1>9, <1>10, <1>11
  <2>. QED  BY <1>7, <1>11, <2>1, <2>2 DEF raw
<1>12. CASE ~Usable(raw)
  <2>1. sel = Filter(UsableText, rest)
    BY <1>10, <1>12
  <2>2. CASE body.shape = "text"
    <3>1. Heeded(body) = {} /\ sel = <<>>
      BY <1>1, <1>3, <1>5, <1>6, <1>12, <2>1, <2>2, FilterEmpty
    <3>. QED  BY <1>9, <3>1
  <2>3. CASE body.shape = "array"
    <3>1. sel = usable
      BY <1>3, <2>1, <2>3 DEF usable
    <3>2. Heeded(body) = IF usable = <<>> THEN {} ELSE {usable[1]}
      BY <1>1, <1>5, <1>6, <1>12, <2>3
    <3>. QED  BY <1>2, <1>9, <1>12, <3>1, <3>2 DEF raw
  <2>4. CASE body.shape = "object"
    <3>1. ToSet(sel) = ToSet(usable)
      BY <1>1, <1>2, <1>3, <2>1, <2>4, FilterMembers DEF usable
    <3>2. Heeded(body) = ToSet(usable)
      <4>1. ToSet(<<>>) = {}
        BY DEF ToSet
      <4>. QED  BY <1>1, <1>5, <1>6, <1>12, <2>4, <4>1
    <3>3. sel # <<>> => sel[1] \in ToSet(sel)
      <4>1. sel \in Seq(TextType)
        BY <1>3, <2>1, FilterType
      <4>. QED  BY <4>1 DEF ToSet
    <3>4. sel = <<>> => ToSet(usable) = {}
      BY <3>1 DEF ToSet
    <3>5. sel # <<>> => ToSet(usable) # {}
      BY <3>1, <3>3
    <3>. QED  BY <1>2, <1>9, <1>12, <3>1, <3>2, <3>3, <3>4, <3>5 DEF raw
  <2>. QED  BY <1>1, <2>2, <2>3, <2>4
<1>. QED  BY <1>11, <1>12

-----------------------------------------------------------------------------
(* The wait *)

\* A duration below the width of int64 is kept, and every result lies within it.
LEMMA WrapIs ==
    /\ \A n \in Nat : n < Half => Wrap(n) = n
    /\ \A n \in Int : Wrap(n) \in (-Half)..(Half - 1)
  BY RateLimitAssumption DEF Wrap

LEMMA TextWait ==
    ASSUME NEW text \in TextType
    PROVE  /\ parseRateLimitText(text) \in 1..(Half - 1)
           /\ Total(text.spans) \in Nat /\ Total(text.spans) < Half =>
                parseRateLimitText(text) >= Announced429(text)
<1>1. 2 < Half /\ Minute \in 1..(Half - 1) /\ Half \in Nat
  BY RateLimitAssumption
<1>2. Total(text.spans) \in Int /\ text.marked \in BOOLEAN
  BY TotalType DEF TextType
<1>. PICK total : total = Total(text.spans)
  OBVIOUS
<1>. PICK parsed : parsed = rateLimitResetAfter(text)
  OBVIOUS
<1>3. parsed \in (-Half)..(Half - 1)
  BY <1>1, <1>2, WrapIs DEF rateLimitResetAfter
<1>4. total \in Nat /\ total < Half => parsed = Announced429(text)
  BY <1>2, WrapIs DEF rateLimitResetAfter, Announced429
<1>5. parseRateLimitText(text) = IF parsed =< 0 THEN (IF text.usage = "Second" THEN 2 ELSE Minute)
        ELSE IF text.usage = "Second" THEN AtLeast(2, parsed) ELSE parsed
  BY DEF parseRateLimitText
<1>6. parseRateLimitText(text) \in 1..(Half - 1) /\ parseRateLimitText(text) >= parsed
  BY <1>1, <1>3, <1>5 DEF AtLeast
<1>. QED  BY <1>2, <1>4, <1>6

\* The sum over the body as it came covers every text behind the first mark, and is
\* covered by the sum over everything.
LEMMA RawCovers ==
    ASSUME NEW body \in LimitBody,
           \A span \in ToSet(AllSpans(body)) : span.amount # TooLong
    PROVE  /\ Total(RawText(body).spans) \in Nat /\ Total(AllSpans(body)) \in Nat
           /\ Total(RawText(body).spans) =< Total(AllSpans(body))
           /\ \A t \in ToSet(body.texts) :
                /\ Total(t.spans) \in Nat /\ Total(t.spans) =< Total(AllSpans(body))
                /\ Announced429(t) =< Announced429(RawText(body))
<1>. PICK texts : texts = body.texts
  OBVIOUS
<1>. PICK stray : stray = body.stray
  OBVIOUS
<1>. PICK raw : raw = RawText(body)
  OBVIOUS
<1>. DEFINE u == [i \in DOMAIN texts |-> texts[i].spans]
            marks == {i \in DOMAIN texts : texts[i].marked}
            after == {i \in DOMAIN texts : \E j \in marks : j =< i}
            v == [i \in DOMAIN texts |-> IF i \in after THEN texts[i].spans ELSE <<>>]
<1>1. /\ texts \in Seq(TextType) /\ stray \in Seq(SpanType)
      /\ \A i \in DOMAIN texts : texts[i] \in TextType
  BY DEF LimitBody
<1>2. raw.spans = FlattenSeq(v) \o stray /\ raw.marked = (marks # {})
  BY DEF RawText, Text
<1>3. AllSpans(body) = FlattenSeq(u) \o stray
  BY DEF AllSpans
<1>4. /\ DOMAIN u = DOMAIN texts /\ \A i \in DOMAIN texts : u[i] = texts[i].spans
      /\ DOMAIN v = DOMAIN texts
      /\ \A i \in DOMAIN texts : v[i] = IF i \in after THEN texts[i].spans ELSE <<>>
  OBVIOUS
<1>5. \A i \in DOMAIN texts : texts[i].marked => i \in after
  <2>1. \A i \in DOMAIN texts : i =< i
    BY <1>1
  <2>. QED  BY <2>1
<1>6. \A i \in DOMAIN texts : texts[i].marked => raw.marked
  BY <1>2
<1>. HIDE DEF u, v, after, marks
<1>. PICK n \in Nat : DOMAIN texts = 1..n
  BY <1>1
<1>7. u \in Seq(Seq(SpanType))
  <2>1. u \in [1..n -> Seq(SpanType)]
    <3>1. \A i \in 1..n : u[i] \in Seq(SpanType)
      BY <1>1, <1>4 DEF TextType
    <3>. QED  BY <1>4, <3>1 DEF u
  <2>. QED  BY <2>1, FunctionIsSeq
<1>8. FlattenSeq(u) \in Seq(SpanType) /\ ToSet(FlattenSeq(u)) = UNION {ToSet(s) : s \in ToSet(u)}
  <2>1. <<>> \in Seq(SpanType)
    BY ShortSeqs
  <2>. QED  BY <1>7, <2>1, FlattenAppend, FlattenMembers
<1>9. ToSet(AllSpans(body)) = ToSet(FlattenSeq(u)) \cup ToSet(stray)
  <2>. PICK w \in Seq(SpanType) : w = FlattenSeq(u)
    BY <1>8
  <2>1. ToSet(w \o stray) = ToSet(w) \cup ToSet(stray)
    BY <1>1, ToSetConcat
  <2>. QED  BY <1>3, <2>1
<1>10. ASSUME NEW s \in Seq(SpanType), ToSet(s) \subseteq ToSet(AllSpans(body))
       PROVE  s \in Seq(FitSpan)
  <2>1. \A i \in DOMAIN s : s[i] \in ToSet(s) /\ s[i] \in SpanType
    BY <1>10 DEF ToSet
  <2>2. \A i \in DOMAIN s : s[i].amount # TooLong
    BY <1>10, <2>1
  <2>3. \A i \in DOMAIN s : s[i] \in FitSpan
    BY <2>1, <2>2 DEF SpanType, FitSpan
  <2>4. s \in [1..Len(s) -> FitSpan] /\ Len(s) \in Nat
    BY <2>3
  <2>. QED  BY <2>4, FunctionIsSeq
<1>11. stray \in Seq(FitSpan)
  BY <1>1, <1>9, <1>10
<1>12. ASSUME NEW i \in 1..n PROVE u[i] \in Seq(FitSpan)
  <2>1. u[i] \in Seq(SpanType)
    BY <1>1, <1>4 DEF TextType
  <2>2. u[i] \in ToSet(u)
    BY <1>4 DEF ToSet
  <2>3. ToSet(u[i]) \subseteq ToSet(FlattenSeq(u))
    BY <1>8, <2>2
  <2>. QED  BY <1>9, <1>10, <2>1, <2>3
<1>13. u \in Seq(Seq(FitSpan)) /\ v \in Seq(Seq(FitSpan)) /\ Len(u) = n /\ Len(v) = n
  <2>1. u \in [1..n -> Seq(FitSpan)]
    BY <1>4, <1>12 DEF u
  <2>2. \A i \in 1..n : v[i] \in Seq(FitSpan)
    <3>1. <<>> \in Seq(FitSpan)
      BY ShortSeqs
    <3>. QED  BY <1>4, <1>12, <3>1
  <2>3. v \in [1..n -> Seq(FitSpan)]
    BY <1>4, <2>2 DEF v
  <2>. QED  BY <2>1, <2>3, FunctionIsSeq, FunctionLen
<1>14. /\ \A i \in 1..n : Total(u[i]) =< Total(FlattenSeq(u))
       /\ \A i \in 1..n : Total(v[i]) =< Total(FlattenSeq(v))
       /\ Total(FlattenSeq(v)) =< Total(FlattenSeq(u))
  <2>1. \A i \in DOMAIN u : v[i] \in {u[i], <<>>}
    BY <1>4
  <2>. QED  BY <1>4, <1>13, <2>1, TotalSome
<1>15. ASSUME NEW w \in Seq(Seq(FitSpan))
       PROVE  /\ Total(FlattenSeq(w) \o stray) = Total(FlattenSeq(w)) + Total(stray)
              /\ Total(FlattenSeq(w)) \in Nat /\ Total(stray) \in Nat
  <2>1. <<>> \in Seq(FitSpan)
    BY ShortSeqs
  <2>2. FlattenSeq(w) \in Seq(FitSpan)
    BY <2>1, FlattenAppend
  <2>. QED  BY <1>11, <2>2, TotalConcat, TotalType
<1>16. /\ Total(raw.spans) = Total(FlattenSeq(v)) + Total(stray)
       /\ Total(AllSpans(body)) = Total(FlattenSeq(u)) + Total(stray)
       /\ Total(FlattenSeq(v)) \in Nat /\ Total(FlattenSeq(u)) \in Nat /\ Total(stray) \in Nat
  BY <1>2, <1>3, <1>13, <1>15
<1>17. ASSUME NEW t \in ToSet(texts)
       PROVE  /\ Total(t.spans) \in Nat /\ Total(t.spans) =< Total(AllSpans(body))
              /\ Announced429(t) =< Announced429(raw)
  <2>1. PICK i \in 1..n : texts[i] = t
    BY DEF ToSet
  <2>2. t.spans = u[i] /\ Total(t.spans) \in Nat /\ Total(t.spans) =< Total(FlattenSeq(u))
    BY <1>4, <1>12, <1>14, <2>1, TotalType
  <2>3. CASE t.marked
    <3>1. v[i] = t.spans /\ raw.marked
      BY <1>4, <1>5, <1>6, <2>1, <2>3
    <3>2. Total(t.spans) =< Total(FlattenSeq(v))
      BY <1>14, <3>1
    <3>. QED  BY <1>16, <2>2, <2>3, <3>1, <3>2 DEF Announced429
  <2>4. CASE ~t.marked
    <3>1. Announced429(t) = 0 /\ Announced429(raw) \in Nat
      BY <1>16, <2>4 DEF Announced429
    <3>. QED  BY <1>16, <2>2, <3>1
  <2>. QED  BY <2>3, <2>4
<1>. QED  BY <1>14, <1>16, <1>17

\* What Retry-After asks for.
LEMMA HeaderWait ==
    ASSUME NEW header \in LimitHeader
    PROVE  /\ \A h \in parseRetryAfterHeader(header) :
                h = <<>> \/ \E m \in 0..(Half - 1) : h = <<m>>
           /\ header.form = "seconds" /\ header.n > 0 /\ header.n < Half =>
                parseRetryAfterHeader(header) = {<<header.n>>}
           /\ header.form = "date" /\ header.n > 0 =>
                \A h \in parseRetryAfterHeader(header) : h # <<>> /\ h[1] >= header.n - 1
           /\ ~(header.form \in {"seconds", "date"} /\ header.n > 0) =>
                parseRetryAfterHeader(header) = {<<>>}
           /\ header.form # "date" => \E h : parseRetryAfterHeader(header) = {h}
<1>1. /\ header.n \in Nat /\ header.form \in {"absent", "seconds", "other", "date"}
      /\ header.form = "date" => header.n \in 0..(Half - 1)
  BY DEF LimitHeader
<1>2. Wrap(header.n) \in (-Half)..(Half - 1) /\ (header.n < Half => Wrap(header.n) = header.n)
        /\ Half \in Nat /\ 0 < Half
  BY <1>1, WrapIs, RateLimitAssumption
<1>3. CASE header.form = "seconds"
  <2>1. parseRetryAfterHeader(header) = IF Wrap(header.n) > 0 THEN {<<Wrap(header.n)>>} ELSE {<<>>}
    BY <1>3 DEF parseRetryAfterHeader
  <2>2. Wrap(header.n) > 0 => Wrap(header.n) \in 0..(Half - 1)
    BY <1>2
  <2>3. header.n = 0 => ~(Wrap(header.n) > 0)
    BY <1>2
  <2>4. CASE Wrap(header.n) > 0
    <3>1. parseRetryAfterHeader(header) = {<<Wrap(header.n)>>} /\ header.n > 0
      BY <1>1, <2>1, <2>3, <2>4
    <3>2. header.n < Half => parseRetryAfterHeader(header) = {<<header.n>>}
      BY <1>2, <3>1
    <3>. QED  BY <1>3, <2>2, <2>4, <3>1, <3>2
  <2>5. CASE ~(Wrap(header.n) > 0)
    <3>1. parseRetryAfterHeader(header) = {<<>>} /\ ~(header.n > 0 /\ header.n < Half)
      BY <1>2, <2>1, <2>5
    <3>. QED  BY <1>3, <3>1
  <2>. QED  BY <2>4, <2>5
<1>4. CASE header.form = "date"
  <2>1. parseRetryAfterHeader(header) =
          IF header.n > 0 THEN {<<header.n>>, <<header.n - 1>>} ELSE {<<>>}
    BY <1>4 DEF parseRetryAfterHeader
  <2>2. header.n > 0 => header.n \in 0..(Half - 1) /\ header.n - 1 \in 0..(Half - 1)
    BY <1>1, <1>2, <1>4
  <2>3. <<header.n>>[1] = header.n /\ <<header.n - 1>>[1] = header.n - 1
    OBVIOUS
  <2>. QED  BY <1>1, <1>4, <2>1, <2>2, <2>3
<1>5. CASE header.form \notin {"seconds", "date"}
  <2>1. parseRetryAfterHeader(header) = {<<>>}
    BY <1>5 DEF parseRetryAfterHeader
  <2>. QED  BY <1>5, <2>1
<1>. QED  BY <1>3, <1>4, <1>5

LimitType == [status : {429, 503}, header : LimitHeader, body : LimitBody]

\* What NeverEarly and OneOutcome say of one reply and one cooldown it can lead to.
NotEarly(limit, c) ==
    limit.status = 429 /\ Fits(limit) /\ Heeded(limit.body) # {} =>
        CASE limit.header.form = "seconds" /\ limit.header.n > 0 -> c >= limit.header.n
          [] limit.header.form = "date" /\ limit.header.n > 0 -> c >= limit.header.n - 1
          [] OTHER -> \E t \in Heeded(limit.body) : c >= Announced429(t)

Unambiguous(limit, c) ==
    limit.header.form # "date" /\ (\A t, u \in Heeded(limit.body) : t = u) =>
        Cooldowns(limit.status, limit.header, limit.body) = {c}

\* The wait for the text that is used, whichever order the texts are tried in.
LEMMA UsedWait ==
    ASSUME NEW limit \in LimitType, NEW texts \in Tried(limit.body), Heeded(limit.body) # {}
    PROVE  \E used \in TextType : \E t \in Heeded(limit.body) :
             /\ ParseRateLimitMetadata(texts) = <<used>>
             /\ used = IF Usable(RawText(limit.body)) THEN RawText(limit.body) ELSE t
             /\ Usable(RawText(limit.body)) => Heeded(limit.body) = {t}
             /\ Fits(limit) => parseRateLimitText(used) >= Announced429(t)
<1>1. limit.body \in LimitBody
  BY DEF LimitType
<1>. PICK body \in LimitBody : body = limit.body
  BY <1>1
<1>2. PICK t \in Heeded(body) :
        \/ ParseRateLimitMetadata(texts) = <<t>> /\ ~Usable(RawText(body))
        \/ /\ ParseRateLimitMetadata(texts) = <<RawText(body)>>
           /\ Usable(RawText(body)) /\ Heeded(body) = {t}
  BY TextUsed
<1>3. t \in ToSet(body.texts) /\ t \in TextType
  BY TextUsed DEF UsableText
<1>4. ASSUME Fits(limit)
      PROVE  /\ parseRateLimitText(t) >= Announced429(t)
             /\ parseRateLimitText(RawText(body)) >= Announced429(t)
  <2>1. /\ \A span \in ToSet(AllSpans(body)) : span.amount # TooLong
        /\ Total(AllSpans(body)) < Half
    BY <1>4 DEF Fits
  <2>2. /\ Total(RawText(body).spans) \in Nat
        /\ Total(RawText(body).spans) =< Total(AllSpans(body))
        /\ Total(t.spans) \in Nat /\ Total(t.spans) =< Total(AllSpans(body))
        /\ Announced429(t) =< Announced429(RawText(body))
    BY <1>3, <2>1, RawCovers
  <2>4. Total(AllSpans(body)) \in Nat /\ Half \in Nat
    BY <2>1, RawCovers, RateLimitAssumption
  <2>5. Total(t.spans) < Half /\ Total(RawText(body).spans) < Half
    BY <2>1, <2>2, <2>4
  <2>6. RawText(body) \in TextType
    BY RawIsText
  <2>7. /\ parseRateLimitText(t) \in 1..(Half - 1) /\ parseRateLimitText(t) >= Announced429(t)
        /\ parseRateLimitText(RawText(body)) \in 1..(Half - 1)
        /\ parseRateLimitText(RawText(body)) >= Announced429(RawText(body))
    BY <1>3, <2>2, <2>5, <2>6, TextWait
  <2>8. Announced429(t) \in Nat /\ Announced429(RawText(body)) \in Nat
    BY <2>2 DEF Announced429
  <2>9. parseRateLimitText(RawText(body)) >= Announced429(t)
    BY <2>2, <2>7, <2>8
  <2>. QED  BY <2>7, <2>9
<1>5. RawText(body) \in TextType
  BY RawIsText
<1>6. CASE ParseRateLimitMetadata(texts) = <<t>> /\ ~Usable(RawText(body))
  BY <1>3, <1>4, <1>6
<1>7. CASE /\ ParseRateLimitMetadata(texts) = <<RawText(body)>>
           /\ Usable(RawText(body)) /\ Heeded(body) = {t}
  BY <1>4, <1>5, <1>7
<1>. QED  BY <1>2, <1>6, <1>7

LEMMA CooldownFacts ==
    ASSUME NEW limit \in LimitType,
           NEW c \in Cooldowns(limit.status, limit.header, limit.body)
    PROVE  c \in 2..(Half - 1) /\ NotEarly(limit, c) /\ Unambiguous(limit, c)
<1>. PICK header \in LimitHeader : header = limit.header
  BY DEF LimitType
<1>. PICK body \in LimitBody : body = limit.body
  BY DEF LimitType
<1>. PICK raw : raw = RawText(body)
  OBVIOUS
<1>. DEFINE Waits(used) ==
              {AtLeast(2, n) : n \in {IF h = <<>> THEN parseRateLimitText(used) ELSE h[1] :
                                        h \in parseRetryAfterHeader(header)}}
<1>0. /\ limit.status \in {429, 503} /\ Half \in Nat /\ 2 < Half
      /\ Default429 \in 2..(Half - 1) /\ Default503 \in 2..(Half - 1)
  BY RateLimitAssumption DEF LimitType
<1>1. PICK texts \in Tried(body) : c \in CooldownsOf(limit.status, header, texts)
  BY DEF Cooldowns
<1>2. ASSUME NEW ts \in Tried(body), limit.status = 429, Heeded(body) = {}
      PROVE  CooldownsOf(limit.status, header, ts) = {Default429}
  <2>1. ParseRateLimitMetadata(ts) = <<>>
    BY <1>2, TextUsed
  <2>. QED  BY <1>2, <2>1 DEF CooldownsOf, RateLimitFromResponse
<1>3. ASSUME NEW ts, NEW used, limit.status = 429, ParseRateLimitMetadata(ts) = <<used>>
      PROVE  CooldownsOf(limit.status, header, ts) = Waits(used)
  <2>1. parseRetryAfterHeader(header) # {}
    BY DEF parseRetryAfterHeader
  <2>2. <<used>> # <<>> /\ <<used>>[1] = used
    OBVIOUS
  <2>3. RateLimitFromResponse(header, ts)
          = {IF h = <<>> THEN parseRateLimitText(used) ELSE h[1] : h \in parseRetryAfterHeader(header)}
    BY <1>3, <2>2 DEF RateLimitFromResponse
  <2>4. RateLimitFromResponse(header, ts) # {}
    BY <2>1, <2>3
  <2>. PICK retries : retries = RateLimitFromResponse(header, ts)
    OBVIOUS
  <2>5. CooldownsOf(limit.status, header, ts) = {AtLeast(2, n) : n \in retries}
    BY <1>3, <2>4 DEF CooldownsOf
  <2>6. Waits(used) = {AtLeast(2, n) : n \in retries}
    BY <2>3
  <2>. QED  BY <2>5, <2>6
<1>4. ASSUME limit.status = 503, NEW ts
      PROVE  CooldownsOf(limit.status, header, ts) = {Default503}
  BY <1>4 DEF CooldownsOf
<1>5. ASSUME NEW ts \in Tried(body), Heeded(body) # {}
      PROVE  \E used \in TextType : \E t \in Heeded(body) :
               /\ ParseRateLimitMetadata(ts) = <<used>>
               /\ used = IF Usable(raw) THEN raw ELSE t
               /\ Usable(raw) => Heeded(body) = {t}
               /\ Fits(limit) => parseRateLimitText(used) >= Announced429(t)
               /\ parseRateLimitText(used) \in 1..(Half - 1)
  BY <1>5, UsedWait, TextWait
<1>6. ASSUME NEW n \in 0..(Half - 1) PROVE AtLeast(2, n) \in 2..(Half - 1) /\ AtLeast(2, n) >= n
  BY <1>0 DEF AtLeast
<1>7. ASSUME limit.status = 429, Heeded(body) # {}
      PROVE  c \in 2..(Half - 1) /\ NotEarly(limit, c)
  <2>1. PICK used \in TextType, t \in Heeded(body) :
               /\ ParseRateLimitMetadata(texts) = <<used>>
               /\ Fits(limit) => parseRateLimitText(used) >= Announced429(t)
               /\ parseRateLimitText(used) \in 1..(Half - 1)
    BY <1>5, <1>7
  <2>2. c \in Waits(used)
    BY <1>1, <1>3, <1>7, <2>1
  <2>3. PICK h \in parseRetryAfterHeader(header) :
          c = AtLeast(2, IF h = <<>> THEN parseRateLimitText(used) ELSE h[1])
    BY <2>2
  <2>4. h = <<>> \/ \E m \in 0..(Half - 1) : h = <<m>>
    BY HeaderWait
  <2>5. h # <<>> => h[1] \in 0..(Half - 1)
    BY <2>4
  <2>6. c \in 2..(Half - 1)
    BY <1>6, <2>1, <2>3, <2>5
  <2>7. h = <<>> => c >= parseRateLimitText(used)
    BY <1>6, <2>1, <2>3
  <2>8. h # <<>> => c >= h[1]
    BY <1>6, <2>3, <2>5
  <2>9. ASSUME Fits(limit) PROVE header.n < Half /\ header.n \in Nat
    BY <2>9 DEF Fits, LimitHeader
  <2>10. ASSUME Fits(limit), header.form = "seconds", header.n > 0 PROVE c >= header.n
    <3>1. h = <<header.n>>
      BY <2>9, <2>10, HeaderWait
    <3>. QED  BY <2>8, <3>1
  <2>11. ASSUME header.form = "date", header.n > 0, header.n \in Nat PROVE c >= header.n - 1
    <3>1. h # <<>> /\ h[1] >= header.n - 1
      BY <2>11, HeaderWait
    <3>. QED  BY <2>5, <2>6, <2>8, <2>11, <3>1
  <2>12. ASSUME Fits(limit), ~(header.form \in {"seconds", "date"} /\ header.n > 0)
         PROVE  c >= Announced429(t)
    <3>1. h = <<>>
      BY <2>12, HeaderWait
    <3>2. c >= parseRateLimitText(used) /\ parseRateLimitText(used) >= Announced429(t)
      BY <2>1, <2>7, <2>12, <3>1
    <3>3. Announced429(t) \in Nat
      <4>1. t \in TextType /\ t \in ToSet(body.texts)
        BY TextUsed, <1>1 DEF UsableText
      <4>2. Total(t.spans) \in Nat
        BY <2>12, <4>1, RawCovers DEF Fits
      <4>. QED  BY <4>2 DEF Announced429
    <3>. QED  BY <1>0, <2>1, <2>6, <3>2, <3>3
  <2>. QED  BY <2>6, <2>9, <2>10, <2>11, <2>12 DEF NotEarly
<1>8. c \in 2..(Half - 1) /\ NotEarly(limit, c)
  <2>1. CASE limit.status = 503
    BY <1>0, <1>1, <1>4, <2>1 DEF NotEarly
  <2>2. CASE limit.status = 429 /\ Heeded(body) = {}
    BY <1>0, <1>1, <1>2, <2>2 DEF NotEarly
  <2>. QED  BY <1>0, <1>7, <2>1, <2>2
<1>9. ASSUME header.form # "date", \A t, u \in Heeded(body) : t = u
      PROVE  Cooldowns(limit.status, header, body) = {c}
  <2>1. ASSUME NEW ts \in Tried(body)
        PROVE  CooldownsOf(limit.status, header, ts) = {c}
    <3>1. CASE limit.status = 503
      BY <1>1, <1>4, <3>1
    <3>2. CASE limit.status = 429 /\ Heeded(body) = {}
      BY <1>1, <1>2, <3>2
    <3>3. CASE limit.status = 429 /\ Heeded(body) # {}
      <4>1. PICK used : ParseRateLimitMetadata(ts) = <<used>>
                          /\ ParseRateLimitMetadata(texts) = <<used>>
        BY <1>5, <1>9, <3>3
      <4>2. CooldownsOf(limit.status, header, ts) = Waits(used) /\ c \in Waits(used)
        BY <1>1, <1>3, <3>3, <4>1
      <4>3. PICK h : parseRetryAfterHeader(header) = {h}
        BY <1>9, HeaderWait
      <4>4. \E w : Waits(used) = {w}
        BY <4>3
      <4>. QED  BY <4>2, <4>4
    <3>. QED  BY <1>0, <3>1, <3>2, <3>3
  <2>. QED  BY <1>1, <2>1 DEF Cooldowns
<1>. QED  BY <1>8, <1>9 DEF Unambiguous

-----------------------------------------------------------------------------
(* The stages of an exchange *)

\* A request that is posted is the conversion of the one the client sent.
RequestInv ==
    /\ request = <<>> \/ \E r \in Requests : request = <<r>>
    /\ stage = "asked" => request # <<>>
    /\ \/ posted = <<>>
       \/ /\ stage = "converted"
          /\ \E r \in Requests :
               ~Refused(r) /\ request = <<r>> /\ posted = <<ConvertChatRequest(r)>>

\* A reply belongs to the stage it led to, a cooldown to the reply.
ReplyInv ==
    /\ \/ reply = <<>>
       \/ /\ stage \in {"read", "unreadable", "counted"}
          /\ \E whole \in Replies : reply = <<whole>>
       \/ /\ stage = "limited"
          /\ \E limit \in Limits : /\ reply = <<limit>>
                                  /\ cooldown \in Cooldowns(limit.status, limit.header, limit.body)
    /\ stage = "read" => reply # <<>>
    /\ cooldown \in {0} \cup {n \in Nat : 2 =< n /\ n < Half}

\* Nothing is charged before the end.
CountInv ==
    /\ stage \in Stage
    /\ row \in [tokens : Nat, requests : Nat] /\ dropped \in BOOLEAN
    /\ stage # "counted" => row = FirstRow /\ ~dropped
    /\ ChargedOnce

\* The dialler has not begun before the request is posted.
DialInv ==
    /\ stage \in {"outside", "inside", "asked", "converted"} => SocksInit
    /\ SocksInv

ExchangeInv ==
    /\ RequestInv /\ ReplyInv /\ CountInv /\ DialInv /\ AccessInv
    /\ ConverterInv /\ IndexInv /\ ContentInv

LEMMA ExchangeInvInit == ExchangeInit => ExchangeInv
<1>. SUFFICES ASSUME ExchangeInit PROVE ExchangeInv
  OBVIOUS
<1>1. AccessInit /\ ConverterInit /\ SocksInit
  BY DEF ExchangeInit
<1>2. RequestInv /\ ReplyInv
  BY DEF ExchangeInit, RequestInv, ReplyInv
<1>3. CountInv
  BY DEF ExchangeInit, CountInv, ChargedOnce, FirstRow, Stage
<1>. QED
  BY <1>1, <1>2, <1>3, AccessInvInit, ConverterInvInit, ContentInit, SocksInvInit DEF ExchangeInv, DialInv

LEMMA RequestNext == RequestInv /\ [ExchangeNext]_vars => RequestInv'
<1>. SUFFICES ASSUME RequestInv, [ExchangeNext]_vars PROVE RequestInv'
  OBVIOUS
<1>1. CASE Ask
  BY <1>1 DEF Ask, RequestInv
<1>2. CASE Convert
  <2>1. PICK r \in Requests : request = <<r>>
    BY <1>2 DEF Convert, RequestInv
  <2>2. ~Refused(r) /\ posted' = <<ConvertChatRequest(r)>> /\ request' = <<r>> /\ stage' = "converted"
    BY <1>2, <2>1 DEF Convert
  <2>. QED  BY <2>2 DEF RequestInv
<1>3. CASE Post
  BY <1>3 DEF Post, RequestInv
<1>4. CASE /\ UNCHANGED <<request, posted>>
           /\ stage' = stage \/ (stage # "converted" /\ stage' # "asked")
  BY <1>4 DEF RequestInv
<1>5. CASE UNCHANGED vars
  BY <1>5 DEF vars, exchangeVars, RequestInv
<1>6. CASE Administer \/ Enter \/ Refuse \/ Dial \/ Dialled \/ PostFails
  BY <1>4, <1>6 DEF Administer, Enter, Refuse, Dial, Dialled, PostFails, exchangeVars
<1>7. CASE Limited \/ OtherStatus \/ StartStream \/ ProcessStream \/ ReadReply
  BY <1>4, <1>7 DEF Limited, OtherStatus, StartStream, ProcessStream, ReadReply, exchangeVars
<1>8. CASE recordUsage \/ chargeReply \/ Crash
  BY <1>4, <1>8 DEF recordUsage, chargeReply, Crash
<1>. QED  BY <1>1, <1>2, <1>3, <1>5, <1>6, <1>7, <1>8 DEF ExchangeNext

LEMMA ReplyNext == ReplyInv /\ [ExchangeNext]_vars => ReplyInv'
<1>. SUFFICES ASSUME ReplyInv, [ExchangeNext]_vars PROVE ReplyInv'
  OBVIOUS
<1>1. CASE Limited
  <2>1. PICK limit \in Limits :
          /\ reply' = <<limit>> /\ stage' = "limited"
          /\ cooldown' \in Cooldowns(limit.status, limit.header, limit.body)
    BY <1>1 DEF Limited
  <2>2. limit \in LimitType
    BY ExchangeAssumption DEF LimitType
  <2>3. cooldown' \in 2..(Half - 1)
    BY <2>1, <2>2, CooldownFacts
  <2>4. cooldown' \in {n \in Nat : 2 =< n /\ n < Half}
    BY <2>3, RateLimitAssumption
  <2>. QED  BY <2>1, <2>4 DEF ReplyInv
<1>2. CASE ReadReply
  BY <1>2 DEF ReadReply, ReplyInv
<1>3. CASE UNCHANGED <<reply, cooldown>> /\ (stage' = stage \/ (reply = <<>> /\ stage' # "read"))
  BY <1>3 DEF ReplyInv
<1>4. CASE UNCHANGED vars
  BY <1>4 DEF vars, exchangeVars, ReplyInv
<1>5. CASE Administer \/ Enter \/ Ask \/ Refuse \/ Convert \/ Post
  BY <1>3, <1>5 DEF Administer, Enter, Ask, Refuse, Convert, Post, exchangeVars, ReplyInv
<1>6. CASE Dial \/ Dialled \/ PostFails \/ OtherStatus \/ StartStream \/ ProcessStream
  BY <1>3, <1>6 DEF Dial, Dialled, PostFails, OtherStatus, StartStream, ProcessStream,
       exchangeVars, ReplyInv
<1>7. CASE recordUsage \/ chargeReply \/ Crash
  <2>1. stage \in {"streaming", "read"} /\ stage' = "counted" /\ UNCHANGED <<reply, cooldown>>
    BY <1>7 DEF recordUsage, chargeReply, Crash
  <2>. QED  BY <2>1 DEF ReplyInv
<1>. QED  BY <1>1, <1>2, <1>4, <1>5, <1>6, <1>7 DEF ExchangeNext

\* What recordUsage finds in lastUsage is what the stream reported.
LEMMA CountedIsReported ==
    ASSUME ConverterInv, reply = <<>>
    PROVE  Reported = IF lastUsage = <<>> THEN 0 ELSE lastUsage[1]
<1>. DEFINE K == {e \in Event : e.type = "completed"}
<1>1. received \in Seq(Event) /\ ReceivedInv
  BY DEF ConverterInv, ConverterTyped, ConverterTypeOK
<1>2. Selected(received, LAMBDA e : e.type = "completed") = Filter(K, received)
  <2>1. \A i \in DOMAIN received : received[i] \in K <=> received[i].type = "completed"
    BY <1>1
  <2>. HIDE DEF K
  <2>2. [i \in DOMAIN received |-> IF received[i].type = "completed" THEN <<received[i]>> ELSE <<>>]
          = [i \in DOMAIN received |-> IF received[i] \in K THEN <<received[i]>> ELSE <<>>]
    BY <2>1
  <2>. QED  BY <2>2 DEF Selected, Filter
<1>3. PICK completed : completed = Filter(K, received)
  OBVIOUS
<1>4. Reported = IF completed = <<>> \/ Last(completed).usage = <<>> THEN 0
                 ELSE Last(completed).usage[1]
  BY <1>2, <1>3 DEF Reported
<1>5. completed \in Seq(Event) /\ ToSet(completed) = ToSet(received) \cap K
  BY <1>1, <1>3, FilterType, FilterMembers
<1>6. \A i \in DOMAIN received : received[i] \in K => i = Len(received)
  BY <1>1 DEF ReceivedInv, Final
<1>7. CASE Completed
  <2>1. received # <<>> /\ Last(received) \in K
    BY <1>1, <1>7 DEF Completed, Last
  <2>2. PICK init \in Seq(Event), event \in Event : received = Append(init, event)
    BY <1>1, <2>1, SequenceEmptyOrAppend
  <2>3. Last(received) = event
    BY <2>2 DEF Last
  <2>4. completed = Append(Filter(K, init), event)
    BY <1>3, <2>1, <2>2, <2>3, FilterAppend
  <2>5. Filter(K, init) \in Seq(Event)
    BY FilterType
  <2>6. completed # <<>> /\ Last(completed) = event
    <3>. PICK rest \in Seq(Event) : rest = Filter(K, init)
      BY <2>5
    <3>1. Append(rest, event) # <<>> /\ Len(Append(rest, event)) = Len(rest) + 1
            /\ Append(rest, event)[Len(rest) + 1] = event
      OBVIOUS
    <3>. QED  BY <2>4, <3>1 DEF Last
  <2>7. lastUsage = event.usage
    BY <1>1, <1>7, <2>3 DEF ReceivedInv
  <2>. QED  BY <1>4, <2>6, <2>7
<1>8. CASE ~Completed
  <2>1. ToSet(received) \cap K = {}
    <3>1. ASSUME NEW i \in DOMAIN received, received[i] \in K PROVE FALSE
      <4>1. i = Len(received) /\ received # <<>>
        BY <1>1, <1>6, <3>1
      <4>. QED  BY <1>8, <3>1, <4>1 DEF Completed, Last
    <3>. QED  BY <3>1 DEF ToSet
  <2>2. completed = <<>>
    BY <1>5, <2>1 DEF ToSet
  <2>3. lastUsage = <<>>
    BY <1>1, <1>8 DEF ReceivedInv
  <2>. QED  BY <1>4, <2>2, <2>3
<1>. QED  BY <1>7, <1>8

LEMMA CountNext == ExchangeInv /\ [ExchangeNext]_vars => CountInv'
<1>. SUFFICES ASSUME ExchangeInv, [ExchangeNext]_vars PROVE CountInv'
  OBVIOUS
<1>1. CountInv /\ ReplyInv /\ ConverterInv
  BY DEF ExchangeInv
<1>2. ASSUME stage' # "counted", stage # "counted", stage' \in Stage, UNCHANGED <<row, dropped>>
      PROVE  CountInv'
  BY <1>1, <1>2 DEF CountInv, ChargedOnce
<1>3. FirstRow.tokens = 1 /\ FirstRow.requests = 1 /\ FirstRow \in [tokens : Nat, requests : Nat]
  BY DEF FirstRow
<1>4. ASSUME NEW n \in Nat, stage \in {"streaming", "read"}, stage' = "counted", Reported' = n,
             \/ Charge(n)
             \/ n = 0 /\ UNCHANGED <<row, dropped>>
             \/ dropped' = TRUE /\ UNCHANGED row
      PROVE  CountInv'
  <2>1. row = FirstRow /\ dropped = FALSE
    BY <1>1, <1>4 DEF CountInv
  <2>2. CASE dropped' = TRUE /\ UNCHANGED row
    BY <1>3, <1>4, <2>1, <2>2 DEF CountInv, ChargedOnce, Stage
  <2>3. CASE AddAccountUsage(n) /\ UNCHANGED dropped
    <3>1. row' = [tokens |-> 1 + n, requests |-> 2]
      BY <1>3, <2>1, <2>3 DEF AddAccountUsage
    <3>2. row'.tokens = 1 + n /\ row'.requests = 2 /\ row' \in [tokens : Nat, requests : Nat]
      BY <3>1
    <3>3. ChargedOnce'
      BY <1>3, <1>4, <2>1, <2>3, <3>2 DEF ChargedOnce
    <3>. QED  BY <1>4, <2>1, <2>3, <3>2, <3>3 DEF CountInv, Stage
  <2>4. CASE n = 0 /\ UNCHANGED <<row, dropped>>
    <3>1. ChargedOnce'
      BY <1>3, <1>4, <2>1, <2>4 DEF ChargedOnce
    <3>. QED  BY <1>3, <1>4, <2>1, <2>4, <3>1 DEF CountInv, Stage
  <2>. QED  BY <1>4, <2>2, <2>3, <2>4 DEF Charge
<1>5. ASSUME UNCHANGED <<reply, received>> PROVE Reported' = Reported
  BY <1>5 DEF Reported, Selected
<1>6. CASE recordUsage
  <2>1. reply = <<>>
    BY <1>1, <1>6 DEF ReplyInv, recordUsage
  <2>2. Reported' = IF lastUsage = <<>> THEN 0 ELSE lastUsage[1]
    BY <1>1, <1>5, <1>6, <2>1, CountedIsReported DEF recordUsage, converterVars
  <2>3. lastUsage = <<>> \/ \E n \in Nat : lastUsage = <<n>>
    BY <1>1, CountsAssumption DEF ConverterInv, ConverterTyped, ConverterTypeOK, Usage
  <2>4. CASE lastUsage = <<>>
    <3>1. Reported' = 0 /\ UNCHANGED <<row, dropped>>
      BY <1>6, <2>2, <2>4 DEF recordUsage
    <3>. QED  BY <1>4, <1>6, <3>1 DEF recordUsage
  <2>5. ASSUME NEW n \in Nat, lastUsage = <<n>> PROVE CountInv'
    <3>1. Reported' = n /\ lastUsage # <<>> /\ lastUsage[1] = n
      BY <2>2, <2>5
    <3>2. CASE n = 0
      <4>1. UNCHANGED <<row, dropped>>
        BY <1>6, <2>5, <3>2 DEF recordUsage
      <4>. QED  BY <1>4, <1>6, <3>1, <3>2, <4>1 DEF recordUsage
    <3>3. CASE n # 0
      <4>1. lastUsage # <<0>>
        BY <3>1, <3>3
      <4>2. Charge(n)
        BY <1>6, <3>1, <4>1 DEF recordUsage
      <4>. QED  BY <1>4, <1>6, <3>1, <4>2 DEF recordUsage
    <3>. QED  BY <3>2, <3>3
  <2>. QED  BY <2>3, <2>4, <2>5
<1>7. CASE chargeReply
  <2>1. PICK whole \in Replies : reply = <<whole>>
    BY <1>1, <1>7 DEF ReplyInv, chargeReply
  <2>2. whole.usage \in Usage
    BY ExchangeAssumption
  <2>3. PICK n : n = IF whole.usage = <<>> THEN 0 ELSE whole.usage[1]
    OBVIOUS
  <2>4. n \in Nat
    BY <2>2, <2>3, CountsAssumption DEF Usage
  <2>5. Reported' = n
    <3>1. reply' = <<whole>> /\ reply' # <<>> /\ reply'[1] = whole
      BY <1>7, <2>1 DEF chargeReply
    <3>. QED  BY <2>3, <3>1 DEF Reported
  <2>6. Charge(n)
    BY <1>7, <2>1, <2>3 DEF chargeReply
  <2>. QED  BY <1>4, <1>7, <2>4, <2>5, <2>6 DEF chargeReply
<1>8. CASE Crash
  <2>1. row = FirstRow
    BY <1>1, <1>8 DEF CountInv, Crash
  <2>. QED  BY <1>3, <1>8, <2>1 DEF Crash, CountInv, ChargedOnce, Stage
<1>9. CASE UNCHANGED vars
  <2>1. Reported' = Reported
    BY <1>5, <1>9 DEF vars, exchangeVars, converterVars
  <2>. QED  BY <1>1, <1>9, <2>1 DEF vars, exchangeVars, CountInv, ChargedOnce
<1>10. CASE Administer \/ Enter \/ Ask \/ Refuse \/ Convert \/ Post
  <2>1. /\ stage # "counted" /\ stage' # "counted" /\ stage' \in Stage
        /\ UNCHANGED <<row, dropped>>
    BY <1>1, <1>10 DEF Administer, Enter, Ask, Refuse, Convert, Post, exchangeVars, Stage
  <2>. QED  BY <1>2, <2>1
<1>11. CASE \/ Dial \/ Dialled \/ PostFails \/ Limited \/ OtherStatus \/ StartStream
            \/ ProcessStream \/ ReadReply
  <2>1. /\ stage # "counted" /\ stage' # "counted" /\ stage' \in Stage
        /\ UNCHANGED <<row, dropped>>
    BY <1>1, <1>11 DEF Dial, Dialled, PostFails, Limited, OtherStatus, StartStream,
         ProcessStream, ReadReply, exchangeVars, Stage
  <2>. QED  BY <1>2, <2>1
<1>. QED  BY <1>6, <1>7, <1>8, <1>9, <1>10, <1>11 DEF ExchangeNext

LEMMA BlankDial == SocksInit => SocksInv
  BY SocksInvInit

LEMMA BlankDialNext == (SocksInit => SocksInv)'
  BY BlankDial, PTL

LEMMA DialNext == ExchangeInv /\ [ExchangeNext]_vars => DialInv'
<1>. SUFFICES ASSUME ExchangeInv, [ExchangeNext]_vars PROVE DialInv'
  OBVIOUS
<1>1. DialInv /\ (SocksInv /\ [SocksNext]_socksVars => SocksInv')
  BY SocksInvNext DEF ExchangeInv
<1>2. CASE UNCHANGED socksVars /\ (stage' = stage \/ stage \in {"outside", "inside", "asked", "converted"}
                                     \/ stage' \notin {"outside", "inside", "asked", "converted"})
  <2>1. SocksInv'
    BY <1>1, <1>2 DEF DialInv
  <2>2. SocksInit => SocksInit'
    BY <1>2 DEF socksVars, SocksInit
  <2>. QED  BY <1>1, <1>2, <2>1, <2>2 DEF DialInv
<1>3. CASE Post
  <2>1. SocksInit
    BY <1>1, <1>3 DEF DialInv, Post
  <2>2. SocksInit'
    BY <1>3, <2>1 DEF Post, SocksInit
  <2>. QED  BY <1>3, <2>2, BlankDialNext DEF DialInv, Post
<1>4. CASE Dial
  <2>1. stage' = stage /\ stage = "dialling"
    BY <1>4 DEF Dial, exchangeVars
  <2>2. SocksInv'
    BY <1>1, <1>4 DEF Dial, DialInv
  <2>. QED  BY <2>1, <2>2 DEF DialInv
<1>5. CASE UNCHANGED vars
  BY <1>1, <1>2, <1>5 DEF vars, exchangeVars
<1>6. CASE Administer \/ Enter \/ Ask \/ Refuse \/ Convert
  BY <1>2, <1>6 DEF Administer, Enter, Ask, Refuse, Convert, exchangeVars
<1>7. CASE \/ Dialled \/ PostFails \/ Limited \/ OtherStatus \/ StartStream
           \/ ProcessStream \/ ReadReply \/ recordUsage \/ chargeReply \/ Crash
  BY <1>2, <1>7 DEF Dialled, PostFails, Limited, OtherStatus, StartStream, ProcessStream, ReadReply,
       recordUsage, chargeReply, Crash, exchangeVars
<1>. QED  BY <1>3, <1>4, <1>5, <1>6, <1>7 DEF ExchangeNext

LEMMA BlankAccessNext == (AccessInit => AccessInv)'
  BY AccessInvInit, PTL

LEMMA AccessKept == ExchangeInv /\ [ExchangeNext]_vars => AccessInv'
<1>. SUFFICES ASSUME ExchangeInv, [ExchangeNext]_vars PROVE AccessInv'
  OBVIOUS
<1>1. AccessInv /\ (AccessInv /\ [AccessNext]_accessVars => AccessInv')
  BY AccessInvNext DEF ExchangeInv
<1>2. CASE Administer
  BY <1>1, <1>2 DEF Administer
<1>3. CASE Enter
  <2>1. AccessInit'
    BY <1>3 DEF Enter, AccessInit, SessionToken, Secret, NoLogin
  <2>. QED  BY <2>1, BlankAccessNext
<1>4. CASE UNCHANGED accessVars
  BY <1>1, <1>4
<1>5. UNCHANGED vars => UNCHANGED accessVars
  BY DEF vars
<1>. QED
  BY <1>2, <1>3, <1>4, <1>5 DEF ExchangeNext, Ask, Refuse, Convert, Post, Dial, Dialled, PostFails,
     Limited, OtherStatus, StartStream, ProcessStream, ReadReply, recordUsage, chargeReply, Crash

\* Of the converter the exchange takes its own steps, and no other.
LEMMA ConverterSteps == [ExchangeNext]_vars => [ConverterNext]_converterVars
<1>1. UNCHANGED vars => UNCHANGED converterVars
  BY DEF vars
<1>. QED
  BY <1>1 DEF ExchangeNext, Administer, Enter, Ask, Refuse, Convert, Post, Dial, Dialled, PostFails,
     Limited, OtherStatus, StartStream, ProcessStream, ReadReply, recordUsage, chargeReply, Crash

LEMMA ExchangeInvNext == ExchangeInv /\ [ExchangeNext]_vars => ExchangeInv'
<1>. SUFFICES ASSUME ExchangeInv, [ExchangeNext]_vars PROVE ExchangeInv'
  OBVIOUS
<1>1. RequestInv' /\ ReplyInv' /\ CountInv' /\ DialInv' /\ AccessInv'
  BY RequestNext, ReplyNext, CountNext, DialNext, AccessKept DEF ExchangeInv
<1>2. ConverterInv' /\ IndexInv' /\ ContentInv'
  BY ConverterSteps, ConverterInvNext, IndexNext, ContentNext DEF ExchangeInv
<1>. QED  BY <1>1, <1>2 DEF ExchangeInv

LEMMA ExchangeInvariant == ExchangeSpec => []ExchangeInv
  BY ExchangeInvInit, ExchangeInvNext, PTL DEF ExchangeSpec

-----------------------------------------------------------------------------
(* The theorems *)

\* Nothing that was said is lost, moved or put into another mouth, for messages and
\* contents of any length.
LEMMA TextsInv == RequestInv => TextsKept
<1>. SUFFICES ASSUME RequestInv, NEW r \in ToSet(request), NEW p \in ToSet(posted)
              PROVE  Said(p.input) = Said(Selected(r.messages, LAMBDA m : m.role # "other"))
  BY DEF TextsKept
<1>1. r \in Requests /\ p = ConvertChatRequest(r)
  BY DEF RequestInv, ToSet
<1>2. r.messages \in Seq(Message)
  BY <1>1, ExchangeAssumption DEF ChatRequest, Message
<1>3. p.input = convertMessages(r.messages)
  BY <1>1 DEF ConvertChatRequest
<1>. QED  BY <1>2, <1>3, NothingUnsaid, HeardIs

LEMMA SearchInv == RequestInv => SearchAsAsked
<1>. SUFFICES ASSUME RequestInv, NEW r \in ToSet(request), NEW p \in ToSet(posted)
              PROVE  LET given == Selected(r.tools, LAMBDA t : t.form # "null")
                         searches == {i \in DOMAIN given : isWebSearchType(given[i])}
                     IN  /\ \A i \in searches :
                              /\ p.tools[i].type = "web_search"
                              /\ \A field \in Field :
                                   ToSet(p.tools[i].filters[field]) = NamedDomains(given[i], field)
                              /\ \E field \in Field : p.tools[i].filters[field] = <<>>
                         /\ \A i \in DOMAIN p.tools \ searches : p.tools[i].type = "web_search" =>
                              /\ r.web_search_options
                              /\ i = Len(given) + 1
                              /\ \A j \in searches : given[j].type = "web_search_preview"
                         /\ r.web_search_options => \E t \in ToSet(p.tools) : t.type = "web_search"
                         /\ Len(p.tools) \in Len(given)..(Len(given) + 1)
  BY DEF SearchAsAsked
<1>1. r \in Requests /\ ~Refused(r) /\ p = ConvertChatRequest(r)
  BY DEF RequestInv, ToSet
<1>2. r \in ChatRequest /\ p.tools = convertTools(r)
  BY <1>1, ExchangeAssumption DEF ConvertChatRequest
<1>3. Selected(r.tools, LAMBDA t : t.form # "null") = Given(r.tools)
  BY DEF Given
<1>. QED  BY <1>1, <1>2, <1>3, SearchesPosted

LEMMA ChoiceInv == RequestInv => ChoiceIsOffered
<1>. SUFFICES ASSUME RequestInv, NEW r \in ToSet(request), NEW p \in ToSet(posted),
                     NEW t \in ToSet(r.tools), t.type = "function", t.form # "null",
                     r.tool_choice.type = "function", t.name = r.tool_choice.name
              PROVE  \E u \in ToSet(p.tools) : /\ u.type = p.tool_choice.type
                                               /\ u.name = p.tool_choice.name
                                               /\ u.name = r.tool_choice.name
  BY DEF ChoiceIsOffered
<1>1. r \in Requests /\ p = ConvertChatRequest(r)
  BY DEF RequestInv, ToSet
<1>2. r \in ChatRequest /\ p.tools = convertTools(r) /\ p.tool_choice = flattenToolChoice(r.tool_choice)
  BY <1>1, ExchangeAssumption DEF ConvertChatRequest
<1>. QED  BY <1>2, ChoicePosted

LEMMA CooldownInv == ReplyInv => NeverEarly /\ OneOutcome
<1>. SUFFICES ASSUME ReplyInv, NEW limit \in ToSet(reply), stage = "limited"
              PROVE  NotEarly(limit, cooldown) /\ Unambiguous(limit, cooldown)
  BY DEF NeverEarly, OneOutcome, NotEarly, Unambiguous
<1>1. limit \in Limits /\ cooldown \in Cooldowns(limit.status, limit.header, limit.body)
  BY DEF ReplyInv, ToSet
<1>2. limit \in LimitType
  BY <1>1, ExchangeAssumption DEF LimitType
<1>. QED  BY <1>1, <1>2, CooldownFacts

THEOREM TextsArrive == ExchangeSpec => []TextsKept
<1>1. ExchangeInv => TextsKept
  BY TextsInv DEF ExchangeInv
<1>. QED  BY <1>1, ExchangeInvariant, PTL

\* Each search is posted with the domains it was given, and no other search but the one
\* that web_search_options asks for, whatever tools and lists of domains the client names.
THEOREM SearchesStayBounded == ExchangeSpec => []SearchAsAsked
<1>1. ExchangeInv => SearchAsAsked
  BY SearchInv DEF ExchangeInv
<1>. QED  BY <1>1, ExchangeInvariant, PTL

\* The function a client insists on is among the tools that are posted.
THEOREM ChoicesAreOffered == ExchangeSpec => []ChoiceIsOffered
<1>1. ExchangeInv => ChoiceIsOffered
  BY ChoiceInv DEF ExchangeInv
<1>. QED  BY <1>1, ExchangeInvariant, PTL

\* An account rests as long as it was told to, for any number of texts and durations.
THEOREM RestsAreLongEnough == ExchangeSpec => []NeverEarly
<1>1. ExchangeInv => NeverEarly
  BY CooldownInv DEF ExchangeInv
<1>. QED  BY <1>1, ExchangeInvariant, PTL

\* The order in which Go visits the members of an object does not show.
THEOREM OrderDoesNotShow == ExchangeSpec => []OneOutcome
<1>1. ExchangeInv => OneOutcome
  BY CooldownInv DEF ExchangeInv
<1>. QED  BY <1>1, ExchangeInvariant, PTL

\* An exchange is charged once, with what was reported, or not at all.
THEOREM ChargesAreExact == ExchangeSpec => []ChargedOnce
<1>1. ExchangeInv => ChargedOnce
  BY DEF ExchangeInv, CountInv
<1>. QED  BY <1>1, ExchangeInvariant, PTL

\* The types of the state of an exchange.
THEOREM ExchangeTypes == ExchangeSpec => []ExchangeTypeOK
<1>1. ExchangeInv => ExchangeTypeOK
  <2>. SUFFICES ASSUME ExchangeInv PROVE ExchangeTypeOK
    OBVIOUS
  <2>1. Len(request) =< 1 /\ Len(posted) =< 1 /\ Len(reply) =< 1
    <3>1. ASSUME NEW s, s = <<>> \/ \E x : s = <<x>> PROVE Len(s) =< 1
      <4>1. CASE s = <<>>
        BY <4>1
      <4>2. ASSUME NEW x, s = <<x>> PROVE Len(s) =< 1
        BY <4>2
      <4>. QED  BY <3>1, <4>1, <4>2
    <3>2. request = <<>> \/ \E x : request = <<x>>
      BY DEF ExchangeInv, RequestInv
    <3>3. posted = <<>> \/ \E x : posted = <<x>>
      BY DEF ExchangeInv, RequestInv
    <3>4. reply = <<>> \/ \E x : reply = <<x>>
      BY DEF ExchangeInv, ReplyInv
    <3>. QED  BY <3>1, <3>2, <3>3, <3>4
  <2>2. AccessTypeOK /\ ConverterTypeOK /\ SocksTypeOK
    BY DEF ExchangeInv, AccessInv, ConverterInv, ConverterTyped, DialInv, SocksInv
  <2>. QED  BY <2>1, <2>2 DEF ExchangeTypeOK, ExchangeInv, ReplyInv, CountInv
<1>. QED  BY <1>1, ExchangeInvariant, PTL

\* What the parts promise by themselves they keep inside the exchange.
THEOREM PartsKeepTheirPromises ==
    ExchangeSpec => [](/\ AdmittedIsLogin /\ KeysLastUntilRevoked
                       /\ OnlyIfGranted /\ WholeRepliesDecide
                       /\ DeltasArrive /\ EndIsTold)
<1>1. ExchangeInv => /\ AdmittedIsLogin /\ KeysLastUntilRevoked
                     /\ OnlyIfGranted /\ WholeRepliesDecide
                     /\ DeltasArrive /\ EndIsTold
  BY AdmittedInv, KeysLastInv, ContentKept, EndTold DEF ExchangeInv, DialInv, SocksInv
<1>. QED  BY <1>1, ExchangeInvariant, PTL

\* The client of the exchange reads a chat completion stream, chunk by chunk.
THEOREM ExchangeStreams == ExchangeSpec => IsChatStream
<1>1. ExchangeInit => Stream!StreamInit
  BY StreamInitial DEF ExchangeInit
<1>2. ExchangeInv /\ [ExchangeNext]_vars => [Stream!StreamNext]_(Stream!streamVars)
  BY ConverterSteps, StreamStep DEF ExchangeInv
<1>. QED
  BY <1>1, <1>2, ExchangeInvariant, PTL DEF ExchangeSpec, IsChatStream, Stream!StreamSpec
=============================================================================
