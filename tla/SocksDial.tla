----------------------------- MODULE SocksDial -----------------------------
(***************************************************************************)
(* The SOCKS5 handshake of dialSOCKS5 (upstream/proxy.go): the method       *)
(* offer, the user and password if the proxy URL has them, the connect      *)
(* request, and one Read for each reply.  TCP is a stream: a Read returns   *)
(* what has arrived, at least a byte and at most its buffer, and a reply    *)
(* may arrive in pieces.                                                   *)
(*                                                                         *)
(* The proxy is external: it answers each request once, grants or refuses   *)
(* it, closes the connection after a refusal and may close or fall silent   *)
(* at any time.  The requests themselves are not followed: an error of a    *)
(* Write is ignored by the code and seen by the next Read.                 *)
(***************************************************************************)
EXTENDS Naturals, Sequences

CONSTANTS
    Address,        \* the bytes of a connect reply after the first four
    RespSize        \* size of the buffer for the connect reply

ASSUME SocksAssumption == Address \in Seq(Nat) /\ RespSize \in Nat /\ RespSize >= 4

VARIABLES
    conn,           \* "none", "open", or "closed" by the dialler
    auth,           \* the proxy URL has a user
    dial,           \* what dialSOCKS5 waits for
    buf,            \* buf: the two bytes of the first buffer
    wire,           \* bytes the proxy has sent that have not been read
    silent,         \* the proxy has closed the connection
    granted,        \* the proxy has granted the connect request
    refused,        \* the proxy has refused something
    cut             \* history: a Read got less than the reply it is for, or nothing

socksVars == <<conn, auth, dial, buf, wire, silent, granted, refused, cut>>

-----------------------------------------------------------------------------
\* "tunnel": the caller has the connection; "failed": it has an error.
Waiting == {"method", "login", "connect"}

SocksTypeOK ==
    /\ conn \in {"none", "open", "closed"}
    /\ dial \in Waiting \cup {"idle", "tunnel", "failed"}
    /\ buf \in [1..2 -> Nat]
    /\ wire \in Seq(Nat)
    /\ {auth, silent, granted, refused, cut} \subseteq BOOLEAN

Blank == <<0, 0>>

SocksInit ==
    /\ conn = "none" /\ dial = "idle" /\ buf = Blank /\ wire = <<>>
    /\ auth \in BOOLEAN
    /\ silent = FALSE /\ granted = FALSE /\ refused = FALSE /\ cut = FALSE

-----------------------------------------------------------------------------
(* The proxy's answers, and its closing. *)

Answers(step) ==
    CASE step = "method"  -> [yes |-> <<5, IF auth THEN 2 ELSE 0>>, no |-> <<5, 255>>]
      [] step = "login"   -> [yes |-> <<1, 0>>, no |-> <<1, 1>>]
      [] step = "connect" -> [yes |-> <<5, 0, 0, 1>> \o Address, no |-> <<5, 1, 0, 1>> \o Address]

\* What the request of a step brings, after the bytes left unread of the reply before;
\* or nothing at all.
Request(step, left) ==
    /\ dial' = step
    /\ \/ /\ ~silent
          /\ wire' = left \o Answers(step).yes
          /\ granted' = (step = "connect")
          /\ UNCHANGED <<refused, silent>>
       \/ /\ ~silent
          /\ wire' = left \o Answers(step).no
          /\ refused' = TRUE /\ silent' = TRUE
          /\ UNCHANGED granted
       \/ wire' = left /\ UNCHANGED <<granted, refused, silent>>

ProxyCloses ==
    /\ dial \in Waiting
    /\ ~silent
    /\ silent' = TRUE
    /\ UNCHANGED <<conn, auth, dial, buf, wire, granted, refused, cut>>

-----------------------------------------------------------------------------
(* The dialler. *)

NoConnection ==
    /\ dial = "idle"
    /\ dial' = "failed" /\ cut' = TRUE
    /\ UNCHANGED <<conn, auth, buf, wire, silent, granted, refused>>

Connect ==
    /\ dial = "idle"
    /\ conn' = "open"
    /\ Request("method", <<>>)
    /\ UNCHANGED <<auth, buf, cut>>

Fail == dial' = "failed" /\ conn' = "closed" /\ UNCHANGED <<wire, silent, granted, refused>>

\* What a Read with room for max bytes may return.
Arrived(max) == {SubSeq(wire, 1, n) : n \in {k \in DOMAIN wire : k =< max}}
Unread(bytes) == SubSeq(wire, Len(bytes) + 1, Len(wire))
Over(bytes) == [i \in 1..2 |-> IF i =< Len(bytes) THEN bytes[i] ELSE buf[i]]

ReadMethod ==
    /\ dial = "method"
    /\ \E bytes \in Arrived(2) :
         /\ buf' = Over(bytes)
         /\ cut' = (cut \/ Len(bytes) < 2)
         /\ IF buf' = <<5, IF auth THEN 2 ELSE 0>>
            THEN /\ Request(IF auth THEN "login" ELSE "connect", Unread(bytes))
                 /\ UNCHANGED conn
            ELSE Fail
    /\ UNCHANGED auth

\* The buffer is the one of the method reply: a short read leaves its second byte.
ReadLogin ==
    /\ dial = "login"
    /\ \E bytes \in Arrived(2) :
         /\ buf' = Over(bytes)
         /\ cut' = (cut \/ Len(bytes) < 2)
         /\ IF buf'[2] = 0 THEN Request("connect", Unread(bytes)) /\ UNCHANGED conn ELSE Fail
    /\ UNCHANGED auth

\* A variation: the reply code is not looked at.
ReadConnect_unchecked ==
    /\ dial = "connect"
    /\ \E bytes \in Arrived(RespSize) :
         /\ cut' = (cut \/ Len(bytes) < Len(Answers("connect").yes))
         /\ IF Len(bytes) >= 4
            THEN /\ dial' = "tunnel" /\ wire' = Unread(bytes)
                 /\ UNCHANGED <<conn, silent, granted, refused>>
            ELSE Fail
    /\ UNCHANGED <<auth, buf>>

\* A variation: only the first four bytes are read.
ReadConnect_four ==
    /\ dial = "connect"
    /\ \E bytes \in Arrived(4) :
         /\ cut' = (cut \/ Len(bytes) < 4)
         /\ IF Len(bytes) = 4 /\ bytes[2] = 0
            THEN /\ dial' = "tunnel" /\ wire' = Unread(bytes)
                 /\ UNCHANGED <<conn, silent, granted, refused>>
            ELSE Fail
    /\ UNCHANGED <<auth, buf>>

\* What a short read leaves of the reply is the first the caller reads.
ReadConnect ==
    /\ dial = "connect"
    /\ \E bytes \in Arrived(RespSize) :
         /\ cut' = (cut \/ Len(bytes) < Len(Answers("connect").yes))
         /\ IF Len(bytes) >= 4 /\ bytes[2] = 0
            THEN /\ dial' = "tunnel" /\ wire' = Unread(bytes)
                 /\ UNCHANGED <<conn, silent, granted, refused>>
            ELSE Fail
    /\ UNCHANGED <<auth, buf>>

\* End of the stream, or an error.
ReadFails ==
    /\ dial \in Waiting
    /\ wire = <<>> /\ silent
    /\ cut' = TRUE
    /\ Fail
    /\ UNCHANGED <<auth, buf>>

SocksNext ==
    \/ NoConnection \/ Connect \/ ReadMethod \/ ReadLogin \/ ReadConnect \/ ReadFails
    \/ ProxyCloses

SocksSpec == SocksInit /\ [][SocksNext]_socksVars

-----------------------------------------------------------------------------
\* The caller gets a connection only if the proxy has granted it, however the
\* replies are cut, so that a byte left over from one reply never passes for another;
\* and a dial that failed leaves no open connection behind.
OnlyIfGranted ==
    /\ dial = "tunnel" => granted /\ conn = "open"
    /\ dial = "failed" => conn # "open"

\* If every Read gets a whole reply, the replies decide: a dial fails only because the
\* proxy refused, and nothing of the handshake is left in the connection for the TLS
\* client to read.  (A reply in two pieces fails a dial that was granted.)
WholeRepliesDecide ==
    ~cut => /\ dial = "tunnel" => wire = <<>>
            /\ dial = "failed" => refused
=============================================================================
