---------------------------- MODULE ChatExchange ----------------------------
(***************************************************************************)
(* One attempt of handleChat from its inside: the client is let in by its   *)
(* key, the request is converted or refused, a connection is dialled, the   *)
(* reply is classified, and a reply with status 200 is passed on, streamed  *)
(* or whole, and its tokens are counted.                                   *)
(* ChatFailover.tla is the loop around it, over many attempts and accounts, *)
(* with the data left out; this module is the data of one attempt.          *)
(*                                                                         *)
(* The parts run one after the other.  Each starts from a blank state, and  *)
(* what a stage leaves behind is dropped once nothing reads it any more.    *)
(***************************************************************************)
EXTENDS Access, StreamConverter, RequestConversion, RateLimit, SocksDial

CONSTANTS
    Requests,       \* requests a client sends
    Limits,         \* replies with status 429 or 503
    Replies         \* whole replies with status 200

ASSUME ExchangeAssumption ==
    /\ Requests \subseteq ChatRequest
    /\ Limits \subseteq [status : {429, 503}, header : LimitHeader, body : LimitBody]
    /\ Replies \subseteq [body : {"complete", "broken", "no object"}, usage : Usage]

VARIABLES
    stage,          \* how far handleChat has got
    request,        \* the client's request, a sequence of at most one
    posted,         \* the converted request, likewise
    reply,          \* the upstream's reply where it is not a stream, likewise
    cooldown,       \* the cooldown it led to
    row,            \* the row of account_usage
    dropped         \* history: the count of this exchange got lost

exchangeVars == <<stage, request, posted, reply, cooldown, row, dropped>>
vars == <<exchangeVars, accessVars, converterVars, socksVars>>

-----------------------------------------------------------------------------
Stage == {"outside", "inside", "asked", "refused", "converted", "dialling", "waiting",
          "limited", "failed", "streaming", "read", "unreadable", "counted"}

\* What the account had been charged with before.
FirstRow == [tokens |-> 1, requests |-> 1]

ExchangeTypeOK ==
    /\ stage \in Stage
    /\ Len(request) =< 1 /\ Len(posted) =< 1 /\ Len(reply) =< 1
    /\ cooldown \in {0} \cup {n \in Nat : 2 =< n /\ n < Half}
    /\ row \in [tokens : Nat, requests : Nat]
    /\ dropped \in BOOLEAN
    /\ AccessTypeOK
    /\ ConverterTypeOK
    /\ SocksTypeOK

ExchangeInit ==
    /\ stage = "outside"
    /\ request = <<>> /\ posted = <<>> /\ reply = <<>> /\ cooldown = 0
    /\ row = FirstRow /\ dropped = FALSE
    /\ AccessInit
    /\ ConverterInit
    /\ SocksInit /\ auth = FALSE

-----------------------------------------------------------------------------
(* The request. *)

\* Before the call, and beside it, keys and sessions come and go.
Administer ==
    /\ stage = "outside"
    /\ AccessNext
    /\ UNCHANGED <<exchangeVars, converterVars, socksVars>>

\* authMiddleware, with a secret that is in the table when the rows are read, or with
\* another (secret 0); if the table cannot be read, nobody is let in.
Enter ==
    /\ stage = "outside"
    /\ \E secret \in 0..lastKey :
         \/ stage' = "inside" /\ secret # 0 /\ Authorized(secret)
         \/ stage' = "refused"
    /\ clock' = 0 /\ password' = 1
    /\ sessions' = [t \in SessionToken |-> 0]
    /\ logins' = [t \in SessionToken |-> NoLogin]
    /\ keys' = [k \in Secret |-> 0] /\ lastKey' = 0
    /\ listed' = [a \in Admins |-> {}] /\ revoked' = {}
    /\ UNCHANGED <<request, posted, reply, cooldown, row, dropped, converterVars, socksVars>>

Ask ==
    /\ stage = "inside"
    /\ stage' = "asked"
    /\ \E asked \in Requests : request' = <<asked>>
    /\ UNCHANGED <<posted, reply, cooldown, row, dropped, accessVars, converterVars, socksVars>>

Refuse ==
    /\ stage = "asked"
    /\ Refused(request[1])
    /\ stage' = "refused"
    /\ UNCHANGED <<request, posted, reply, cooldown, row, dropped, accessVars, converterVars, socksVars>>

Convert ==
    /\ stage = "asked"
    /\ ~Refused(request[1])
    /\ stage' = "converted"
    /\ posted' = <<ConvertChatRequest(request[1])>>
    /\ UNCHANGED <<request, reply, cooldown, row, dropped, accessVars, converterVars, socksVars>>

\* PostResponses takes the next proxy: none, or one it speaks HTTP with, or SOCKS.
Post ==
    /\ stage = "converted"
    /\ request' = <<>> /\ posted' = <<>>
    /\ \/ stage' = "waiting" /\ UNCHANGED auth
       \/ stage' = "dialling" /\ auth' \in BOOLEAN
    /\ UNCHANGED <<reply, cooldown, row, dropped, accessVars, converterVars,
                   conn, dial, buf, wire, silent, granted, refused, cut>>

Dial ==
    /\ stage = "dialling"
    /\ SocksNext
    /\ UNCHANGED <<exchangeVars, accessVars, converterVars>>

\* The transport starts TLS on what the dialler returns; whatever is left of the
\* handshake breaks it.
Dialled ==
    /\ stage = "dialling"
    /\ dial \in {"tunnel", "failed"}
    /\ stage' = IF dial = "tunnel" /\ wire = <<>> THEN "waiting" ELSE "failed"
    /\ UNCHANGED <<request, posted, reply, cooldown, row, dropped, accessVars, converterVars, socksVars>>

\* No connection, no answer within 30 seconds, or 120 seconds in all; a dial under way
\* is left to itself.
PostFails ==
    /\ stage \in {"dialling", "waiting"}
    /\ stage' = "failed"
    /\ UNCHANGED <<request, posted, reply, cooldown, row, dropped, accessVars, converterVars, socksVars>>

-----------------------------------------------------------------------------
(* The reply. *)

Limited ==
    /\ stage = "waiting"
    /\ \E limit \in Limits :
         /\ reply' = <<limit>>
         /\ cooldown' \in Cooldowns(limit.status, limit.header, limit.body)
    /\ stage' = "limited"
    /\ UNCHANGED <<request, posted, row, dropped, accessVars, converterVars, socksVars>>

\* Any other status; the loop goes on.
OtherStatus ==
    /\ stage = "waiting"
    /\ stage' = "failed"
    /\ UNCHANGED <<request, posted, reply, cooldown, row, dropped, accessVars, converterVars, socksVars>>

\* handleChatResponse: the status line is written before the stream is read.
StartStream ==
    /\ stage = "waiting"
    /\ stage' = "streaming"
    /\ UNCHANGED <<request, posted, reply, cooldown, row, dropped, accessVars, converterVars, socksVars>>

ProcessStream ==
    /\ stage = "streaming"
    /\ ConverterNext
    /\ UNCHANGED <<exchangeVars, accessVars, socksVars>>

\* A whole reply is read to its end, at most 8 MiB, and converted; the client is told
\* 502 if it breaks off, 500 if it is no JSON object.
ReadReply ==
    /\ stage = "waiting"
    /\ \E whole \in Replies :
         /\ reply' = <<whole>>
         /\ stage' = IF whole.body = "complete" THEN "read" ELSE "unreadable"
    /\ UNCHANGED <<request, posted, cooldown, row, dropped, accessVars, converterVars, socksVars>>

-----------------------------------------------------------------------------
(* The count. *)

AddAccountUsage(n) == row' = [tokens |-> row.tokens + n, requests |-> row.requests + 1]

\* The error of the statement is dropped, and with it the count.
Charge(n) ==
    \/ AddAccountUsage(n) /\ UNCHANGED dropped
    \/ dropped' = TRUE /\ UNCHANGED row

\* A stream is charged if it reported tokens, some of them.
recordUsage ==
    /\ stage = "streaming"
    /\ returned /\ writes = <<>>
    /\ stage' = "counted"
    /\ IF lastUsage # <<>> /\ lastUsage # <<0>> THEN Charge(lastUsage[1])
       ELSE UNCHANGED <<row, dropped>>
    /\ UNCHANGED <<request, posted, reply, cooldown, accessVars, converterVars, socksVars>>

\* A whole reply is charged in any case: without a report, with zero tokens.
chargeReply ==
    /\ stage = "read"
    /\ stage' = "counted"
    /\ Charge(IF reply[1].usage = <<>> THEN 0 ELSE reply[1].usage[1])
    /\ UNCHANGED <<request, posted, reply, cooldown, accessVars, converterVars, socksVars>>

\* The process dies while a reply is read or before it is counted.
Crash ==
    /\ stage \in {"streaming", "read"}
    /\ stage' = "counted"
    /\ dropped' = TRUE
    /\ UNCHANGED <<request, posted, reply, cooldown, row, accessVars, converterVars, socksVars>>

ExchangeNext ==
    \/ Administer \/ Enter \/ Ask \/ Refuse \/ Convert \/ Post \/ Dial \/ Dialled \/ PostFails
    \/ Limited \/ OtherStatus \/ StartStream \/ ProcessStream \/ ReadReply
    \/ recordUsage \/ chargeReply \/ Crash

ExchangeSpec == ExchangeInit /\ [][ExchangeNext]_vars

-----------------------------------------------------------------------------
(* What is posted. *)

\* The texts of a sequence of messages or items, each with the role that says it.
Said(messages) ==
    LET Of1(m) == LET texts == Selected(m.content, LAMBDA p : p.type = "text")
                  IN  [i \in DOMAIN texts |-> [role |-> m.role, text |-> texts[i].text]]
    IN  FlattenSeq([i \in DOMAIN messages |-> Of1(messages[i])])

\* No text anybody said gets lost on the way upstream, changes places or is said by
\* someone else, be its content one string or parts.  (The roles the switch does not
\* name, and parts of other types than text and image_url, are passed over in silence.)
TextsKept ==
    \A r \in ToSet(request) : \A p \in ToSet(posted) :
        Said(p.input) = Said(Selected(r.messages, LAMBDA m : m.role # "other"))

\* The domains a search tool of the request names for a field, wherever it does.
NamedDomains(tool, field) == ToSet(tool.nested[field].domains) \cup ToSet(tool.top[field].domains)

\* A search keeps to what the client named for it: each search tool is posted in its
\* place, with every domain the client named for it and no other, and with one kind of
\* list at most.  No other search is posted, but the one that web_search_options asks
\* for: behind the tools, and only if no tool is a search, or those that are one are all
\* called web_search_preview.  (Beside a web_search_preview that is filtered it is a
\* second search, let loose: chat.go:70 looks for the other name only.)
SearchAsAsked ==
    \A r \in ToSet(request) : \A p \in ToSet(posted) :
        LET given == Selected(r.tools, LAMBDA t : t.form # "null")
            searches == {i \in DOMAIN given : isWebSearchType(given[i])}
        IN  /\ \A i \in searches :
                 /\ p.tools[i].type = "web_search"
                 /\ \A field \in Field :
                      ToSet(p.tools[i].filters[field]) = NamedDomains(given[i], field)
                 /\ \E field \in Field : p.tools[i].filters[field] = <<>>
            /\ \A i \in DOMAIN p.tools \ searches : p.tools[i].type = "web_search" =>
                 /\ r.web_search_options
                 /\ i = Len(given) + 1
                 /\ \A j \in searches : given[j].type = "web_search_preview"
            /\ r.web_search_options => \E t \in ToSet(p.tools) : t.type = "web_search"
            /\ Len(p.tools) \in Len(given)..(Len(given) + 1)

\* A function the client insists on, and offers, is a function that is posted, under the
\* type and name the choice is posted with: tools and choice are flattened alike.
ChoiceIsOffered ==
    \A r \in ToSet(request) : \A p \in ToSet(posted) :
        (\E t \in ToSet(r.tools) : t.type = "function" /\ t.form # "null"
                                   /\ r.tool_choice.type = "function"
                                   /\ t.name = r.tool_choice.name)
        => \E t \in ToSet(p.tools) :
             t.type = p.tool_choice.type /\ t.name = p.tool_choice.name /\ t.name = r.tool_choice.name

-----------------------------------------------------------------------------
(* The cooldown. *)

\* What a text announces, as long as all its numbers fit.
Announced429(text) == IF text.marked THEN Total(text.spans) ELSE 0
AllSpans(body) == FlattenSeq([i \in DOMAIN body.texts |-> body.texts[i].spans]) \o body.stray
Fits(limit) ==
    /\ \A span \in ToSet(AllSpans(limit.body)) : span.amount # TooLong
    /\ Total(AllSpans(limit.body)) < Half
    /\ limit.header.n < Half

\* The texts one of which is heeded: the first with a usage sentence, found in the body
\* as it came; where escapes hide it, or its numbers are too long, the first of an array
\* that can be used, and any of an object.
Heeded(body) ==
    LET usages == Selected(body.texts, LAMBDA t : t.usage # "none")
        usable == Selected(body.texts, Usable)
    IN  CASE usable = <<>>                           -> {}
          [] usable # <<>> /\ ~body.escaped /\ Usable(usages[1]) -> {usages[1]}
          [] OTHER -> CASE body.shape = "text"   -> {}
                        [] body.shape = "array"  -> {usable[1]}
                        [] body.shape = "object" -> ToSet(usable)

\* An account rests at least as long as the upstream asked for: what Retry-After says,
\* or else what a text that is heeded announces, be it found in the body as it came,
\* among other texts, or behind them.  (A sum beyond the width of a duration, and a
\* Retry-After without a usage sentence in the body, are not heeded: ratelimit.go:161
\* and 50; nor is a sentence behind an unreadable one in a body that is no JSON, 110.)
NeverEarly ==
    \A limit \in ToSet(reply) :
        stage = "limited" /\ limit.status = 429 /\ Fits(limit) /\ Heeded(limit.body) # {} =>
            CASE limit.header.form = "seconds" /\ limit.header.n > 0 -> cooldown >= limit.header.n
              [] limit.header.form = "date" /\ limit.header.n > 0 -> cooldown >= limit.header.n - 1
              [] OTHER -> \E t \in Heeded(limit.body) : cooldown >= Announced429(t)

\* Go visits the members of an object in any order, and yet the same reply leads to the
\* same cooldown, unless several texts of an object may be heeded, or the date in the
\* header falls between two seconds.
OneOutcome ==
    \A limit \in ToSet(reply) :
        stage = "limited" /\ limit.header.form # "date"
            /\ (\A t, u \in Heeded(limit.body) : t = u) =>
            Cooldowns(limit.status, limit.header, limit.body) = {cooldown}

-----------------------------------------------------------------------------
(* The count. *)

\* What the upstream reported before the exchange ended, wherever the reply broke off
\* and whether or not the client stayed: of a stream, the last report with tokens in it.
Reported ==
    IF reply # <<>> THEN (IF reply[1].usage = <<>> THEN 0 ELSE reply[1].usage[1])
    ELSE LET completed == Selected(received, LAMBDA e : e.type = "completed")
         IN  IF completed = <<>> \/ Last(completed).usage = <<>> THEN 0
             ELSE Last(completed).usage[1]

\* The account is charged for an exchange once, with what was reported, however often
\* the stream was closed; or, if the statement failed or the process died, not at all.
ChargedOnce ==
    /\ stage # "counted" \/ dropped => row = FirstRow
    /\ stage = "counted" /\ ~dropped =>
         /\ row.tokens = FirstRow.tokens + Reported
         /\ row.requests =< FirstRow.requests + 1
         /\ Reported > 0 => row.requests = FirstRow.requests + 1
=============================================================================
