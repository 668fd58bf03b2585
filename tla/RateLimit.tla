----------------------------- MODULE RateLimit -----------------------------
(***************************************************************************)
(* How long a 429 or 503 reply rests an account (upstream/ratelimit.go and  *)
(* its caller in server.go).  The body is searched as it came, then text by *)
(* text if it is JSON; the first text with a sentence on the usage decides. *)
(*                                                                         *)
(* A text is what the patterns find in it: the usage sentence, the mark     *)
(* "resets in:", and the durations after the mark.  The duration pattern    *)
(* has no word boundary, so in the body as it came it also finds digits     *)
(* followed by a d, h, m or s in whatever fields come later: body.stray.    *)
(* JSON escapes can hide sentences in the body as it came (body.escaped).   *)
(* Durations are whole seconds on a small scale: Minute, Hour and Day, and  *)
(* Half for the 2^63 nanoseconds where a time.Duration turns negative.      *)
(***************************************************************************)
EXTENDS Integers, Selection

CONSTANTS Minute, Hour, Day, Half, Default429, Default503

ASSUME RateLimitAssumption ==
    /\ {Minute, Hour, Day} \subseteq Nat \ {0}
    /\ Half \in Nat /\ Minute < Half
    /\ {Default429, Default503} \subseteq 2..(Half - 1)

-----------------------------------------------------------------------------
Unit == {"d", "h", "m", "s"}
Seconds(unit) == CASE unit = "d" -> Day [] unit = "h" -> Hour [] unit = "m" -> Minute
                   [] unit = "s" -> 1

\* A number too long for an int is read as the largest one, and that times a unit, an
\* even number of nanoseconds, is minus the unit.
TooLong == -1
Span(amount, unit) == [amount |-> amount, unit |-> unit]

\* usage: "none", "unreadable" (numbers too long for an int), or the scope.
Text(usage, marked, spans) == [usage |-> usage, marked |-> marked, spans |-> spans]

\* What a reply may hold.
SpanType == [amount : Nat \cup {TooLong}, unit : Unit]
TextType == [usage : {"none", "unreadable", "Second", "Minute"}, marked : BOOLEAN, spans : Seq(SpanType)]
LimitBody ==
    {b \in [shape : {"text", "array", "object"}, escaped : BOOLEAN,
            texts : Seq(TextType), stray : Seq(SpanType)] : b.escaped => b.shape # "text"}

\* int64 arithmetic.
Wrap(n) == ((n + Half) % (2 * Half)) - Half

Length(span) == span.amount * Seconds(span.unit)
Total(spans) ==
    LET sum[i \in 0..Len(spans)] == IF i = 0 THEN 0 ELSE sum[i - 1] + Length(spans[i])
    IN  sum[Len(spans)]

\* A variation: the last duration replaces the ones before it.
rateLimitResetAfter_last(text) ==
    IF text.marked /\ text.spans # <<>> THEN Wrap(Length(Last(text.spans))) ELSE 0

rateLimitResetAfter(text) == IF text.marked THEN Wrap(Total(text.spans)) ELSE 0

-----------------------------------------------------------------------------
\* parseRateLimitText: the wait a text with a readable usage sentence asks for.
Usable(text) == text.usage \in {"Second", "Minute"}
AtLeast(least, n) == IF n < least THEN least ELSE n

parseRateLimitText(text) ==
    LET parsed == rateLimitResetAfter(text)
    IN  IF parsed =< 0 THEN (IF text.usage = "Second" THEN 2 ELSE Minute)
        ELSE IF text.usage = "Second" THEN AtLeast(2, parsed) ELSE parsed

\* The body as it came: the sentence found first, the durations after the first mark.
RawText(body) ==
    LET texts == body.texts
        usages == Selected(texts, LAMBDA t : t.usage # "none")
        marks == {i \in DOMAIN texts : texts[i].marked}
        after == {i \in DOMAIN texts : \E j \in marks : j =< i}
    IN  Text(IF body.escaped \/ usages = <<>> THEN "none" ELSE usages[1].usage,
             marks # {},
             FlattenSeq([i \in DOMAIN texts |-> IF i \in after THEN texts[i].spans ELSE <<>>])
                 \o body.stray)

\* A variation: the texts are tried first, the body as it came last.
Tried_rawLast(body) ==
    {texts \o <<RawText(body)>> :
        texts \in IF body.shape = "text" THEN {<<>>} ELSE SetToSeqs(ToSet(body.texts))}

\* rateLimitTexts: the orders in which the texts may be tried.  The members of an
\* object are a map, visited in any order; a body that is no JSON has no texts.
Tried(body) ==
    {<<RawText(body)>> \o texts :
        texts \in CASE body.shape = "text"   -> {<<>>}
                    [] body.shape = "array"  -> {body.texts}
                    [] body.shape = "object" -> SetToSeqs(ToSet(body.texts))}

\* ParseRateLimitMetadata: the first text that can be used, as a sequence of one.
ParseRateLimitMetadata(texts) ==
    LET usable == Selected(texts, Usable) IN IF usable = <<>> THEN <<>> ELSE <<usable[1]>>

-----------------------------------------------------------------------------
\* Retry-After is absent, a number of seconds, a date that many seconds ahead (at most
\* the longest duration), or something else.
LimitHeader ==
    [form : {"absent", "seconds", "other"}, n : Nat] \cup [form : {"date"}, n : 0..(Half - 1)]

\* What is left of a second until the date is cut off later.
parseRetryAfterHeader(header) ==
    CASE header.form = "seconds" /\ Wrap(header.n) > 0 -> {<<Wrap(header.n)>>}
      [] header.form = "date" /\ header.n > 0          -> {<<header.n>>, <<header.n - 1>>}
      [] OTHER                                         -> {<<>>}

\* RetryAfter, or nothing.  Without a usage sentence the header is not looked at.
RateLimitFromResponse(header, texts) ==
    LET metadata == ParseRateLimitMetadata(texts)
    IN  IF metadata = <<>> THEN {}
        ELSE {IF h = <<>> THEN parseRateLimitText(metadata[1]) ELSE h[1] :
                h \in parseRetryAfterHeader(header)}

\* The cooldown of handleChat, for one order of the texts.
CooldownsOf(status, header, texts) ==
    IF status = 503 THEN {Default503}
    ELSE LET retries == RateLimitFromResponse(header, texts)
         IN  IF retries = {} THEN {Default429} ELSE {AtLeast(2, n) : n \in retries}

Cooldowns(status, header, body) ==
    UNION {CooldownsOf(status, header, texts) : texts \in Tried(body)}
=============================================================================
