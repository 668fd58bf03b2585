----------------------------- MODULE MCExchange -----------------------------
(* Requests, limits and replies of one exchange.  A request varies in its   *)
(* messages, in its tools or in its choice, not in all of them at once.     *)
EXTENDS ChatExchange

MCAddress == <<7>>

\* The calls of a stream may be renamed.
MCSymmetry == Permutations(Items)

-----------------------------------------------------------------------------
Contents == SeqOf(Part, 2)
Message(role, content) == [role |-> role, content |-> content]
MessageLists ==
    {<<Message(role, content)>> : role \in Role, content \in Contents}
    \cup {<<Message(r1, <<p1>>), Message(r2, <<p2>>)>> :
            r1 \in Role, r2 \in Role, p1 \in Part, p2 \in Part}

NoChoice == [type |-> "absent", form |-> "flat", name |-> NoText]
Asking(messages, offered, options, choice) ==
    [messages |-> messages, tools |-> offered, web_search_options |-> options, tool_choice |-> choice]

Hello == <<Message("user", <<CHOOSE p \in Part : p.type = "text">>)>>

\* The plain tools, and a search tool with every pair of filters.
PlainTools ==
    {Tool("function", form, name) : form \in {"flat", "nested"}, name \in Names}
    \cup {Tool("custom", "flat", NoText), Tool("null", "null", NoText)}

Lists ==
    {Absent, Malformed}
    \cup {DomainList(s) : s \in {<<>>, <<"a">>, <<"b">>, <<"a", "b">>, <<"b", "a">>, <<"a", "b", "c">>}}
Fields == [Field -> Lists]
SearchTools ==
    {[Tool(type, "flat", NoText) EXCEPT !.filters = "object", !.nested = nested, !.top = top] :
        type \in {"web_search", "web_search_preview"}, nested \in Fields, top \in Fields}
    \cup {[Tool(type, "flat", NoText) EXCEPT !.filters = filters, !.top = top] :
        type \in {"web_search", "web_search_preview"}, filters \in {"absent", "malformed"}, top \in Fields}

SomeSearch == [Tool("web_search_preview", "flat", NoText) EXCEPT
                  !.top = [f \in Field |-> IF f = "allowed_domains" THEN DomainList(<<"a">>) ELSE Absent]]
ToolChoices == {NoChoice} \cup [type : {"function"}, form : {"flat", "nested"}, name : Names]
                      \cup [type : {"auto"}, form : {"flat"}, name : {NoText}]

MCRequests ==
    {Asking(m, <<>>, FALSE, NoChoice) : m \in MessageLists \cup {<<>>}}
    \cup {Asking(Hello, <<t>>, o, NoChoice) : t \in SearchTools, o \in BOOLEAN}
    \cup {Asking(Hello, ts, o, c) : ts \in SeqOf(PlainTools \cup {SomeSearch}, 2), o \in BOOLEAN, c \in ToolChoices}

-----------------------------------------------------------------------------
SpanLists == {<<>>, <<Span(3, "s")>>, <<Span(1, "m"), Span(1, "s")>>, <<Span(3, "d")>>, <<Span(TooLong, "s")>>}
LimitTexts ==
    {Text(scope, TRUE, spans) : scope \in {"none", "unreadable", "Second", "Minute"}, spans \in SpanLists}
    \cup {Text(scope, FALSE, spans) : scope \in {"none", "Second", "Minute"}, spans \in {<<>>, <<Span(1, "s")>>}}
Bodies ==
    {b \in [shape : {"text", "array", "object"}, escaped : BOOLEAN,
     texts : SeqOf(LimitTexts, 2), stray : {<<>>, <<Span(2, "h")>>}] :
       b.escaped => b.shape # "text"}
Headers ==
    {[form |-> form, n |-> n] : form \in {"seconds", "date"}, n \in {1, 5}}
    \cup {[form |-> "seconds", n |-> 40], [form |-> "absent", n |-> 0]}
\* Three texts, one of them behind a sentence that cannot be read.
LongBodies ==
    {b \in [shape : {"text", "array", "object"}, escaped : BOOLEAN,
     texts : [1..3 -> {Text("none", FALSE, <<>>), Text("unreadable", TRUE, <<Span(1, "s")>>),
                       Text("Second", TRUE, <<Span(25, "s")>>), Text("Minute", TRUE, <<Span(1, "m")>>)}],
     stray : {<<>>}] :
       b.escaped => b.shape # "text"}
MCLimits ==
    [status : {429}, header : Headers, body : Bodies \cup LongBodies]
    \cup [status : {503}, header : Headers, body : {b \in Bodies : b.texts = <<>>}]

MCReplies == [body : {"complete"}, usage : Usage] \cup [body : {"broken", "no object"}, usage : {<<>>}]
=============================================================================
