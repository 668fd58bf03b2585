------------------------- MODULE RequestConversion -------------------------
(***************************************************************************)
(* What ConvertChatRequest (converter/chat.go) makes of a chat completion   *)
(* request: the upstream input, the tools with their web search filters,    *)
(* and the tool choice, or a refusal.  Pure operators on one request.       *)
(*                                                                         *)
(* A text is a member of Texts; the empty text is no member of anything, so *)
(* a content is the sequence of its non-empty parts.  Fields copied without *)
(* a look at them (temperature, metadata, stop and the like), descriptions  *)
(* and parameters of a function are left out.  Tool calls of an assistant   *)
(* message are ToolTurns' subject.                                         *)
(***************************************************************************)
EXTENDS Naturals, Selection

CONSTANTS
    Texts,
    Names,          \* names of functions
    MaxDomains      \* maxWebSearchDomains

-----------------------------------------------------------------------------
(* Messages.  message.content is a sequence of parts; a content that is one  *)
(* string is one "text" part, null is no part.                              *)

Role == {"system", "user", "assistant", "tool", "other"}
Part == [type : {"text", "image_url", "other"}, text : Texts]
NoText == "no text"
Item(role, parts) == [role |-> role, content |-> parts]

\* A variation: only the first text of a content is taken.
extractText_first(content) ==
    LET texts == Selected(content, LAMBDA p : p.type = "text")
    IN  IF texts = <<>> THEN <<>> ELSE <<texts[1]>>

\* The texts of a content, joined.
extractText(content) == Selected(content, LAMBDA p : p.type = "text")

\* Parts of any other type are dropped.
convertContent(content) == Selected(content, LAMBDA p : p.type \in {"text", "image_url"})

\* The items one message becomes: none for a role the switch does not name, and
\* none for a system or assistant message without text.
ItemsOf(message) ==
    LET text == extractText(message.content)
    IN  CASE message.role = "user" -> <<Item("user", convertContent(message.content))>>
          [] message.role = "tool" -> <<Item("tool", text)>>
          [] message.role \in {"system", "assistant"} /\ text # <<>> -> <<Item(message.role, text)>>
          [] OTHER -> <<>>

convertMessages(messages) == FlattenSeq([i \in DOMAIN messages |-> ItemsOf(messages[i])])

-----------------------------------------------------------------------------
(* Web search tools.  A domain list is absent, malformed (no array, or with  *)
(* an entry that is no non-empty string), or a list; null reads as empty.   *)

Field == {"allowed_domains", "excluded_domains"}
DomainList(domains) == [form |-> "list", domains |-> domains]
Absent == [form |-> "absent", domains |-> <<>>]
Malformed == [form |-> "malformed", domains |-> <<>>]

\* normalizeWebSearchDomains returns an error.
RefusedList(list) == list.form = "malformed" \/ Len(list.domains) > MaxDomains

\* A variation: a list in filters hides the one at the top level.
Conflicting_never(tool, field) == FALSE

\* Both places name domains, and not the same ones in the same order.
Conflicting(tool, field) ==
    /\ tool.nested[field].domains # <<>>
    /\ tool.top[field].domains # <<>>
    /\ tool.nested[field].domains # tool.top[field].domains

Domains(tool, field) ==
    IF tool.nested[field].domains # <<>> THEN tool.nested[field].domains
    ELSE tool.top[field].domains

\* convertWebSearchTool returns an error.
RefusedSearch(tool) ==
    \/ tool.filters = "malformed"
    \/ \E field \in Field :
         RefusedList(tool.nested[field]) \/ RefusedList(tool.top[field]) \/ Conflicting(tool, field)
    \/ \A field \in Field : Domains(tool, field) # <<>>

NoFilters == [field \in Field |-> <<>>]
SearchTool(filters) == [type |-> "web_search", name |-> NoText, filters |-> filters]
convertWebSearchTool(tool) == SearchTool([field \in Field |-> Domains(tool, field)])

-----------------------------------------------------------------------------
(* Tools.  form is "null", "nested" (an object under "function"), or "flat". *)

Unlisted == [field \in Field |-> Absent]
Tool(type, form, name) ==
    [type |-> type, form |-> form, name |-> name,
     filters |-> "absent", nested |-> Unlisted, top |-> Unlisted]

isWebSearchType(tool) == tool.type \in {"web_search", "web_search_preview"}

\* A search tool comes out of convertWebSearchTool without its other fields; a nested
\* function becomes a flat one; everything else passes through.
flattenTool(tool) ==
    IF isWebSearchType(tool) THEN convertWebSearchTool(tool)
    ELSE [type |-> IF tool.form = "nested" THEN "function" ELSE tool.type,
          name |-> tool.name, filters |-> NoFilters]

\* web_search_options asks for a search, and no tool has exactly that type.
AddSearch(request) ==
    /\ request.web_search_options
    /\ \A i \in DOMAIN request.tools : request.tools[i].type # "web_search"

rawTools(request) ==
    request.tools \o (IF AddSearch(request) THEN <<Tool("web_search", "flat", NoText)>> ELSE <<>>)

\* null entries are dropped.
convertTools(request) ==
    LET tools == Selected(rawTools(request), LAMBDA t : t.form # "null")
    IN  [i \in DOMAIN tools |-> flattenTool(tools[i])]

\* A variation: the name stays under "function", where the upstream does not look.
flattenToolChoice_nested(choice) ==
    [type |-> choice.type, name |-> IF choice.form = "flat" THEN choice.name ELSE NoText]

\* A string ("auto", "none", "required"), or the type and name of a tool, flattened.
flattenToolChoice(choice) ==
    [type |-> IF choice.form = "nested" THEN "function" ELSE choice.type, name |-> choice.name]

-----------------------------------------------------------------------------
\* What a client may send, "custom" for any type without a meaning here; null has none.
ListType == [form : {"absent", "malformed", "list"}, domains : Seq(STRING)]
ToolKind == {"function", "custom", "web_search", "web_search_preview"}
ToolType ==
    [type : ToolKind, form : {"flat", "nested"}, name : Names \cup {NoText},
     filters : {"absent", "malformed", "object"}, nested : [Field -> ListType], top : [Field -> ListType]]
    \cup {Tool("null", "null", NoText)}
ChatRequest ==
    [messages : Seq([role : Role, content : Seq(Part)]), tools : Seq(ToolType),
     web_search_options : BOOLEAN,
     tool_choice : [type : ToolKind \cup {"absent", "auto", "none", "required"},
                    form : {"flat", "nested"}, name : Names \cup {NoText}]]

Refused(request) ==
    \/ request.messages = <<>>
    \/ \E i \in DOMAIN request.tools :
         isWebSearchType(request.tools[i]) /\ RefusedSearch(request.tools[i])

ConvertChatRequest(request) ==
    [input |-> convertMessages(request.messages),
     tools |-> convertTools(request),
     tool_choice |-> flattenToolChoice(request.tool_choice)]
=============================================================================
