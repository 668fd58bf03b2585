-------------------------- MODULE StreamConverter --------------------------
(***************************************************************************)
(* The conversion of an upstream Responses stream into chat completion      *)
(* chunks (converter/stream.go), one event at a time, one write at a time:  *)
(* the client may go away between any two writes, and every later write     *)
(* fails with an error nobody looks at.  What the converter remembers after *)
(* that no longer reaches anybody; the model goes on as if writes succeeded. *)
(*                                                                         *)
(* The upstream is external: it may send its events in any order, nothing   *)
(* after response.completed or error, and may break off anywhere (end of    *)
(* input, a read error, a line longer than the scanner's buffer).  Lines    *)
(* that are no event the converter knows have no effect and are left out,   *)
(* as are the texts themselves.  Of the token counts one is followed.       *)
(***************************************************************************)
EXTENDS Naturals, Selection

CONSTANTS
    Items,          \* item ids of function calls
    Counts,         \* token counts an upstream reports
    MaxEvents       \* bound: events of one stream

ASSUME CountsAssumption == Counts \subseteq Nat

VARIABLES
    received,       \* the events read so far
    started,        \* c.started
    finished,       \* c.finished
    tools,          \* c.tools: item ids in the order of their indexes
    status,         \* the local status of ProcessStream
    usage,          \* the local usage: a token count, or none
    lastUsage,      \* c.lastUsage
    writes,         \* chunks the current event still has to write
    returned,       \* ProcessStream has returned
    gone,           \* the client has disconnected
    sent            \* the chunks the client received

converterVars ==
    <<received, started, finished, tools, status, usage, lastUsage, writes, returned, gone, sent>>

\* The chunk constructors of the specification of the output.
Shape == INSTANCE ChatStream WITH phase <- 0, calls <- 0, chunk <- 0

\* A report of the tokens used is a sequence of at most one count.
Usage == {<<>>} \cup {<<n>> : n \in Counts}

Event == [type : {"text", "error"}]
            \cup [type : {"added"}, item : Items, arguments : BOOLEAN]   \* any given yet
            \cup [type : {"args"}, item : Items]
            \cup [type : {"completed"}, status : {"completed", "incomplete"}, usage : Usage]

ConverterTypeOK ==
    /\ received \in Seq(Event)
    /\ {started, finished, returned, gone} \subseteq BOOLEAN
    /\ tools \in Seq(Items) /\ IsInjective(tools)
    /\ status \in {"none", "completed", "incomplete"}
    /\ {usage, lastUsage} \subseteq Usage

ConverterInit ==
    /\ received = <<>> /\ sent = <<>> /\ writes = <<>> /\ tools = <<>>
    /\ started = FALSE /\ finished = FALSE /\ returned = FALSE /\ gone = FALSE
    /\ status = "none" /\ usage = <<>> /\ lastUsage = <<>>

-----------------------------------------------------------------------------
(* What each event makes of the converter's state, and what it writes. *)

Known(item) == item \in ToSet(tools)
IndexOf(item) == (CHOOSE i \in DOMAIN tools : tools[i] = item) - 1

\* The role chunk goes first, if it has not been sent.
AfterStart(chunks) ==
    /\ started' = TRUE
    /\ writes' = IF started THEN chunks ELSE <<Shape!Chunk("role")>> \o chunks

textDelta ==
    /\ AfterStart(<<Shape!Chunk("text")>>)
    /\ UNCHANGED <<finished, tools, status, usage, lastUsage>>

\* A variation: the map is not asked whether it has the item.
toolStart_again(item, arguments) ==
    /\ AfterStart(<<Shape!IndexedChunk("call", Len(tools))>>)
    /\ tools' = Append(tools, item)
    /\ UNCHANGED <<finished, status, usage, lastUsage>>

\* A second announcement of an item finds it in the map.  The arguments an announcement
\* brings go into the map as well, where nothing reads them: the chunk says "".
toolStart(item, arguments) ==
    /\ AfterStart(IF Known(item) THEN <<>> ELSE <<Shape!IndexedChunk("call", Len(tools))>>)
    /\ tools' = IF Known(item) THEN tools ELSE Append(tools, item)
    /\ UNCHANGED <<finished, status, usage, lastUsage>>

\* A variation: the deltas of every tool go to the last one announced.
toolDelta_last(item) ==
    /\ writes' = IF Known(item) THEN <<Shape!IndexedChunk("args", Len(tools) - 1)>> ELSE <<>>
    /\ UNCHANGED <<started, finished, tools, status, usage, lastUsage>>

toolDelta(item) ==
    /\ writes' = IF Known(item) THEN <<Shape!IndexedChunk("args", IndexOf(item))>> ELSE <<>>
    /\ UNCHANGED <<started, finished, tools, status, usage, lastUsage>>

\* A variation: an incomplete response is told by its length, tools or not.
Reason_incompleteFirst(st) ==
    IF st = "incomplete" THEN "length" ELSE IF tools # <<>> THEN "tool_calls" ELSE "stop"

Reason(st) ==
    IF tools # <<>> THEN "tool_calls" ELSE IF st = "incomplete" THEN "length" ELSE "stop"

\* A variation: finished is never set.
done_unmarked(st, count) ==
    /\ lastUsage' = count
    /\ writes' = <<Shape!FinishChunk(Reason(st)), Shape!Chunk("done")>>
    /\ UNCHANGED <<started, finished, tools>>

\* finished is set unless the first write returns an error.  It need not when the client
\* is gone: the error of a flush is only seen by the write after it.
done(st, count) ==
    /\ lastUsage' = count
    /\ writes' = <<Shape!FinishChunk(Reason(st)), Shape!Chunk("done")>>
    /\ finished' \in {TRUE, ~gone}
    /\ UNCHANGED <<started, tools>>

streamError ==
    /\ writes' = <<Shape!Chunk("error"), Shape!Chunk("done")>>
    /\ UNCHANGED <<started, finished, tools, status, usage, lastUsage>>

handleEvent(event) ==
    \/ event.type = "text" /\ textDelta
    \/ event.type = "added" /\ toolStart(event.item, event.arguments)
    \/ event.type = "args" /\ toolDelta(event.item)
    \/ /\ event.type = "completed"
       /\ status' = event.status
       /\ usage' = IF event.usage = <<>> THEN usage ELSE event.usage
       /\ done(status', usage')
    \/ event.type = "error" /\ streamError

-----------------------------------------------------------------------------
(* ProcessStream *)

\* What the upstream never follows with another event.
Final(event) == event.type \in {"completed", "error"}

Receive ==
    /\ ~returned /\ writes = <<>>
    /\ Len(received) < MaxEvents
    /\ received # <<>> => ~Final(Last(received))
    /\ \E event \in Event : received' = Append(received, event) /\ handleEvent(event)
    /\ UNCHANGED <<returned, gone, sent>>

Write ==
    /\ writes # <<>>
    /\ writes' = Tail(writes)
    /\ sent' = IF gone THEN sent ELSE Append(sent, Head(writes))
    /\ UNCHANGED <<received, started, finished, tools, status, usage, lastUsage, returned, gone>>

\* A variation: a stream that is not known to be finished is closed without a usage.
EndOfStream_uncounted ==
    /\ ~returned /\ writes = <<>>
    /\ returned' = TRUE
    /\ \/ finished /\ UNCHANGED <<started, finished, tools, lastUsage, writes>>
       \/ ~finished /\ done(status, <<>>)
    /\ UNCHANGED <<received, status, usage, gone, sent>>

\* The scanner stops: the stream is closed unless response.completed did it.
EndOfStream ==
    /\ ~returned /\ writes = <<>>
    /\ returned' = TRUE
    /\ \/ finished /\ UNCHANGED <<started, finished, tools, lastUsage, writes>>
       \/ ~finished /\ done(status, usage)
    /\ UNCHANGED <<received, status, usage, gone, sent>>

Disconnect ==
    /\ ~gone
    /\ gone' = TRUE
    /\ UNCHANGED <<received, started, finished, tools, status, usage, lastUsage, writes, returned, sent>>

ConverterNext == Receive \/ Write \/ EndOfStream \/ Disconnect

ConverterSpec == ConverterInit /\ [][ConverterNext]_converterVars

-----------------------------------------------------------------------------
\* The stream as its reader sees it.
Of(kinds) == Selected(sent, LAMBDA c : c.kind \in kinds)

Phase ==
    IF sent = <<>> THEN "empty"
    ELSE CASE Last(sent).kind = "error"  -> "failing"
           [] Last(sent).kind = "finish" -> "closing"
           [] Last(sent).kind = "done"   -> IF Of({"finish"}) = <<>> THEN "failed" ELSE "closed"
           [] OTHER                      -> "body"

Stream == INSTANCE ChatStream WITH
    phase <- Phase,
    calls <- Len(Of({"call"})),
    chunk <- IF sent = <<>> THEN Shape!Chunk("none") ELSE Last(sent)

\* Chunk by chunk the output is a chat completion stream, whatever the upstream
\* sends and wherever it breaks off, for a client that leaves at any point too.
IsChatStream == Stream!StreamSpec

\* What events become, by their definition: a call is announced the first time its item
\* appears, with no arguments; deltas of its arguments follow under the same index.
Announced(i) == {received[j].item : j \in {k \in 1..(i - 1) : received[k].type = "added"}}
FirstAdded(item) == CHOOSE j \in DOMAIN received :
    received[j].type = "added" /\ received[j].item = item /\ item \notin Announced(j)

Image(i) ==
    LET e == received[i]
    IN  CASE e.type = "text" -> <<Shape!Chunk("text")>>
          [] e.type = "added" /\ e.item \notin Announced(i) ->
                <<Shape!IndexedChunk("call", Cardinality(Announced(i)))>>
          [] e.type = "args" /\ e.item \in Announced(i) ->
                <<Shape!IndexedChunk("args", Cardinality(Announced(FirstAdded(e.item))))>>
          [] OTHER -> <<>>

\* A client that stayed gets every delta the upstream sent, of the text and of the
\* arguments of a call that was announced before, in order, each under the call it
\* belongs to, and nothing else.  What it never gets are arguments that come with an
\* announcement: of a call that is announced whole it sees the name only.
DeltasArrive ==
    writes = <<>> /\ ~gone =>
        Of({"text", "call", "args"}) = FlattenSeq([i \in DOMAIN received |-> Image(i)])

\* Once ProcessStream has returned, a client that stayed has been told how the
\* completion ended: by "length" if and only if the upstream said incomplete
\* and no tool was called.  (A stream that breaks off or fails is closed like one that
\* is complete.)
EndIsTold ==
    returned /\ writes = <<>> /\ ~gone =>
        /\ Len(sent) >= 2 /\ Last(sent).kind = "done"
        /\ Of({"finish"})[1].reason = "length" <=>
              /\ \E e \in ToSet(received) : e.type = "completed" /\ e.status = "incomplete"
              /\ ~\E e \in ToSet(received) : e.type = "added"
=============================================================================
