----------------------------- MODULE ChatStream -----------------------------
(***************************************************************************)
(* What a streamed chat completion promises its reader: the chunk that      *)
(* names the role, once, before any text or tool call; each tool call       *)
(* announced under the next index, before any of its arguments; one chunk   *)
(* with the finish reason, "tool_calls" exactly when a call was announced;  *)
(* then the end marker, with nothing after it.  An upstream error is an     *)
(* error chunk with an end marker of its own, ahead of the closing pair.    *)
(***************************************************************************)
EXTENDS Naturals

VARIABLES
    phase,          \* how far the reader has got
    calls,          \* tool calls announced so far
    chunk           \* the chunk read last

streamVars == <<phase, calls, chunk>>

\* index is a tool call's, reason a finish chunk's; other chunks leave them blank.
Chunk(kind) == [kind |-> kind, index |-> 0, reason |-> "none"]
IndexedChunk(kind, index) == [Chunk(kind) EXCEPT !.index = index]
FinishChunk(reason) == [Chunk("finish") EXCEPT !.reason = reason]

StreamInit == phase = "empty" /\ calls = 0 /\ chunk = Chunk("none")

Read(c, from, to) == phase \in from /\ phase' = to /\ chunk' = c

Role == Read(Chunk("role"), {"empty"}, "body") /\ UNCHANGED calls

Text == Read(Chunk("text"), {"body"}, "body") /\ UNCHANGED calls

Call == Read(IndexedChunk("call", calls), {"body"}, "body") /\ calls' = calls + 1

Arguments ==
    /\ \E index \in 0..(calls - 1) : Read(IndexedChunk("args", index), {"body"}, "body")
    /\ UNCHANGED calls

Fail ==
    /\ \/ Read(Chunk("error"), {"empty", "body"}, "failing")
       \/ Read(Chunk("done"), {"failing"}, "failed")
    /\ UNCHANGED calls

Finish ==
    /\ \E reason \in IF calls > 0 THEN {"tool_calls"} ELSE {"stop", "length"} :
         Read(FinishChunk(reason), {"empty", "body", "failed"}, "closing")
    /\ UNCHANGED calls

End == Read(Chunk("done"), {"closing"}, "closed") /\ UNCHANGED calls

StreamNext == Role \/ Text \/ Call \/ Arguments \/ Fail \/ Finish \/ End

StreamSpec == StreamInit /\ [][StreamNext]_streamVars
=============================================================================
