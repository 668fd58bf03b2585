----------------------------- MODULE ToolTurns -----------------------------
(***************************************************************************)
(* A conversation with tool calls, turn after turn: the upstream's output   *)
(* is captured for its reasoning proofs (CaptureReasoningFromOutput) and    *)
(* becomes a chat completion (ConvertResponsesToChat); the client sends the *)
(* whole conversation back, and convertMessages puts the proofs the cache   *)
(* still holds in front of the calls they belong to.  Other conversations   *)
(* share the cache meanwhile.                                              *)
(*                                                                         *)
(* Of a request only the assistant's tool calls are modelled, of an output  *)
(* only the order of its items; texts, names and arguments are left out.    *)
(* The upstream is external: it gives every call an id of its own.          *)
(***************************************************************************)
EXTENDS ReasoningCache, Selection

CONSTANTS
    OwnCalls,       \* call ids of this conversation
    NoCall,         \* a call without an id
    NoProof,        \* a reasoning item without an id or without its content
    MaxItems,       \* bound: items of one output
    MaxTurns        \* bound: outputs in the conversation

ASSUME TurnsAssumption ==
    OwnCalls \subseteq CallIDs /\ NoCall \notin CallIDs /\ NoProof \notin Proofs

VARIABLES
    pc,             \* "upstream", "capture", "client" or "convert"
    output,         \* the upstream's output, until it is delivered
    pairs,          \* calls and proofs still to be put into the cache
    messages,       \* the calls in the client's copy of the conversation
    rest,           \* those the request in conversion has not reached
    input,          \* what convertMessages has made of the others
    turns,          \* outputs so far
    given           \* history: which call followed which proof

turnVars == <<cacheVars, pc, output, pairs, messages, rest, input, turns, given>>

-----------------------------------------------------------------------------
Reasoning(proof) == [type |-> "reasoning", proof |-> proof, call |-> NoCall]
FunctionCall(call) == [type |-> "function_call", proof |-> NoProof, call |-> call]
Message == [type |-> "message", proof |-> NoProof, call |-> NoCall]

Item == {Reasoning(p) : p \in Proofs \cup {NoProof}}
            \cup {FunctionCall(c) : c \in OwnCalls \cup {NoCall}} \cup {Message}

\* The ids of an output's calls, in order: the tool_calls of the chat message.
toolCalls(out) == [i \in DOMAIN Selected(out, LAMBDA e : e.type = "function_call") |->
                     Selected(out, LAMBDA e : e.type = "function_call")[i].call]

\* Variations of the capture below: a proof goes to every call after it; a message
\* takes the proof.
Capture_all(acc, e) ==
    CASE e.type = "reasoning" /\ e.proof # NoProof -> [acc EXCEPT !.proof = e.proof]
      [] e.type = "function_call" /\ acc.proof # NoProof /\ e.call # NoCall ->
           [acc EXCEPT !.pairs = Append(@, <<e.call, acc.proof>>)]
      [] OTHER -> acc

Capture_taken(acc, e) ==
    CASE e.type = "reasoning" /\ e.proof # NoProof -> [acc EXCEPT !.proof = e.proof]
      [] e.type = "function_call" /\ acc.proof # NoProof /\ e.call # NoCall ->
           [proof |-> NoProof, pairs |-> Append(acc.pairs, <<e.call, acc.proof>>)]
      [] OTHER -> [acc EXCEPT !.proof = NoProof]

\* CaptureReasoningFromOutput: one pass, with the proof that waits for its call.
Capture(acc, e) ==
    CASE e.type = "reasoning" /\ e.proof # NoProof -> [acc EXCEPT !.proof = e.proof]
      [] e.type = "function_call" /\ acc.proof # NoProof ->
           [proof |-> NoProof,
            pairs |-> IF e.call = NoCall THEN acc.pairs
                      ELSE Append(acc.pairs, <<e.call, acc.proof>>)]
      [] OTHER -> acc

Captures(out) ==
    LET after[i \in 0..Len(out)] ==
            IF i = 0 THEN [proof |-> NoProof, pairs |-> <<>>] ELSE Capture(after[i - 1], out[i])
    IN  after[Len(out)].pairs

\* The same by its definition: a call has the proof that came last before it,
\* if no other call has come between them.
Follows(out) ==
    {pair \in OwnCalls \X Proofs :
        \E i, j \in DOMAIN out :
            /\ i < j
            /\ out[i] = Reasoning(pair[2])
            /\ out[j] = FunctionCall(pair[1])
            /\ \A k \in i + 1..j - 1 : out[k].type = "message" \/ out[k] = Reasoning(NoProof)}

-----------------------------------------------------------------------------
TurnsInit ==
    /\ CacheInit
    /\ pc = "upstream" /\ turns = 0
    /\ output = <<>> /\ pairs = <<>> /\ messages = <<>> /\ rest = <<>> /\ input = <<>>
    /\ given = {}

\* Call ids are new, and no two calls share one.
Fresh(out) ==
    \A i, j \in DOMAIN out :
        out[i].call # NoCall => /\ out[i].call \notin ToSet(messages)
                                /\ out[i].call = out[j].call => i = j

Respond ==
    /\ pc = "upstream"
    /\ turns < MaxTurns
    /\ turns' = turns + 1
    /\ \E n \in 1..MaxItems : \E out \in [1..n -> Item] :
         /\ Fresh(out)
         /\ output' = out
         /\ pairs' = Captures(out)
         /\ given' = given \cup Follows(out)
    /\ pc' = "capture"
    /\ UNCHANGED <<cacheVars, messages, rest, input>>

StoreProof ==
    /\ pc = "capture"
    /\ pairs # <<>>
    /\ Set(Head(pairs)[1], Head(pairs)[2])
    /\ pairs' = Tail(pairs)
    /\ UNCHANGED <<pc, output, messages, rest, input, turns, given>>

\* The client gets the completion and adds it to the conversation.
Deliver ==
    /\ pc = "capture"
    /\ pairs = <<>>
    /\ messages' = messages \o toolCalls(output)
    /\ output' = <<>>
    /\ pc' = "client"
    /\ UNCHANGED <<cacheVars, pairs, rest, input, turns, given>>

Request ==
    /\ pc = "client"
    /\ rest' = messages
    /\ input' = <<>>
    /\ pc' = "convert"
    /\ UNCHANGED <<cacheVars, output, pairs, messages, turns, given>>

\* convertMessages, one tool call: Get finds nothing for the empty id.
ConvertCall ==
    /\ pc = "convert"
    /\ rest # <<>>
    /\ input' = input \o (IF Head(rest) # NoCall /\ Hit(Head(rest))
                          THEN <<Reasoning(entries[Head(rest)].item)>> ELSE <<>>)
                      \o <<FunctionCall(Head(rest))>>
    /\ rest' = Tail(rest)
    /\ UNCHANGED <<cacheVars, pc, output, pairs, messages, turns, given>>

Send ==
    /\ pc = "convert"
    /\ rest = <<>>
    /\ pc' = "upstream"
    /\ UNCHANGED <<cacheVars, output, pairs, messages, rest, input, turns, given>>

\* Another conversation's proof, and time.
Others ==
    /\ \/ \E callID \in CallIDs \ OwnCalls, item \in Proofs : Set(callID, item)
       \/ Tick
    /\ UNCHANGED <<pc, output, pairs, messages, rest, input, turns, given>>

TurnsNext ==
    Respond \/ StoreProof \/ Deliver \/ Request \/ ConvertCall \/ Send \/ Others

TurnsSpec == TurnsInit /\ [][TurnsNext]_turnVars

-----------------------------------------------------------------------------
\* Every proof replayed stands in front of the call it led to, and that call only:
\* never another turn's, another conversation's or a parallel call's proof.
ReplayIsFaithful ==
    \A i \in DOMAIN input :
        input[i].type = "reasoning" =>
            i < Len(input) /\ <<input[i + 1].call, input[i].proof>> \in given

\* A proof is replayed with its call unless it has expired or as many others as the
\* cache has room for were stored after it.
ReplayIsComplete ==
    \A i \in DOMAIN input, pair \in given :
        /\ input[i] = FunctionCall(pair[1])
        /\ last[pair[1]].since < Capacity /\ now - last[pair[1]].at <= TTL
        => i > 1 /\ input[i - 1] = Reasoning(pair[2])
=============================================================================
