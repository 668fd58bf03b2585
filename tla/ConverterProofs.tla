-------------------------- MODULE ConverterProofs --------------------------
(***************************************************************************)
(* Proofs about StreamConverter, for streams of any length over any items:  *)
(* the output is a chat completion stream, loses no delta and ends as it    *)
(* should.  A client that has left sees no more of it, so the invariants on *)
(* the output are about one that stayed.                                   *)
(***************************************************************************)
EXTENDS StreamConverter, SequenceLemmas, FiniteSetTheorems

-----------------------------------------------------------------------------
(* Chunks *)

ChunkType ==
    [kind : {"none", "role", "text", "call", "args", "error", "finish", "done"},
     index : Nat, reason : {"none", "tool_calls", "length", "stop"}]

\* The constructors, in full, by either of their names.
LEMMA Constructors ==
    /\ \A kind : Shape!Chunk(kind) = [kind |-> kind, index |-> 0, reason |-> "none"]
    /\ \A kind : Stream!Chunk(kind) = Shape!Chunk(kind)
    /\ \A kind, index :
         /\ Shape!IndexedChunk(kind, index) = [kind |-> kind, index |-> index, reason |-> "none"]
         /\ Stream!IndexedChunk(kind, index) = Shape!IndexedChunk(kind, index)
    /\ \A reason :
         /\ Shape!FinishChunk(reason) = [kind |-> "finish", index |-> 0, reason |-> reason]
         /\ Stream!FinishChunk(reason) = Shape!FinishChunk(reason)
  BY DEF Shape!Chunk, Stream!Chunk, Shape!IndexedChunk, Stream!IndexedChunk,
         Shape!FinishChunk, Stream!FinishChunk

LEMMA ChunkTypes ==
    /\ \A kind \in {"role", "text", "error", "done"} : Shape!Chunk(kind) \in ChunkType
    /\ \A kind \in {"call", "args"}, index \in Nat : Shape!IndexedChunk(kind, index) \in ChunkType
    /\ \A st : Shape!FinishChunk(Reason(st)) \in ChunkType
  BY Constructors DEF ChunkType, Reason

-----------------------------------------------------------------------------
(* Types, and what the locals hold of the events read so far. *)

ConverterTyped == ConverterTypeOK /\ sent \in Seq(ChunkType) /\ writes \in Seq(ChunkType)

Completed == received # <<>> /\ Last(received).type = "completed"
Failed == received # <<>> /\ Last(received).type = "error"

ReceivedInv ==
    /\ \A i \in DOMAIN received : Final(received[i]) => i = Len(received)
    /\ status = IF Completed THEN Last(received).status ELSE "none"
    /\ usage = IF Completed THEN Last(received).usage ELSE <<>>
    /\ lastUsage = usage
    /\ ToSet(tools) = Announced(Len(received) + 1)
    /\ tools # <<>> => started

LEMMA ConverterTypedInit == ConverterInit => ConverterTyped
<1>1. IsInjective(<<>>) /\ <<>> \in Usage
  BY DEF IsInjective, Usage
<1>. QED  BY <1>1, ShortSeqs DEF ConverterInit, ConverterTyped, ConverterTypeOK

\* An item that is not in the map gets the next index.
LEMMA AppendItem ==
    ASSUME tools \in Seq(Items), IsInjective(tools), NEW item \in Items, ~Known(item)
    PROVE  Append(tools, item) \in Seq(Items) /\ IsInjective(Append(tools, item))
<1>1. \A i \in DOMAIN tools : tools[i] # item
  BY DEF Known, ToSet
<1>2. \A i, j \in DOMAIN tools : tools[i] = tools[j] => i = j
  BY DEF IsInjective
<1>. QED  BY <1>1, <1>2 DEF IsInjective

\* The index of an item in the map is the place of its announcement.
LEMMA IndexInTools ==
    ASSUME tools \in Seq(Items), NEW item, Known(item)
    PROVE  /\ IndexOf(item) \in 0..(Len(tools) - 1)
           /\ tools[IndexOf(item) + 1] = item
<1>1. PICK i \in DOMAIN tools : tools[i] = item
  BY DEF Known, ToSet
<1>. DEFINE n == CHOOSE j \in DOMAIN tools : tools[j] = item
<1>2. n \in DOMAIN tools /\ tools[n] = item
  BY <1>1
<1>3. IndexOf(item) = n - 1
  BY DEF IndexOf
<1>. HIDE DEF n
<1>. QED  BY <1>2, <1>3

\* What an event writes are chunks.
LEMMA WritesTyped ==
    ASSUME ConverterTyped, NEW event \in Event, handleEvent(event)
    PROVE  writes' \in Seq(ChunkType)
<1>. USE ChunkTypes, ShortSeqs, ShortConcats DEF ConverterTyped, ConverterTypeOK
<1>0. ASSUME NEW c \in ChunkType
      PROVE  /\ AfterStart(<<c>>) => writes' \in Seq(ChunkType)
             /\ AfterStart(<<>>) => writes' \in Seq(ChunkType)
  <2>1. Shape!Chunk("role") \in ChunkType
    OBVIOUS
  <2>. QED  BY <2>1 DEF AfterStart
<1>1. CASE textDelta
  <2>1. Shape!Chunk("text") \in ChunkType
    OBVIOUS
  <2>. QED  BY <1>0, <1>1, <2>1 DEF textDelta
<1>2. CASE toolStart(event.item, event.arguments)
  <2>1. Shape!IndexedChunk("call", Len(tools)) \in ChunkType
    OBVIOUS
  <2>2. CASE Known(event.item)
    BY <1>0, <1>2, <2>1, <2>2 DEF toolStart
  <2>3. CASE ~Known(event.item)
    BY <1>0, <1>2, <2>1, <2>3 DEF toolStart
  <2>. QED  BY <2>2, <2>3
<1>3. CASE toolDelta(event.item)
  <2>1. CASE Known(event.item)
    <3>1. IndexOf(event.item) \in Nat
      BY <2>1, IndexInTools
    <3>2. Shape!IndexedChunk("args", IndexOf(event.item)) \in ChunkType
      BY <3>1
    <3>. QED  BY <1>3, <2>1, <3>2 DEF toolDelta
  <2>2. CASE ~Known(event.item)
    BY <1>3, <2>2 DEF toolDelta
  <2>. QED  BY <2>1, <2>2
<1>4. CASE done(status', usage')
  BY <1>4 DEF done
<1>5. CASE streamError
  BY <1>5 DEF streamError
<1>. QED  BY <1>1, <1>2, <1>3, <1>4, <1>5 DEF handleEvent

LEMMA TypedReceive == ConverterTyped /\ Receive => ConverterTyped'
<1>. SUFFICES ASSUME ConverterTyped, Receive PROVE ConverterTyped'
  OBVIOUS
<1>1. PICK event \in Event : received' = Append(received, event) /\ handleEvent(event)
  BY DEF Receive
<1>2. writes' \in Seq(ChunkType) /\ sent' \in Seq(ChunkType) /\ received' \in Seq(Event)
  BY <1>1, WritesTyped DEF ConverterTyped, ConverterTypeOK, Receive
<1>3. tools' \in Seq(Items) /\ IsInjective(tools')
  <2>1. CASE event.type = "added"
    <3>1. event.item \in Items
      BY <2>1 DEF Event
    <3>. QED  BY <1>1, <2>1, <3>1, AppendItem DEF handleEvent, toolStart, ConverterTyped, ConverterTypeOK
  <2>2. CASE event.type # "added"
    BY <1>1, <2>2 DEF handleEvent, textDelta, toolDelta, done, streamError, ConverterTyped, ConverterTypeOK
  <2>. QED  BY <2>1, <2>2
<1>4. /\ {started', finished', returned', gone'} \subseteq BOOLEAN
      /\ status' \in {"none", "completed", "incomplete"} /\ {usage', lastUsage'} \subseteq Usage
  BY <1>1 DEF handleEvent, textDelta, toolStart, toolDelta, done, streamError, AfterStart, Event,
              Receive, ConverterTyped, ConverterTypeOK
<1>. QED  BY <1>2, <1>3, <1>4 DEF ConverterTyped, ConverterTypeOK

LEMMA ConverterTypedNext == ConverterTyped /\ [ConverterNext]_converterVars => ConverterTyped'
<1>. SUFFICES ASSUME ConverterTyped, [ConverterNext]_converterVars PROVE ConverterTyped'
  OBVIOUS
<1>. USE DEF ConverterTyped, ConverterTypeOK
<1>1. CASE Receive
  BY <1>1, TypedReceive
<1>2. CASE Write
  <2>1. Head(writes) \in ChunkType /\ Tail(writes) \in Seq(ChunkType)
    BY <1>2 DEF Write
  <2>. QED  BY <1>2, <2>1 DEF Write
<1>3. CASE EndOfStream
  <2>1. writes' \in Seq(ChunkType)
    BY <1>3, ChunkTypes, ShortSeqs DEF EndOfStream, done
  <2>. QED  BY <1>3, <2>1 DEF EndOfStream, done
<1>4. CASE Disconnect \/ UNCHANGED converterVars
  BY <1>4 DEF Disconnect, converterVars
<1>. QED  BY <1>1, <1>2, <1>3, <1>4 DEF ConverterNext

-----------------------------------------------------------------------------
(* What the locals hold of the events read so far. *)

\* An event more, at the end.
LEMMA AppendEvent ==
    ASSUME ConverterTyped, NEW event \in Event, received' = Append(received, event)
    PROVE  /\ Len(received') = Len(received) + 1 /\ received' # <<>>
           /\ \A i \in DOMAIN received : received'[i] = received[i]
           /\ received'[Len(received) + 1] = event /\ Last(received') = event
           /\ \A i \in 1..(Len(received) + 1) : Announced(i)' = Announced(i)
           /\ Announced(Len(received) + 1)'
                = Announced(Len(received) + 1)
                    \cup (IF event.type = "added" THEN {event.item} ELSE {})
<1>. USE DEF ConverterTyped, ConverterTypeOK
<1>1. /\ Len(received') = Len(received) + 1 /\ received' # <<>>
      /\ \A i \in DOMAIN received : received'[i] = received[i]
      /\ received'[Len(received) + 1] = event
      /\ DOMAIN received = 1..Len(received) /\ Len(received) \in Nat
  OBVIOUS
<1>2. Last(received') = event
  BY <1>1 DEF Last
<1>3. ASSUME NEW i \in 1..(Len(received) + 1) PROVE Announced(i)' = Announced(i)
  <2>1. \A k \in 1..(i - 1) : received'[k] = received[k]
    BY <1>1
  <2>. QED  BY <2>1 DEF Announced
<1>4. Announced(Len(received) + 1)'
        = Announced(Len(received) + 1) \cup (IF event.type = "added" THEN {event.item} ELSE {})
  <2>1. PICK n \in Nat : n = Len(received)
    BY <1>1
  <2>2. 1..((n + 2) - 1) = (1..((n + 1) - 1)) \cup {n + 1}
    OBVIOUS
  <2>3. /\ \A k \in 1..((n + 1) - 1) : received'[k] = received[k]
        /\ Len(received') + 1 = n + 2 /\ received'[n + 1] = event
    BY <1>1, <2>1
  <2>4. Announced(n + 2)' = Announced(n + 1) \cup (IF event.type = "added" THEN {event.item} ELSE {})
    BY <2>2, <2>3 DEF Announced
  <2>5. Announced(Len(received) + 1)' = Announced(n + 2)'
    BY <2>3 DEF Announced
  <2>. QED  BY <2>1, <2>4, <2>5
<1>. QED  BY <1>1, <1>2, <1>3, <1>4

LEMMA ReceivedInit == ConverterInit => ReceivedInv
  BY DEF ConverterInit, ReceivedInv, Completed, ToSet, Announced

LEMMA ReceivedReceive == ConverterTyped /\ ReceivedInv /\ Receive => ReceivedInv'
<1>. SUFFICES ASSUME ConverterTyped, ReceivedInv, Receive PROVE ReceivedInv'
  OBVIOUS
<1>1. PICK event \in Event : received' = Append(received, event) /\ handleEvent(event)
  BY DEF Receive
<1>. USE DEF ConverterTyped, ConverterTypeOK
<1>2. ~Completed /\ \A i \in DOMAIN received : ~Final(received[i])
  <2>1. received = <<>> \/ ~Final(Last(received))
    BY DEF Receive
  <2>. QED  BY <2>1 DEF ReceivedInv, Completed, Final, Last
<1>3. \A i \in DOMAIN received' : Final(received'[i]) => i = Len(received')
  BY <1>1, <1>2, AppendEvent
<1>4. Completed' <=> event.type = "completed"
  BY <1>1, AppendEvent DEF Completed
<1>5. /\ status' = IF Completed' THEN event.status ELSE "none"
      /\ usage' = IF Completed' THEN event.usage ELSE <<>>
      /\ lastUsage' = usage'
  <2>1. CASE event.type = "completed" /\ done(status', usage')
    <3>1. status' = event.status /\ usage' = event.usage
      BY <1>1, <1>2, <2>1 DEF handleEvent, ReceivedInv
    <3>. QED  BY <1>4, <2>1, <3>1 DEF done
  <2>2. CASE event.type # "completed" /\ UNCHANGED <<status, usage, lastUsage>>
    BY <1>2, <1>4, <2>2 DEF ReceivedInv
  <2>. QED
    BY <1>1, <2>1, <2>2 DEF handleEvent, textDelta, toolStart, toolDelta, streamError
<1>6. ToSet(tools') = Announced(Len(received) + 1)' /\ (tools' # <<>> => started')
  <2>1. CASE event.type = "added" /\ toolStart(event.item, event.arguments)
    <3>1. ToSet(tools') = ToSet(tools) \cup {event.item}
      <4>1. CASE Known(event.item)
        BY <2>1, <4>1 DEF toolStart, Known
      <4>2. CASE ~Known(event.item)
        <5>1. event.item \in Items
          BY <2>1 DEF Event
        <5>2. tools' = Append(tools, event.item)
          BY <2>1, <4>2 DEF toolStart
        <5>. QED  BY <5>1, <5>2, ToSetAppend
      <4>. QED  BY <4>1, <4>2
    <3>. QED  BY <1>1, <2>1, <3>1, AppendEvent DEF ReceivedInv, toolStart, AfterStart
  <2>2. CASE event.type # "added" /\ UNCHANGED tools /\ (started => started')
    BY <1>1, <2>2, AppendEvent DEF ReceivedInv
  <2>3. CASE event.type # "added"
    <3>1. UNCHANGED tools /\ (started => started')
      <4>1. CASE event.type = "completed"
        <5>1. UNCHANGED <<started, tools>>
          BY <1>1, <4>1 DEF handleEvent, done
        <5>. QED  BY <5>1
      <4>2. CASE event.type # "completed"
        BY <1>1, <2>3, <4>2 DEF handleEvent, textDelta, toolDelta, streamError, AfterStart
      <4>. QED  BY <4>1, <4>2
    <3>. QED  BY <2>2, <2>3, <3>1
  <2>4. CASE event.type = "added"
    <3>1. toolStart(event.item, event.arguments)
      BY <1>1, <2>4 DEF handleEvent
    <3>. QED  BY <2>1, <2>4, <3>1
  <2>. QED  BY <2>3, <2>4
<1>7. Last(received') = event
  BY <1>1, AppendEvent
<1>. QED  BY <1>3, <1>5, <1>6, <1>7 DEF ReceivedInv

LEMMA ReceivedNext == ConverterTyped /\ ReceivedInv /\ [ConverterNext]_converterVars => ReceivedInv'
<1>. SUFFICES ASSUME ConverterTyped, ReceivedInv, [ConverterNext]_converterVars PROVE ReceivedInv'
  OBVIOUS
<1>1. CASE Receive
  BY <1>1, ReceivedReceive
<1>2. CASE Write \/ EndOfStream \/ Disconnect \/ UNCHANGED converterVars
  <2>1. UNCHANGED <<received, status, usage, started, tools>> /\ lastUsage' \in {lastUsage, usage}
    BY <1>2 DEF Write, EndOfStream, done, Disconnect, converterVars
  <2>. QED  BY <2>1 DEF ReceivedInv, Completed, Announced
<1>. QED  BY <1>1, <1>2 DEF ConverterNext
-----------------------------------------------------------------------------
(* What has been sent, against what the current event still has to write. *)

NextCall == Shape!IndexedChunk("call", Len(tools) - 1)
Finish == Shape!FinishChunk(Reason(status))
Announcements == Len(Of({"call"}))

\* Between the first event and the last: the content of an event, behind the role
\* chunk if that is still to be written.  A call not yet announced to the client has
\* the highest index.
OpenInv ==
    /\ ~finished /\ ~returned /\ ~Completed /\ ~Failed
    /\ Of({"finish"}) = <<>>
    /\ \/ ~started /\ writes = <<>> /\ Phase = "empty" /\ Announcements = Len(tools)
       \/ /\ started
          /\ \E content \in Seq(ChunkType) :
               /\ \/ writes = <<Shape!Chunk("role")>> \o content /\ Phase = "empty"
                  \/ writes = content /\ Phase = "body"
               /\ \/ content = <<>> /\ Announcements = Len(tools)
                  \/ content = <<Shape!Chunk("text")>> /\ Announcements = Len(tools)
                  \/ content = <<NextCall>> /\ Announcements = Len(tools) - 1
                  \/ /\ Announcements = Len(tools)
                     /\ \E n \in 0..(Len(tools) - 1) : content = <<Shape!IndexedChunk("args", n)>>

\* After an error event.
FailedInv ==
    /\ ~finished /\ ~returned /\ Failed
    /\ Announcements = Len(tools) /\ Of({"finish"}) = <<>>
    /\ \/ writes = <<Shape!Chunk("error"), Shape!Chunk("done")>> /\ Phase \in {"empty", "body"}
       \/ writes = <<Shape!Chunk("done")>> /\ Phase = "failing"
       \/ writes = <<>> /\ Phase = "failed"

\* After response.completed, or once the stream was closed without it.
ClosedInv ==
    /\ finished /\ (returned \/ Completed)
    /\ Announcements = Len(tools)
    /\ \/ /\ writes = <<Finish, Shape!Chunk("done")>> /\ Phase \in {"empty", "body", "failed"}
          /\ Of({"finish"}) = <<>>
       \/ /\ writes = <<Shape!Chunk("done")>> /\ Phase = "closing"
          /\ Of({"finish"}) = <<Finish>>
       \/ /\ writes = <<>> /\ Phase = "closed" /\ Len(sent) >= 2
          /\ Of({"finish"}) = <<Finish>>

OutputInv == gone \/ OpenInv \/ FailedInv \/ ClosedInv

\* Of, for any sequence of chunks.
OfIn(kinds, s) == Selected(s, LAMBDA c : c.kind \in kinds)

LEMMA OfIsFilter ==
    ASSUME NEW s \in Seq(ChunkType), NEW kinds
    PROVE  OfIn(kinds, s) = Filter({c \in ChunkType : c.kind \in kinds}, s)
<1>. DEFINE K == {c \in ChunkType : c.kind \in kinds}
<1>1. \A i \in DOMAIN s : (s[i] \in K) <=> (s[i].kind \in kinds)
  OBVIOUS
<1>2. [i \in DOMAIN s |-> IF s[i].kind \in kinds THEN <<s[i]>> ELSE <<>>]
        = [i \in DOMAIN s |-> IF s[i] \in K THEN <<s[i]>> ELSE <<>>]
  <2>. HIDE DEF K
  <2>. QED  BY <1>1
<1>. QED  BY <1>2 DEF OfIn, Selected, Filter

\* A chunk more, at the end.
LEMMA AppendChunk ==
    ASSUME ConverterTyped, NEW c \in ChunkType, sent' = Append(sent, c)
    PROVE  /\ sent' # <<>> /\ Last(sent') = c /\ Len(sent') = Len(sent) + 1
           /\ \A kinds : /\ Of(kinds) \in Seq(ChunkType)
                         /\ Of(kinds)' = IF c.kind \in kinds THEN Append(Of(kinds), c) ELSE Of(kinds)
<1>. USE DEF ConverterTyped
<1>1. sent' # <<>> /\ Last(sent') = c /\ Len(sent') = Len(sent) + 1 /\ sent' \in Seq(ChunkType)
  BY DEF Last
<1>2. ASSUME NEW kinds
      PROVE  /\ Of(kinds) \in Seq(ChunkType)
             /\ Of(kinds)' = IF c.kind \in kinds THEN Append(Of(kinds), c) ELSE Of(kinds)
  <2>. DEFINE K == {d \in ChunkType : d.kind \in kinds}
  <2>1. Of(kinds) = OfIn(kinds, sent) /\ Of(kinds)' = OfIn(kinds, sent')
    BY DEF Of, OfIn, Selected
  <2>4. OfIn(kinds, sent) = Filter(K, sent) /\ OfIn(kinds, sent') = Filter(K, sent')
    BY <1>1, OfIsFilter
  <2>2. (c \in K) <=> (c.kind \in kinds)
    OBVIOUS
  <2>. HIDE DEF K
  <2>3. /\ Filter(K, sent) \in Seq(ChunkType)
        /\ Filter(K, Append(sent, c)) = IF c \in K THEN Append(Filter(K, sent), c) ELSE Filter(K, sent)
    BY FilterType, FilterAppend
  <2>. QED  BY <2>1, <2>2, <2>3, <2>4
<1>. QED  BY <1>1, <1>2

\* How far it takes the reader.
LEMMA PhaseNext ==
    ASSUME ConverterTyped, NEW c \in ChunkType, sent' = Append(sent, c)
    PROVE  /\ c.kind \in {"role", "text", "call", "args"} => Phase' = "body"
           /\ c.kind = "error" => Phase' = "failing"
           /\ c.kind = "finish" => Phase' = "closing"
           /\ c.kind = "done" => Phase' = IF Of({"finish"}) = <<>> THEN "failed" ELSE "closed"
           /\ c.kind = "finish" => Of({"finish"})' = Append(Of({"finish"}), c)
           /\ c.kind # "finish" => Of({"finish"})' = Of({"finish"})
           /\ Announcements \in Nat
           /\ Announcements' = IF c.kind = "call" THEN Announcements + 1 ELSE Announcements
<1>1. /\ sent' # <<>> /\ Last(sent') = c
      /\ Of({"finish"})' = IF c.kind \in {"finish"} THEN Append(Of({"finish"}), c) ELSE Of({"finish"})
      /\ Of({"call"}) \in Seq(ChunkType)
      /\ Of({"call"})' = IF c.kind \in {"call"} THEN Append(Of({"call"}), c) ELSE Of({"call"})
  BY AppendChunk
<1>2. c.kind = "finish" => Of({"finish"})' = Append(Of({"finish"}), c)
  BY <1>1
<1>3. c.kind # "finish" => Of({"finish"})' = Of({"finish"})
  BY <1>1
<1>4. /\ Announcements \in Nat
      /\ Announcements' = IF c.kind = "call" THEN Announcements + 1 ELSE Announcements
  BY <1>1 DEF Announcements
<1>. QED  BY <1>1, <1>2, <1>3, <1>4 DEF Phase

-----------------------------------------------------------------------------
\* Nothing sent, nothing seen.
LEMMA NothingSent ==
    ASSUME sent' = sent
    PROVE  /\ \A kinds : Of(kinds)' = Of(kinds)
           /\ Phase' = Phase /\ Announcements' = Announcements
<1>1. ASSUME NEW kinds PROVE Of(kinds)' = Of(kinds)
  <2>1. Of(kinds) = OfIn(kinds, sent) /\ Of(kinds)' = OfIn(kinds, sent')
    BY DEF Of, OfIn, Selected
  <2>. QED  BY <2>1
<1>. QED  BY <1>1 DEF Phase, Announcements

\* What everybody needs to know of the chunks written below.
LEMMA Kinds ==
    /\ \A kind : Shape!Chunk(kind).kind = kind
    /\ \A kind, index : Shape!IndexedChunk(kind, index).kind = kind
    /\ \A reason : Shape!FinishChunk(reason).kind = "finish"
  BY Constructors

\* What OutputInv says depends on these only.
LEMMA OutputStutter ==
    ASSUME OutputInv,
           UNCHANGED <<received, started, finished, tools, status, writes, returned, sent>>,
           gone' = gone \/ gone'
    PROVE  OutputInv'
<1>1. UNCHANGED <<Phase, Announcements, Completed, Failed, NextCall, Finish>>
  BY NothingSent DEF Completed, Failed, NextCall, Finish, Reason
<1>2. Of({"finish"})' = Of({"finish"})
  BY NothingSent
<1>3. OpenInv => OpenInv'
  BY <1>1, <1>2 DEF OpenInv
<1>4. FailedInv => FailedInv'
  BY <1>1, <1>2 DEF FailedInv
<1>5. ClosedInv => ClosedInv'
  BY <1>1, <1>2 DEF ClosedInv
<1>. QED  BY <1>3, <1>4, <1>5 DEF OutputInv

\* Between two events, with more to come.
LEMMA BetweenEvents ==
    ASSUME ConverterTyped, ReceivedInv, OutputInv, ~gone, ~returned, writes = <<>>,
           received # <<>> => ~Final(Last(received))
    PROVE  /\ OpenInv /\ Announcements = Len(tools)
           /\ Phase = IF started THEN "body" ELSE "empty"
<1>1. ~Completed /\ ~Failed
  BY DEF Completed, Failed, Final
<1>2. OpenInv
  BY <1>1 DEF OutputInv, FailedInv, ClosedInv
<1>3. CASE ~started
  BY <1>2, <1>3 DEF OpenInv
<1>4. CASE started
  <2>1. PICK content \in Seq(ChunkType) :
            /\ \/ writes = <<Shape!Chunk("role")>> \o content /\ Phase = "empty"
               \/ writes = content /\ Phase = "body"
            /\ \/ content = <<>> /\ Announcements = Len(tools)
               \/ content = <<Shape!Chunk("text")>> /\ Announcements = Len(tools)
               \/ content = <<NextCall>> /\ Announcements = Len(tools) - 1
               \/ /\ Announcements = Len(tools)
                  /\ \E n \in 0..(Len(tools) - 1) : content = <<Shape!IndexedChunk("args", n)>>
    BY <1>2, <1>4 DEF OpenInv
  <2>2. <<Shape!Chunk("role")>> \o content # <<>>
    BY ChunkTypes, HeadsAndTails
  <2>3. \A c : <<c>> # <<>>
    OBVIOUS
  <2>. QED  BY <1>2, <1>4, <2>1, <2>2, <2>3
<1>. QED  BY <1>2, <1>3, <1>4

\* An event that finds no call of its own to announce writes some content or none,
\* behind the role chunk if there was none.
LEMMA OutputContent ==
    ASSUME ConverterTyped, OpenInv, Announcements = Len(tools),
           Phase = IF started THEN "body" ELSE "empty",
           UNCHANGED <<sent, finished, returned>>, ~Completed', ~Failed', started',
           NEW content \in Seq(ChunkType),
           writes' = IF started THEN content ELSE <<Shape!Chunk("role")>> \o content,
           \/ content = <<>> /\ UNCHANGED tools
           \/ content = <<Shape!Chunk("text")>> /\ UNCHANGED tools
           \/ content = <<Shape!IndexedChunk("call", Len(tools))>> /\ Len(tools') = Len(tools) + 1
           \/ /\ UNCHANGED tools
              /\ \E n \in 0..(Len(tools) - 1) : content = <<Shape!IndexedChunk("args", n)>>
    PROVE  OpenInv'
<1>1. Phase' = Phase /\ Announcements' = Announcements /\ Of({"finish"})' = Of({"finish"})
  BY NothingSent
<1>2. \/ writes' = <<Shape!Chunk("role")>> \o content /\ Phase' = "empty"
      \/ writes' = content /\ Phase' = "body"
  BY <1>1
<1>3. Len(tools) \in Nat
  BY DEF ConverterTyped, ConverterTypeOK
<1>4. \/ content = <<>> /\ Announcements' = Len(tools')
      \/ content = <<Shape!Chunk("text")>> /\ Announcements' = Len(tools')
      \/ content = <<NextCall'>> /\ Announcements' = Len(tools') - 1
      \/ /\ Announcements' = Len(tools')
         /\ \E n \in 0..(Len(tools') - 1) : content = <<Shape!IndexedChunk("args", n)>>
  <2>1. CASE UNCHANGED tools
    BY <1>1, <2>1
  <2>2. CASE content = <<Shape!IndexedChunk("call", Len(tools))>> /\ Len(tools') = Len(tools) + 1
    <3>1. NextCall' = Shape!IndexedChunk("call", Len(tools))
      <4>1. Len(tools') - 1 = Len(tools)
        BY <1>3, <2>2
      <4>. QED  BY <4>1 DEF NextCall
    <3>. QED  BY <1>1, <1>3, <2>2, <3>1
  <2>. QED  BY <2>1, <2>2
<1>. QED  BY <1>1, <1>2, <1>4 DEF OpenInv

LEMMA OutputReceive ==
    ConverterTyped /\ ReceivedInv /\ OutputInv /\ Receive /\ ~gone => OutputInv'
<1>. SUFFICES ASSUME ConverterTyped, ReceivedInv, OutputInv, Receive, ~gone PROVE OutputInv'
  OBVIOUS
<1>1. PICK event \in Event : received' = Append(received, event) /\ handleEvent(event)
  BY DEF Receive
<1>2. /\ OpenInv /\ Announcements = Len(tools)
      /\ Phase = IF started THEN "body" ELSE "empty"
  BY BetweenEvents DEF Receive
<1>3. /\ Phase' = Phase /\ Announcements' = Announcements /\ Of({"finish"})' = Of({"finish"})
      /\ UNCHANGED <<sent, returned, gone>>
      /\ ~finished /\ ~returned /\ Of({"finish"}) = <<>>
  BY <1>2, NothingSent DEF Receive, OpenInv
<1>4. /\ Completed' <=> event.type = "completed"
      /\ Failed' <=> event.type = "error"
  BY <1>1, AppendEvent DEF Completed, Failed
<1>5. CASE event.type = "text" /\ textDelta
  <2>1. <<Shape!Chunk("text")>> \in Seq(ChunkType)
    BY ChunkTypes, ShortSeqs
  <2>2. OpenInv'
    BY <1>2, <1>3, <1>4, <1>5, <2>1, OutputContent DEF textDelta, AfterStart
  <2>. QED  BY <2>2 DEF OutputInv
<1>6. CASE event.type = "added" /\ toolStart(event.item, event.arguments)
  <2>1. event.item \in Items /\ Len(tools) \in Nat
    BY <1>6 DEF Event, ConverterTyped, ConverterTypeOK
  <2>2. <<>> \in Seq(ChunkType) /\ <<Shape!IndexedChunk("call", Len(tools))>> \in Seq(ChunkType)
    BY <2>1, ChunkTypes, ShortSeqs
  <2>3. CASE Known(event.item)
    <3>1. started' /\ UNCHANGED <<tools, finished>>
            /\ writes' = IF started THEN <<>> ELSE <<Shape!Chunk("role")>> \o <<>>
      BY <1>6, <2>3 DEF toolStart, AfterStart
    <3>2. OpenInv'
      BY <1>2, <1>3, <1>4, <1>6, <2>2, <3>1, OutputContent
    <3>. QED  BY <3>2 DEF OutputInv
  <2>4. CASE ~Known(event.item)
    <3>. DEFINE content == <<Shape!IndexedChunk("call", Len(tools))>>
    <3>1. started' /\ UNCHANGED finished
            /\ writes' = IF started THEN content ELSE <<Shape!Chunk("role")>> \o content
      BY <1>6, <2>4 DEF toolStart, AfterStart
    <3>2. Len(tools') = Len(tools) + 1
      BY <1>6, <2>1, <2>4 DEF toolStart, ConverterTyped, ConverterTypeOK
    <3>3. OpenInv'
      BY <1>2, <1>3, <1>4, <1>6, <2>2, <3>1, <3>2, OutputContent
    <3>. QED  BY <3>3 DEF OutputInv
  <2>. QED  BY <2>3, <2>4
<1>7. CASE event.type = "args" /\ toolDelta(event.item)
  <2>1. CASE Known(event.item)
    <3>1. IndexOf(event.item) \in 0..(Len(tools) - 1) /\ started
      <4>1. tools # <<>>
        BY <2>1 DEF Known, ToSet
      <4>. QED  BY <2>1, <4>1, IndexInTools DEF ReceivedInv, ConverterTyped, ConverterTypeOK
    <3>2. <<Shape!IndexedChunk("args", IndexOf(event.item))>> \in Seq(ChunkType)
      BY <3>1, ChunkTypes, ShortSeqs
    <3>3. OpenInv'
      BY <1>2, <1>3, <1>4, <1>7, <2>1, <3>1, <3>2, OutputContent DEF toolDelta
    <3>. QED  BY <3>3 DEF OutputInv
  <2>2. CASE ~Known(event.item)
    <3>1. writes' = <<>> /\ UNCHANGED <<started, finished, tools>>
      BY <1>7, <2>2 DEF toolDelta
    <3>2. <<>> \in Seq(ChunkType)
      BY ShortSeqs
    <3>3. OpenInv'
      BY <1>2, <1>3, <1>4, <1>7, <3>1, <3>2 DEF OpenInv
    <3>. QED  BY <3>3 DEF OutputInv
  <2>. QED  BY <2>1, <2>2
<1>8. CASE event.type = "completed" /\ done(status', usage')
  <2>1. Finish' = Shape!FinishChunk(Reason(status'))
    BY <1>8 DEF Finish, Reason, done
  <2>2. ClosedInv'
    BY <1>2, <1>3, <1>4, <1>8, <2>1 DEF done, ClosedInv
  <2>. QED  BY <2>2 DEF OutputInv
<1>9. CASE event.type = "error" /\ streamError
  <2>1. FailedInv'
    BY <1>2, <1>3, <1>4, <1>9 DEF streamError, FailedInv
  <2>. QED  BY <2>1 DEF OutputInv
<1>. QED  BY <1>1, <1>5, <1>6, <1>7, <1>8, <1>9 DEF handleEvent

\* The chunk that goes out, and what it leaves.
LEMMA OutputWrite ==
    ASSUME ConverterTyped, ReceivedInv, OutputInv, Write, ~gone
    PROVE  OutputInv' /\ [Stream!StreamNext]_(Stream!streamVars)
<1>. DEFINE c == Head(writes)
<1>0. /\ c \in ChunkType /\ sent' = Append(sent, c) /\ writes' = Tail(writes)
      /\ UNCHANGED <<received, started, finished, tools, status, returned, gone>>
      /\ Len(tools) \in Nat
  BY DEF ConverterTyped, ConverterTypeOK, Write
<1>. HIDE DEF c
<1>1. UNCHANGED <<Completed, Failed, NextCall, Finish>>
  BY <1>0 DEF Completed, Failed, NextCall, Finish, Reason
<1>2. /\ sent' # <<>> /\ Last(sent') = c /\ Len(sent') = Len(sent) + 1
      /\ c.kind \in {"role", "text", "call", "args"} => Phase' = "body"
      /\ c.kind = "error" => Phase' = "failing"
      /\ c.kind = "finish" => Phase' = "closing"
      /\ c.kind = "done" => Phase' = IF Of({"finish"}) = <<>> THEN "failed" ELSE "closed"
      /\ c.kind = "finish" => Of({"finish"})' = Append(Of({"finish"}), c)
      /\ c.kind # "finish" => Of({"finish"})' = Of({"finish"})
      /\ Announcements \in Nat
      /\ Announcements' = IF c.kind = "call" THEN Announcements + 1 ELSE Announcements
  BY <1>0, AppendChunk, PhaseNext
<1>. DEFINE Reads(from, to) == Phase \in from /\ Phase' = to
<1>3. ASSUME \/ c = Shape!Chunk("role") /\ Reads({"empty"}, "body") /\ UNCHANGED Announcements
             \/ c = Shape!Chunk("text") /\ Reads({"body"}, "body") /\ UNCHANGED Announcements
             \/ /\ c = Shape!IndexedChunk("call", Announcements) /\ Reads({"body"}, "body")
                /\ Announcements' = Announcements + 1
             \/ /\ \E n \in 0..(Announcements - 1) : c = Shape!IndexedChunk("args", n)
                /\ Reads({"body"}, "body") /\ UNCHANGED Announcements
             \/ /\ c = Shape!Chunk("error") /\ Reads({"empty", "body"}, "failing")
                /\ UNCHANGED Announcements
             \/ c = Shape!Chunk("done") /\ Reads({"failing"}, "failed") /\ UNCHANGED Announcements
             \/ /\ \E reason \in IF Announcements > 0 THEN {"tool_calls"} ELSE {"stop", "length"} :
                     c = Shape!FinishChunk(reason)
                /\ Reads({"empty", "body", "failed"}, "closing") /\ UNCHANGED Announcements
             \/ c = Shape!Chunk("done") /\ Reads({"closing"}, "closed") /\ UNCHANGED Announcements
      PROVE  Stream!StreamNext
  BY <1>2, <1>3, Constructors DEF Stream!StreamNext, Stream!Role, Stream!Text, Stream!Call,
     Stream!Arguments, Stream!Fail, Stream!Finish, Stream!End, Stream!Read, Announcements
<1>4. CASE OpenInv
  <2>1. PICK content \in Seq(ChunkType) :
            /\ \/ writes = <<Shape!Chunk("role")>> \o content /\ Phase = "empty"
               \/ writes = content /\ Phase = "body"
            /\ \/ content = <<>> /\ Announcements = Len(tools)
               \/ content = <<Shape!Chunk("text")>> /\ Announcements = Len(tools)
               \/ content = <<NextCall>> /\ Announcements = Len(tools) - 1
               \/ /\ Announcements = Len(tools)
                  /\ \E n \in 0..(Len(tools) - 1) : content = <<Shape!IndexedChunk("args", n)>>
    BY <1>4 DEF OpenInv, Write
  <2>2. /\ ~finished' /\ ~returned' /\ ~Completed' /\ ~Failed' /\ started'
        /\ Of({"finish"}) = <<>>
    BY <1>0, <1>1, <1>4 DEF OpenInv, Write
  <2>3. CASE writes = <<Shape!Chunk("role")>> \o content /\ Phase = "empty"
    <3>1. c = Shape!Chunk("role") /\ writes' = content
      BY <1>0, <2>3, ChunkTypes, HeadsAndTails DEF c
    <3>2. Phase' = "body" /\ Announcements' = Announcements /\ Of({"finish"})' = <<>>
      BY <1>2, <2>2, <3>1, Kinds
    <3>3. OpenInv'
      BY <1>0, <1>1, <2>1, <2>2, <3>1, <3>2 DEF OpenInv
    <3>4. Stream!StreamNext
      BY <1>3, <2>3, <3>1, <3>2
    <3>. QED  BY <3>3, <3>4 DEF OutputInv
  <2>4. CASE writes = content /\ Phase = "body"
    <3>. DEFINE Ends == writes' = <<>> /\ Phase' = "body" /\ Of({"finish"})' = <<>>
                          /\ Announcements' = Len(tools) /\ Stream!StreamNext
    <3>1. ASSUME content = <<Shape!Chunk("text")>> /\ Announcements = Len(tools) PROVE Ends
      <4>1. c = Shape!Chunk("text") /\ writes' = <<>>
        BY <1>0, <2>4, <3>1, HeadsAndTails DEF c
      <4>2. Phase' = "body" /\ Announcements' = Announcements /\ Of({"finish"})' = <<>>
        BY <1>2, <2>2, <4>1, Kinds
      <4>. QED  BY <1>3, <2>4, <3>1, <4>1, <4>2
    <3>2. ASSUME content = <<NextCall>> /\ Announcements = Len(tools) - 1 PROVE Ends
      <4>1. c = NextCall /\ writes' = <<>>
        BY <1>0, <2>4, <3>2, HeadsAndTails DEF c
      <4>2. c = Shape!IndexedChunk("call", Announcements) /\ c.kind = "call"
        BY <3>2, <4>1, Kinds DEF NextCall
      <4>3. Phase' = "body" /\ Announcements' = Announcements + 1 /\ Of({"finish"})' = <<>>
        BY <1>2, <2>2, <4>2
      <4>4. Announcements' = Len(tools)
        BY <1>0, <3>2, <4>3
      <4>. QED  BY <1>3, <2>4, <4>1, <4>2, <4>3, <4>4
    <3>3. ASSUME Announcements = Len(tools),
                 \E n \in 0..(Len(tools) - 1) : content = <<Shape!IndexedChunk("args", n)>>
          PROVE  Ends
      <4>1. PICK n \in 0..(Len(tools) - 1) : content = <<Shape!IndexedChunk("args", n)>>
        BY <3>3
      <4>2. c = Shape!IndexedChunk("args", n) /\ writes' = <<>>
        BY <1>0, <2>4, <4>1, HeadsAndTails DEF c
      <4>3. Phase' = "body" /\ Announcements' = Announcements /\ Of({"finish"})' = <<>>
        BY <1>2, <2>2, <4>2, Kinds
      <4>. QED  BY <1>3, <2>4, <3>3, <4>1, <4>2, <4>3
    <3>4. content # <<>>
      BY <2>4 DEF Write
    <3>5. Ends
      BY <2>1, <3>1, <3>2, <3>3, <3>4
    <3>6. OpenInv'
      BY <1>0, <2>2, <3>5, ShortSeqs DEF OpenInv
    <3>. QED  BY <3>5, <3>6 DEF OutputInv
  <2>. QED  BY <2>1, <2>3, <2>4
<1>5. CASE FailedInv
  <2>1. CASE writes = <<Shape!Chunk("error"), Shape!Chunk("done")>> /\ Phase \in {"empty", "body"}
    <3>1. c = Shape!Chunk("error") /\ writes' = <<Shape!Chunk("done")>>
      BY <1>0, <2>1, HeadsAndTails DEF c
    <3>2. Phase' = "failing" /\ Announcements' = Announcements /\ Of({"finish"})' = Of({"finish"})
      BY <1>2, <3>1, Kinds
    <3>3. FailedInv'
      BY <1>0, <1>1, <1>5, <3>1, <3>2 DEF FailedInv
    <3>. QED  BY <1>3, <2>1, <3>1, <3>2, <3>3 DEF OutputInv
  <2>2. CASE writes = <<Shape!Chunk("done")>> /\ Phase = "failing"
    <3>1. c = Shape!Chunk("done") /\ writes' = <<>>
      BY <1>0, <2>2, HeadsAndTails DEF c
    <3>2. Phase' = "failed" /\ Announcements' = Announcements /\ Of({"finish"})' = Of({"finish"})
      BY <1>2, <1>5, <3>1, Kinds DEF FailedInv
    <3>3. FailedInv'
      BY <1>0, <1>1, <1>5, <3>1, <3>2 DEF FailedInv
    <3>. QED  BY <1>3, <2>2, <3>1, <3>2, <3>3 DEF OutputInv
  <2>. QED  BY <1>5, <2>1, <2>2 DEF FailedInv, Write
<1>6. CASE ClosedInv
  <2>1. CASE /\ writes = <<Finish, Shape!Chunk("done")>> /\ Phase \in {"empty", "body", "failed"}
             /\ Of({"finish"}) = <<>>
    <3>1. c = Finish /\ writes' = <<Shape!Chunk("done")>>
      BY <1>0, <2>1, HeadsAndTails DEF c
    <3>2. /\ Phase' = "closing" /\ Announcements' = Announcements
          /\ Of({"finish"})' = <<Finish>>
      BY <1>2, <2>1, <3>1, Kinds DEF Finish
    <3>3. ClosedInv'
      BY <1>0, <1>1, <1>6, <3>1, <3>2 DEF ClosedInv
    <3>4. \E reason \in IF Announcements > 0 THEN {"tool_calls"} ELSE {"stop", "length"} :
            c = Shape!FinishChunk(reason)
      <4>1. Announcements = Len(tools) /\ (tools # <<>> <=> Len(tools) > 0)
        BY <1>6, EmptySeq DEF ClosedInv, ConverterTyped, ConverterTypeOK
      <4>. QED  BY <3>1, <4>1 DEF Finish, Reason
    <3>. QED  BY <1>3, <2>1, <3>2, <3>3, <3>4 DEF OutputInv
  <2>2. CASE writes = <<Shape!Chunk("done")>> /\ Phase = "closing" /\ Of({"finish"}) = <<Finish>>
    <3>1. c = Shape!Chunk("done") /\ writes' = <<>>
      BY <1>0, <2>2, HeadsAndTails DEF c
    <3>2. Phase' = "closed" /\ Announcements' = Announcements /\ Of({"finish"})' = Of({"finish"})
      BY <1>2, <2>2, <3>1, Kinds
    <3>3. Len(sent') >= 2
      <4>1. sent # <<>>
        BY <2>2 DEF Phase
      <4>2. Len(sent) >= 1
        BY <4>1, EmptySeq DEF ConverterTyped
      <4>. QED  BY <1>2, <4>2
    <3>4. ClosedInv'
      BY <1>0, <1>1, <1>6, <2>2, <3>1, <3>2, <3>3 DEF ClosedInv
    <3>. QED  BY <1>3, <2>2, <3>1, <3>2, <3>4 DEF OutputInv
  <2>. QED  BY <1>6, <2>1, <2>2 DEF ClosedInv, Write
<1>. QED  BY <1>4, <1>5, <1>6 DEF OutputInv, Write

\* The end of the stream closes it, unless response.completed did.
LEMMA OutputEnd ==
    ASSUME ConverterTyped, ReceivedInv, OutputInv, EndOfStream, ~gone
    PROVE  OutputInv'
<1>1. /\ Phase' = Phase /\ Announcements' = Announcements /\ Of({"finish"})' = Of({"finish"})
      /\ UNCHANGED <<Completed, Failed>>
  BY NothingSent DEF EndOfStream, Completed, Failed
<1>2. CASE finished
  <2>1. UNCHANGED Finish
    BY <1>2 DEF EndOfStream, Finish, Reason
  <2>2. ClosedInv
    BY <1>2 DEF OutputInv, OpenInv, FailedInv
  <2>3. ClosedInv'
    BY <1>1, <1>2, <2>1, <2>2 DEF ClosedInv, EndOfStream
  <2>. QED  BY <2>3 DEF OutputInv
<1>3. CASE ~finished
  <2>1. /\ Of({"finish"}) = <<>> /\ Announcements = Len(tools)
        /\ Phase \in {"empty", "body", "failed"}
    <3>1. CASE Failed
      BY <1>3, <3>1 DEF OutputInv, OpenInv, FailedInv, ClosedInv, EndOfStream
    <3>2. CASE ~Failed
      <4>1. received # <<>> => ~Final(Last(received))
        BY <1>3, <3>2 DEF OutputInv, OpenInv, FailedInv, ClosedInv, Failed, Completed, Final
      <4>2. OpenInv /\ Announcements = Len(tools) /\ Phase = IF started THEN "body" ELSE "empty"
        BY <4>1, BetweenEvents DEF EndOfStream
      <4>. QED  BY <4>2 DEF OpenInv
    <3>. QED  BY <3>1, <3>2
  <2>2. /\ UNCHANGED <<tools, status, gone>> /\ returned' /\ finished'
        /\ writes' = <<Shape!FinishChunk(Reason(status)), Shape!Chunk("done")>>
    BY <1>3 DEF EndOfStream, done
  <2>3. Finish' = Shape!FinishChunk(Reason(status))
    BY <2>2 DEF Finish, Reason
  <2>4. ClosedInv'
    BY <1>1, <2>1, <2>2, <2>3 DEF ClosedInv
  <2>. QED  BY <2>4 DEF OutputInv
<1>. QED  BY <1>2, <1>3

LEMMA OutputInit == ConverterInit => OutputInv
<1>. SUFFICES ASSUME ConverterInit PROVE OutputInv
  OBVIOUS
<1>1. \A kinds : Of(kinds) = <<>>
  <2>1. ASSUME NEW kinds PROVE Of(kinds) = <<>>
    <3>1. <<>> \in Seq(ChunkType)
      BY ShortSeqs
    <3>2. Of(kinds) = OfIn(kinds, <<>>)
      BY DEF ConverterInit, Of, OfIn, Selected
    <3>. QED  BY <3>1, <3>2, OfIsFilter, FilterEmpty
  <2>. QED  BY <2>1
<1>2. OpenInv
  BY <1>1 DEF ConverterInit, OpenInv, Completed, Failed, Phase, Announcements
<1>. QED  BY <1>2 DEF OutputInv

LEMMA OutputNext ==
    ConverterTyped /\ ReceivedInv /\ OutputInv /\ [ConverterNext]_converterVars => OutputInv'
<1>. SUFFICES ASSUME ConverterTyped, ReceivedInv, OutputInv, [ConverterNext]_converterVars
              PROVE  OutputInv'
  OBVIOUS
<1>1. CASE gone
  <2>1. gone'
    BY <1>1 DEF ConverterNext, Receive, Write, EndOfStream, Disconnect, converterVars
  <2>. QED  BY <2>1 DEF OutputInv
<1>2. CASE ~gone
  <2>1. CASE Receive \/ Write \/ EndOfStream
    BY <1>2, <2>1, OutputReceive, OutputWrite, OutputEnd
  <2>2. CASE Disconnect
    BY <2>2 DEF Disconnect, OutputInv
  <2>3. CASE UNCHANGED converterVars
    BY <2>3, OutputStutter DEF converterVars
  <2>. QED  BY <2>1, <2>2, <2>3 DEF ConverterNext
<1>. QED  BY <1>1, <1>2

ConverterInv == ConverterTyped /\ ReceivedInv /\ OutputInv

LEMMA ConverterInvInit == ConverterInit => ConverterInv
  BY ConverterTypedInit, ReceivedInit, OutputInit DEF ConverterInv

LEMMA ConverterInvNext == ConverterInv /\ [ConverterNext]_converterVars => ConverterInv'
  BY ConverterTypedNext, ReceivedNext, OutputNext DEF ConverterInv

-----------------------------------------------------------------------------
\* The step simulation: what a step of the converter sends is a step of the stream, or
\* nothing is sent.
LEMMA StreamInitial == ConverterInit => Stream!StreamInit
<1>. SUFFICES ASSUME ConverterInit PROVE Stream!StreamInit
  OBVIOUS
<1>1. sent = <<>> /\ Announcements = 0
  BY OutputInit DEF ConverterInit, OutputInv, OpenInv, FailedInv, ClosedInv
<1>. QED  BY <1>1, Constructors DEF Stream!StreamInit, Phase, Announcements

LEMMA StreamStep ==
    ConverterInv /\ [ConverterNext]_converterVars => [Stream!StreamNext]_(Stream!streamVars)
<1>. SUFFICES ASSUME ConverterInv, [ConverterNext]_converterVars
              PROVE  [Stream!StreamNext]_(Stream!streamVars)
  OBVIOUS
<1>1. CASE sent' = sent
  <2>1. Phase' = Phase /\ Of({"call"})' = Of({"call"})
    BY <1>1, NothingSent
  <2>. QED  BY <1>1, <2>1 DEF Stream!streamVars
<1>2. CASE sent' # sent
  <2>1. Write /\ ~gone
    BY <1>2 DEF ConverterNext, Receive, Write, EndOfStream, Disconnect, converterVars
  <2>. QED  BY <2>1, OutputWrite DEF ConverterInv
<1>. QED  BY <1>1, <1>2

\* Chunk by chunk the output of ProcessStream is a chat completion stream, whatever
\* the upstream sends, however long, and wherever it or the client stops.
THEOREM OutputIsChatStream == ConverterSpec => IsChatStream
  BY ConverterInvInit, ConverterInvNext, StreamInitial, StreamStep, PTL
     DEF ConverterSpec, IsChatStream, Stream!StreamSpec

-----------------------------------------------------------------------------
LEMMA EndTold == ConverterInv => EndIsTold
<1>. SUFFICES ASSUME ConverterInv, returned, writes = <<>>, ~gone
              PROVE  /\ Len(sent) >= 2 /\ Last(sent).kind = "done"
                     /\ Of({"finish"})[1].reason = "length" <=>
                           /\ \E e \in ToSet(received) : e.type = "completed" /\ e.status = "incomplete"
                           /\ ~\E e \in ToSet(received) : e.type = "added"
  BY DEF EndIsTold
<1>. USE DEF ConverterInv, ConverterTyped, ConverterTypeOK
<1>1. ClosedInv
  BY DEF OutputInv, OpenInv, FailedInv
<1>2. Phase = "closed" /\ Len(sent) >= 2 /\ Of({"finish"}) = <<Finish>>
  <2>1. \A c, d : <<c>> # <<>> /\ <<c, d>> # <<>>
    OBVIOUS
  <2>. QED  BY <1>1, <2>1 DEF ClosedInv
<1>3. Last(sent).kind = "done"
  BY <1>2 DEF Phase
<1>4. Of({"finish"})[1].reason = "length" <=> tools = <<>> /\ status = "incomplete"
  BY <1>2, Constructors DEF Finish, Reason
<1>5. tools = <<>> <=> ~\E e \in ToSet(received) : e.type = "added"
  <2>1. ToSet(tools) = Announced(Len(received) + 1)
    BY DEF ReceivedInv
  <2>2. ToSet(tools) = {} <=> tools = <<>>
    <3>1. tools # <<>> => tools[1] \in ToSet(tools)
      BY EmptySeq DEF ToSet
    <3>. QED  BY <3>1 DEF ToSet
  <2>3. Announced(Len(received) + 1) = {} <=> ~\E e \in ToSet(received) : e.type = "added"
    <3>1. 1..((Len(received) + 1) - 1) = DOMAIN received
      OBVIOUS
    <3>. QED  BY <3>1 DEF Announced, ToSet
  <2>. QED  BY <2>1, <2>2, <2>3
<1>6. status = "incomplete"
        <=> \E e \in ToSet(received) : e.type = "completed" /\ e.status = "incomplete"
  <2>1. ASSUME NEW i \in DOMAIN received, received[i].type = "completed"
        PROVE  received[i] = Last(received) /\ Completed
    BY <2>1 DEF ReceivedInv, Final, Last, Completed
  <2>2. Completed => Last(received) \in ToSet(received) /\ Last(received).type = "completed"
    BY EmptySeq DEF Completed, Last, ToSet
  <2>. QED  BY <2>1, <2>2 DEF ReceivedInv, ToSet
<1>. QED  BY <1>2, <1>3, <1>4, <1>5, <1>6

\* Once ProcessStream has returned, a client that stayed has been told how the
\* completion ended, after any stream.
THEOREM EndTellsReason == ConverterSpec => []EndIsTold
  BY ConverterInvInit, ConverterInvNext, EndTold, PTL DEF ConverterSpec

\* The types of the converter's state.
THEOREM ConverterTypes == ConverterSpec => []ConverterTypeOK
<1>1. ConverterInv => ConverterTypeOK
  BY DEF ConverterInv, ConverterTyped
<1>. QED  BY <1>1, ConverterInvInit, ConverterInvNext, PTL DEF ConverterSpec

-----------------------------------------------------------------------------
(* The content. *)

\* The first announcement of an item.
IsFirst(j, item) ==
    received[j].type = "added" /\ received[j].item = item /\ item \notin Announced(j)

\* A tool's index is the number of items announced before it.
IndexInv ==
    /\ IsFiniteSet(ToSet(tools)) /\ Cardinality(ToSet(tools)) = Len(tools)
    /\ \A k \in DOMAIN tools : \E j \in DOMAIN received :
         IsFirst(j, tools[k]) /\ Cardinality(Announced(j)) = k - 1

Content == {"text", "call", "args"}
Images == [i \in DOMAIN received |-> Image(i)]

ContentInv == gone \/ OfIn(Content, sent \o writes) = FlattenSeq(Images)

\* There is one, in any state.
FirstIsOne ==
    received \in Seq(Event) =>
        \A j \in DOMAIN received : \A item : IsFirst(j, item) => FirstAdded(item) = j

LEMMA FirstAddedIs == FirstIsOne
<1>. SUFFICES ASSUME received \in Seq(Event), NEW item, NEW j \in DOMAIN received, IsFirst(j, item)
              PROVE  FirstAdded(item) = j
  BY DEF FirstIsOne
<1>1. ASSUME NEW i \in DOMAIN received, IsFirst(i, item) PROVE i = j
  <2>1. \A a, b \in DOMAIN received :
          IsFirst(a, item) /\ a < b => item \in Announced(b)
    BY DEF IsFirst, Announced
  <2>. QED  BY <1>1, <2>1 DEF IsFirst
<1>. QED  BY <1>1 DEF FirstAdded, IsFirst

LEMMA FirstAddedIsNext == FirstIsOne'
  BY FirstAddedIs, PTL

LEMMA IndexNext == ConverterInv /\ IndexInv /\ [ConverterNext]_converterVars => IndexInv'
<1>. SUFFICES ASSUME ConverterInv, IndexInv, [ConverterNext]_converterVars PROVE IndexInv'
  OBVIOUS
<1>. USE DEF ConverterInv, ConverterTyped, ConverterTypeOK
<1>1. CASE Receive
  <2>1. PICK event \in Event : received' = Append(received, event) /\ handleEvent(event)
    BY <1>1 DEF Receive
  <2>2. /\ Len(received') = Len(received) + 1
        /\ \A i \in DOMAIN received : received'[i] = received[i]
        /\ received'[Len(received) + 1] = event
        /\ \A i \in 1..(Len(received) + 1) : Announced(i)' = Announced(i)
    BY <2>1, AppendEvent
  <2>3. \A item : \A j \in DOMAIN received : IsFirst(j, item) => IsFirst(j, item)'
    BY <2>2 DEF IsFirst
  <2>4. DOMAIN received \subseteq DOMAIN received' /\ Len(received) + 1 \in DOMAIN received'
    BY <2>1
  <2>5. CASE UNCHANGED tools
    BY <2>2, <2>3, <2>4, <2>5 DEF IndexInv
  <2>6. CASE event.type = "added" /\ ~Known(event.item) /\ tools' = Append(tools, event.item)
    <3>1. event.item \in Items /\ event.item \notin ToSet(tools)
      BY <2>6 DEF Event, Known
    <3>2. ToSet(tools') = ToSet(tools) \cup {event.item}
      BY <2>6, <3>1, ToSetAppend
    <3>3. IsFiniteSet(ToSet(tools')) /\ Cardinality(ToSet(tools')) = Len(tools')
      <4>1. IsFiniteSet(ToSet(tools)) /\ Cardinality(ToSet(tools)) = Len(tools)
        BY DEF IndexInv
      <4>2. Len(tools') = Len(tools) + 1
        BY <2>6, <3>1
      <4>. QED  BY <3>1, <3>2, <4>1, <4>2, FS_AddElement
    <3>4. ASSUME NEW k \in DOMAIN tools'
          PROVE  \E j \in DOMAIN received' :
                   IsFirst(j, tools[k])' /\ Cardinality(Announced(j))' = k - 1
      <4>1. CASE k \in DOMAIN tools
        <5>1. tools'[k] = tools[k]
          BY <2>6, <4>1
        <5>2. PICK j \in DOMAIN received :
                IsFirst(j, tools[k]) /\ Cardinality(Announced(j)) = k - 1
          BY <4>1 DEF IndexInv
        <5>3. Announced(j)' = Announced(j)
          BY <2>2
        <5>4. IsFirst(j, tools[k])'
          BY <2>2, <5>1, <5>2, <5>3 DEF IsFirst
        <5>. QED  BY <2>4, <5>2, <5>3, <5>4
      <4>2. CASE k = Len(tools) + 1
        <5>1. tools'[k] = event.item
          BY <2>6, <4>2
        <5>2. Announced(Len(received) + 1) = ToSet(tools)
          BY DEF ReceivedInv
        <5>. DEFINE j == Len(received) + 1
        <5>3. PICK n \in Nat : n = j
          OBVIOUS
        <5>4. Announced(n)' = ToSet(tools)
          BY <2>2, <5>2, <5>3
        <5>5. received'[n] = event /\ n \in DOMAIN received'
          BY <2>2, <2>4, <5>3
        <5>6. IsFirst(n, tools[k])'
          BY <2>6, <3>1, <5>1, <5>4, <5>5 DEF IsFirst
        <5>7. Cardinality(Announced(n))' = k - 1
          BY <4>2, <5>4 DEF IndexInv
        <5>. QED  BY <5>5, <5>6, <5>7
      <4>. QED  BY <2>6, <4>1, <4>2
    <3>. QED  BY <3>3, <3>4 DEF IndexInv
  <2>. QED
    BY <2>1, <2>5, <2>6 DEF handleEvent, textDelta, toolStart, toolDelta, done, streamError
<1>2. CASE Write \/ EndOfStream \/ Disconnect \/ UNCHANGED converterVars
  <2>1. UNCHANGED <<received, tools>>
    BY <1>2 DEF Write, EndOfStream, done, Disconnect, converterVars
  <2>2. \A i : Announced(i)' = Announced(i)
    BY <2>1 DEF Announced
  <2>3. \A j, item : IsFirst(j, item)' = IsFirst(j, item)
    BY <2>1, <2>2 DEF IsFirst
  <2>. QED  BY <2>1, <2>2, <2>3 DEF IndexInv
<1>. QED  BY <1>1, <1>2 DEF ConverterNext

\* An item that is known was announced first at one place, under its index.
LEMMA KnownFirst ==
    ASSUME ConverterInv, IndexInv, NEW item \in ToSet(tools)
    PROVE  /\ FirstAdded(item) \in DOMAIN received /\ IsFirst(FirstAdded(item), item)
           /\ Cardinality(Announced(FirstAdded(item))) = IndexOf(item)
           /\ IndexOf(item) \in 0..(Len(tools) - 1)
<1>. USE DEF ConverterInv, ConverterTyped, ConverterTypeOK
<1>1. IndexOf(item) \in 0..(Len(tools) - 1) /\ tools[IndexOf(item) + 1] = item
  BY IndexInTools DEF Known
<1>2. PICK j \in DOMAIN received :
        IsFirst(j, item) /\ Cardinality(Announced(j)) = (IndexOf(item) + 1) - 1
  BY <1>1 DEF IndexInv
<1>3. FirstAdded(item) = j
  BY <1>2, FirstAddedIs DEF FirstIsOne
<1>. QED  BY <1>1, <1>2, <1>3

\* What was announced before an event is in the map.
LEMMA AnnouncedKnown ==
    ASSUME ConverterInv, IndexInv, NEW i \in 1..(Len(received) + 1)
    PROVE  /\ Announced(i) \subseteq ToSet(tools)
           /\ IsFiniteSet(Announced(i)) /\ Cardinality(Announced(i)) \in Nat
<1>1. Announced(i) \subseteq Announced(Len(received) + 1)
  BY DEF Announced, ConverterInv, ConverterTyped, ConverterTypeOK
<1>2. Announced(i) \subseteq ToSet(tools)
  BY <1>1 DEF ConverterInv, ReceivedInv
<1>. QED  BY <1>2, FS_Subset, FS_CardinalityType DEF IndexInv

ImagesType == ConverterInv /\ IndexInv => Images \in [DOMAIN received -> Seq(ChunkType)]

LEMMA ImagesTyped == ImagesType
<1>. SUFFICES ASSUME ConverterInv, IndexInv PROVE Images \in [DOMAIN received -> Seq(ChunkType)]
  BY DEF ImagesType
<1>. USE DEF ConverterInv, ConverterTyped, ConverterTypeOK
<1>1. ASSUME NEW i \in DOMAIN received PROVE Image(i) \in Seq(ChunkType)
  <2>1. Announced(i) \subseteq ToSet(tools) /\ Cardinality(Announced(i)) \in Nat
    BY AnnouncedKnown
  <2>2. \A item \in Announced(i) : Cardinality(Announced(FirstAdded(item))) \in Nat
    BY <2>1, KnownFirst
  <2>3. CASE received[i].type = "text"
    BY <2>3, ChunkTypes, ShortSeqs DEF Image
  <2>4. CASE received[i].type = "added" /\ received[i].item \notin Announced(i)
    BY <2>1, <2>4, ChunkTypes, ShortSeqs DEF Image
  <2>5. CASE received[i].type = "args" /\ received[i].item \in Announced(i)
    BY <2>2, <2>5, ChunkTypes, ShortSeqs DEF Image
  <2>6. CASE /\ received[i].type # "text"
             /\ ~(received[i].type = "added" /\ received[i].item \notin Announced(i))
             /\ ~(received[i].type = "args" /\ received[i].item \in Announced(i))
    BY <2>6, ShortSeqs DEF Image
  <2>. QED  BY <2>3, <2>4, <2>5, <2>6
<1>. QED  BY <1>1 DEF Images

LEMMA ImagesTypedNext == ImagesType'
  BY ImagesTyped, PTL

\* A further event does not change what the earlier ones stand for.
LEMMA ImageStays ==
    ASSUME ConverterInv, IndexInv, NEW event \in Event, received' = Append(received, event)
    PROVE  /\ \A i \in DOMAIN received : Image(i)' = Image(i)
           /\ \A item \in ToSet(tools) :
                Announced(FirstAdded(item))' = Announced(FirstAdded(item))
<1>. USE DEF ConverterInv, ConverterTyped, ConverterTypeOK
<1>1. /\ \A i \in DOMAIN received : received'[i] = received[i]
      /\ \A i \in 1..(Len(received) + 1) : Announced(i)' = Announced(i)
      /\ DOMAIN received \subseteq DOMAIN received' /\ received' \in Seq(Event)
  BY AppendEvent
<1>2. ASSUME NEW item \in ToSet(tools)
      PROVE  Announced(FirstAdded(item))' = Announced(FirstAdded(item))
  <2>1. PICK j \in DOMAIN received : j = FirstAdded(item) /\ IsFirst(j, item)
    BY KnownFirst
  <2>2. IsFirst(j, item)' /\ Announced(j)' = Announced(j)
    BY <1>1, <2>1 DEF IsFirst
  <2>3. FirstAdded(item)' = j
    BY <1>1, <2>2, FirstAddedIsNext DEF FirstIsOne
  <2>4. Announced(FirstAdded(item))' = Announced(j)'
    BY <2>3 DEF Announced
  <2>. QED  BY <2>1, <2>2, <2>4
<1>3. ASSUME NEW i \in DOMAIN received PROVE Image(i)' = Image(i)
  <2>1. received'[i] = received[i] /\ Announced(i)' = Announced(i)
    BY <1>1
  <2>2. \A item \in Announced(i) : Announced(FirstAdded(item))' = Announced(FirstAdded(item))
    BY <1>2, AnnouncedKnown
  <2>. QED  BY <2>1, <2>2 DEF Image
<1>. QED  BY <1>2, <1>3

\* The content among the chunks of one event.
LEMMA ContentOf ==
    /\ OfIn(Content, <<>>) = <<>>
    /\ \A c \in ChunkType : OfIn(Content, <<c>>) = IF c.kind \in Content THEN <<c>> ELSE <<>>
    /\ \A s, t \in Seq(ChunkType) :
         OfIn(Content, s \o t) = OfIn(Content, s) \o OfIn(Content, t)
    /\ \A s \in Seq(ChunkType) : OfIn(Content, s) \in Seq(ChunkType)
<1>. DEFINE K == {c \in ChunkType : c.kind \in Content}
<1>1. \A s \in Seq(ChunkType) : OfIn(Content, s) = Filter(K, s)
  BY OfIsFilter
<1>2. \A c \in ChunkType : c \in K <=> c.kind \in Content
  OBVIOUS
<1>. HIDE DEF K
<1>3. \A c \in ChunkType : OfIn(Content, <<c>>) = IF c.kind \in Content THEN <<c>> ELSE <<>>
  BY <1>1, <1>2, ShortSeqs, FilterOne
<1>4. OfIn(Content, <<>>) = <<>>
  BY <1>1, ShortSeqs, FilterEmpty
<1>5. ASSUME NEW s \in Seq(ChunkType), NEW t \in Seq(ChunkType)
      PROVE  OfIn(Content, s \o t) = OfIn(Content, s) \o OfIn(Content, t)
  <2>1. s \o t \in Seq(ChunkType)
    OBVIOUS
  <2>2. Filter(K, s \o t) = Filter(K, s) \o Filter(K, t)
    BY FilterConcat
  <2>. QED  BY <1>1, <2>1, <2>2
<1>6. \A s \in Seq(ChunkType) : OfIn(Content, s) \in Seq(ChunkType)
  BY <1>1, FilterType
<1>. QED  BY <1>3, <1>4, <1>5, <1>6

\* The role chunk does not count.
LEMMA ContentAfterStart ==
    ASSUME NEW s \in Seq(ChunkType), AfterStart(s)
    PROVE  OfIn(Content, writes') = OfIn(Content, s)
<1>1. Shape!Chunk("role") \in ChunkType /\ Shape!Chunk("role").kind \notin Content
  BY ChunkTypes, Kinds DEF Content
<1>2. <<Shape!Chunk("role")>> \in Seq(ChunkType) /\ OfIn(Content, <<Shape!Chunk("role")>>) = <<>>
  BY <1>1, ShortSeqs, ContentOf
<1>3. OfIn(Content, <<Shape!Chunk("role")>> \o s) = <<>> \o OfIn(Content, s)
  BY <1>2, ContentOf
<1>4. OfIn(Content, s) \in Seq(ChunkType)
  BY ContentOf
<1>5. <<>> \o OfIn(Content, s) = OfIn(Content, s)
  BY <1>4
<1>. QED  BY <1>3, <1>5 DEF AfterStart

\* Neither do the chunks that end a stream.
LEMMA ContentOfEnds ==
    /\ OfIn(Content, <<Shape!Chunk("error"), Shape!Chunk("done")>>) = <<>>
    /\ \A st : OfIn(Content, <<Shape!FinishChunk(Reason(st)), Shape!Chunk("done")>>) = <<>>
<1>1. ASSUME NEW c \in ChunkType, NEW d \in ChunkType,
             c.kind \notin Content, d.kind \notin Content
      PROVE  OfIn(Content, <<c, d>>) = <<>>
  <2>1. <<c>> \in Seq(ChunkType) /\ <<d>> \in Seq(ChunkType) /\ <<c>> \o <<d>> = <<c, d>>
    BY ShortSeqs, ShortConcats
  <2>2. OfIn(Content, <<c>>) = <<>> /\ OfIn(Content, <<d>>) = <<>>
    BY <1>1, ContentOf
  <2>3. OfIn(Content, <<c>> \o <<d>>) = <<>> \o <<>>
    BY <2>1, <2>2, ContentOf
  <2>4. <<>> \o <<>> = <<>>
    OBVIOUS
  <2>. QED  BY <2>1, <2>3, <2>4
<1>2. "error" \notin Content /\ "done" \notin Content /\ "finish" \notin Content
  BY DEF Content
<1>. QED  BY <1>1, <1>2, ChunkTypes, Kinds

\* An event makes the converter write what it stands for.
LEMMA ContentWrites ==
    ASSUME ConverterInv, IndexInv, NEW event \in Event,
           received' = Append(received, event), handleEvent(event),
           NEW n \in Nat, n = Len(received) + 1
    PROVE  OfIn(Content, writes') = Image(n)'
<1>. USE DEF ConverterInv, ConverterTyped, ConverterTypeOK
<1>1. received'[n] = event /\ Announced(n) = ToSet(tools) /\ Announced(n)' = ToSet(tools)
  BY AppendEvent DEF ReceivedInv
<1>2. /\ \A kind \in {"text", "call", "args"} : kind \in Content
      /\ Len(tools) \in Nat /\ <<>> \in Seq(ChunkType)
  BY ShortSeqs DEF Content
<1>3. ASSUME NEW c \in ChunkType, c.kind \in Content
      PROVE  <<c>> \in Seq(ChunkType) /\ OfIn(Content, <<c>>) = <<c>>
  BY <1>3, ShortSeqs, ContentOf
<1>4. CASE event.type = "text" /\ textDelta
  <2>1. Image(n)' = <<Shape!Chunk("text")>>
    BY <1>1, <1>4 DEF Image
  <2>2. Shape!Chunk("text") \in ChunkType /\ Shape!Chunk("text").kind \in Content
    BY <1>2, ChunkTypes, Kinds
  <2>. QED  BY <1>3, <1>4, <2>1, <2>2, ContentAfterStart DEF textDelta
<1>5. CASE event.type = "added" /\ toolStart(event.item, event.arguments)
  <2>1. Cardinality(Announced(n))' = Len(tools)
    BY <1>1 DEF IndexInv
  <2>2. CASE Known(event.item)
    <3>1. Image(n)' = <<>>
      BY <1>1, <1>5, <2>2 DEF Image, Known
    <3>. QED  BY <1>2, <1>5, <2>2, <3>1, ContentOf, ContentAfterStart DEF toolStart
  <2>3. CASE ~Known(event.item)
    <3>1. Image(n)' = <<Shape!IndexedChunk("call", Len(tools))>>
      BY <1>1, <1>5, <2>1, <2>3 DEF Image, Known
    <3>2. /\ Shape!IndexedChunk("call", Len(tools)) \in ChunkType
          /\ Shape!IndexedChunk("call", Len(tools)).kind \in Content
      BY <1>2, ChunkTypes, Kinds
    <3>. QED  BY <1>3, <1>5, <2>3, <3>1, <3>2, ContentAfterStart DEF toolStart
  <2>. QED  BY <2>2, <2>3
<1>6. CASE event.type = "args" /\ toolDelta(event.item)
  <2>1. CASE Known(event.item)
    <3>1. /\ Cardinality(Announced(FirstAdded(event.item))) = IndexOf(event.item)
          /\ IndexOf(event.item) \in 0..(Len(tools) - 1)
      BY <2>1, KnownFirst DEF Known
    <3>2. Announced(FirstAdded(event.item))' = Announced(FirstAdded(event.item))
      BY <2>1, ImageStays DEF Known
    <3>3. Image(n)' = <<Shape!IndexedChunk("args", IndexOf(event.item))>>
      BY <1>1, <1>6, <2>1, <3>1, <3>2 DEF Image, Known
    <3>4. /\ Shape!IndexedChunk("args", IndexOf(event.item)) \in ChunkType
          /\ Shape!IndexedChunk("args", IndexOf(event.item)).kind \in Content
      BY <1>2, <3>1, ChunkTypes, Kinds
    <3>. QED  BY <1>3, <1>6, <2>1, <3>3, <3>4 DEF toolDelta
  <2>2. CASE ~Known(event.item)
    <3>1. Image(n)' = <<>> /\ writes' = <<>>
      BY <1>1, <1>6, <2>2 DEF Image, Known, toolDelta
    <3>. QED  BY <3>1, ContentOf
  <2>. QED  BY <2>1, <2>2
<1>7. CASE event.type \in {"completed", "error"}
  <2>1. Image(n)' = <<>>
    BY <1>1, <1>7 DEF Image
  <2>. QED  BY <1>7, <2>1, ContentOfEnds DEF handleEvent, done, streamError
<1>. QED  BY <1>4, <1>5, <1>6, <1>7 DEF handleEvent

LEMMA ContentInit == ConverterInit => IndexInv /\ ContentInv
<1>. SUFFICES ASSUME ConverterInit PROVE IndexInv /\ ContentInv
  OBVIOUS
<1>1. ToSet(<<>>) = {} /\ <<>> \o <<>> = <<>> /\ [i \in DOMAIN <<>> |-> Image(i)] = <<>>
  BY DEF ToSet
<1>2. IndexInv
  BY <1>1, FS_EmptySet DEF ConverterInit, IndexInv
<1>3. ContentInv
  BY <1>1, ContentOf, FlattenEmpty DEF ConverterInit, ContentInv, Images
<1>. QED  BY <1>2, <1>3

LEMMA ContentNext ==
    ConverterInv /\ IndexInv /\ ContentInv /\ [ConverterNext]_converterVars => ContentInv'
<1>. SUFFICES ASSUME ConverterInv, IndexInv, ContentInv, [ConverterNext]_converterVars, ~gone'
              PROVE  OfIn(Content, sent' \o writes') = FlattenSeq(Images)'
  BY DEF ContentInv
<1>. USE DEF ConverterInv, ConverterTyped
<1>0. ~gone /\ OfIn(Content, sent \o writes) = FlattenSeq(Images)
  BY DEF ContentInv, ConverterNext, Receive, Write, EndOfStream, Disconnect, converterVars
<1>1. CASE Receive
  <2>1. PICK event \in Event : received' = Append(received, event) /\ handleEvent(event)
    BY <1>1 DEF Receive
  <2>2. PICK n \in Nat : n = Len(received) + 1
    BY DEF ConverterTypeOK
  <2>3. OfIn(Content, writes') = Image(n)'
    BY <2>1, <2>2, ContentWrites
  <2>4. writes' \in Seq(ChunkType) /\ writes = <<>> /\ sent' = sent
    BY <1>1, <2>1, WritesTyped DEF Receive
  <2>5. OfIn(Content, sent' \o writes') = OfIn(Content, sent) \o Image(n)'
    <3>1. sent \in Seq(ChunkType) /\ sent' \o writes' = sent \o writes'
      BY <2>4
    <3>2. OfIn(Content, sent \o writes') = OfIn(Content, sent) \o OfIn(Content, writes')
      BY <2>4, <3>1, ContentOf
    <3>. QED  BY <2>3, <3>1, <3>2
  <2>6. OfIn(Content, sent) = FlattenSeq(Images)
    <3>1. sent \o <<>> = sent
      OBVIOUS
    <3>. QED  BY <1>0, <2>4, <3>1
  <2>7. Images' = Append(Images, Image(n)')
    <3>1. DOMAIN received' = 1..n /\ DOMAIN received = 1..(n - 1)
      BY <2>1, <2>2 DEF ConverterTypeOK
    <3>2. \A i \in DOMAIN received : Image(i)' = Image(i)
      BY <2>1, ImageStays
    <3>3. Images \in [1..(n - 1) -> Seq(ChunkType)] /\ Images' \in [1..n -> Seq(ChunkType)]
      <4>1. ConverterInv' /\ IndexInv'
        BY ConverterInvNext, IndexNext
      <4>. QED  BY <3>1, <4>1, ImagesTyped, ImagesTypedNext DEF ImagesType
    <3>4. (\A i \in 1..(n - 1) : Images'[i] = Images[i]) /\ Images'[n] = Image(n)'
      BY <2>2, <3>1, <3>2 DEF Images
    <3>5. PICK m \in Nat : n = m + 1
      BY <2>2 DEF ConverterTypeOK
    <3>6. Images \in [1..m -> Seq(ChunkType)] /\ Images' \in [1..(m + 1) -> Seq(ChunkType)]
      <4>1. n - 1 = m
        BY <3>5
      <4>. QED  BY <3>3, <3>5, <4>1
    <3>7. Images' = Append(Images, Images'[m + 1])
      <4>1. \A i \in 1..m : Images'[i] = Images[i]
        BY <3>4, <3>5
      <4>. QED  BY <3>6, <4>1, FunctionAppend
    <3>. QED  BY <3>4, <3>5, <3>7
  <2>8. OfIn(Content, writes') \in Seq(ChunkType)
    BY <2>4, ContentOf
  <2>9. FlattenSeq(Images') = FlattenSeq(Images) \o Image(n)'
    <3>1. Images \in Seq(Seq(ChunkType)) /\ Image(n)' \in Seq(ChunkType)
      <4>1. Len(received) \in Nat /\ DOMAIN received = 1..Len(received)
        BY DEF ConverterTypeOK
      <4>2. Images \in [1..Len(received) -> Seq(ChunkType)]
        BY <4>1, ImagesTyped DEF ImagesType
      <4>. QED  BY <2>3, <2>8, <4>1, <4>2, FunctionIsSeq
    <3>. QED  BY <2>7, <3>1, FlattenAppend
  <2>. QED  BY <2>5, <2>6, <2>9
<1>2. CASE Write
  <2>1. sent' = Append(sent, Head(writes)) /\ writes' = Tail(writes) /\ UNCHANGED received
    BY <1>0, <1>2 DEF Write
  <2>2. sent' \o writes' = sent \o writes
    BY <1>2, <2>1, MoveHead DEF Write
  <2>3. Images' = Images
    BY <2>1 DEF Images, Image, Announced, FirstAdded
  <2>. QED  BY <1>0, <2>2, <2>3
<1>3. CASE EndOfStream
  <2>1. UNCHANGED <<received, sent>> /\ writes = <<>>
    BY <1>3 DEF EndOfStream
  <2>2. Images' = Images
    BY <2>1 DEF Images, Image, Announced, FirstAdded
  <2>3. writes' \in Seq(ChunkType) /\ OfIn(Content, writes') = <<>>
    <3>1. writes' = <<>> \/ writes' = <<Shape!FinishChunk(Reason(status)), Shape!Chunk("done")>>
      BY <1>3, <2>1 DEF EndOfStream, done
    <3>2. /\ Shape!FinishChunk(Reason(status)) \in ChunkType /\ Shape!Chunk("done") \in ChunkType
      BY ChunkTypes
    <3>3. writes' \in Seq(ChunkType)
      BY <3>1, <3>2, ShortSeqs
    <3>4. OfIn(Content, writes') = <<>>
      BY <3>1, ContentOf, ContentOfEnds
    <3>. QED  BY <3>3, <3>4
  <2>4. OfIn(Content, sent) \in Seq(ChunkType) /\ sent \o writes = sent
    BY <2>1, ContentOf
  <2>5. OfIn(Content, sent \o writes') = OfIn(Content, sent) \o <<>>
    BY <2>3, ContentOf
  <2>. QED  BY <1>0, <2>1, <2>2, <2>4, <2>5
<1>4. CASE Disconnect \/ UNCHANGED converterVars
  <2>1. UNCHANGED <<received, sent, writes>>
    BY <1>4 DEF Disconnect, converterVars
  <2>2. Images' = Images
    BY <2>1 DEF Images, Image, Announced, FirstAdded
  <2>. QED  BY <1>0, <2>1, <2>2
<1>. QED  BY <1>1, <1>2, <1>3, <1>4 DEF ConverterNext

LEMMA ContentKept == ConverterInv /\ ContentInv => DeltasArrive
<1>. SUFFICES ASSUME ConverterInv, ContentInv, writes = <<>>, ~gone
              PROVE  Of({"text", "call", "args"}) = FlattenSeq(Images)
  BY DEF DeltasArrive, Images
<1>1. sent \o writes = sent
  BY DEF ConverterInv, ConverterTyped
<1>2. Of(Content) = OfIn(Content, sent)
  BY DEF Of, OfIn, Selected
<1>. QED  BY <1>1, <1>2 DEF Content, ContentInv

\* Every piece of content the upstream sent reaches a client that stayed, in order and
\* under the call it belongs to, for streams of any length over any items.
THEOREM ContentArrives == ConverterSpec => []DeltasArrive
  BY ConverterInvInit, ConverterInvNext, ContentInit, IndexNext, ContentNext, ContentKept, PTL
     DEF ConverterSpec
=============================================================================
