---------------------------- MODULE StreamConvert ----------------------------
(***************************************************************************)
(* A streamed answer on its way to the client: the StreamConverter turns   *)
(* the chunks of one protocol into the frames of another, keeping in a few *)
(* fields what it has already opened, and the gateway asks the next RAPI   *)
(* when a stream ended before anything of it reached the client.           *)
(*                                                                         *)
(* Texts and arguments are numbered by the chunk they come in; ids, names, *)
(* usage and stop reasons are left out.  Upstreams follow their protocol,  *)
(* with the liberties the code and its tests name: a role in every chunk   *)
(* or in none, several fields in one chunk, a tool announced again; they   *)
(* may break off anywhere.                                                 *)
(***************************************************************************)
EXTENDS Integers, Sequences, FiniteSets, SequencesExt

CONSTANTS
  ClientFormats, TargetFormats,   \* subsets of "openai", "anthropic", "gemini"
  CallIdx,       \* tool calls of one answer: 0..n
  MaxChunks,     \* chunks of one OpenAI or Gemini upstream
  MaxEvents,     \* starts and deltas of one Anthropic upstream
  MaxAttempts    \* RAPIs tried for one answer

ASSUME StreamAssumption ==
  /\ ClientFormats \cup TargetFormats \subseteq {"openai", "anthropic", "gemini"}
  /\ CallIdx \subseteq Nat /\ IsFiniteSet(CallIdx)
  /\ MaxChunks \in Nat /\ MaxEvents \in Nat /\ MaxAttempts \in Nat \ {0}

VARIABLES
  client,    \* the client's format
  target,    \* the format of the RAPI being read
  attempt,   \* how many have been asked; 0 once the request has ended
  upstream,  \* what the RAPI has sent: chunks, open block, tools, whether it is through
  said,      \* history: the contents of its chunks
  conv,      \* the converter's fields
  out        \* the frames the client has got, with the attempt they are of

streamVars == <<client, target, attempt, upstream, said, conv, out>>

NotSeen == -1
NoContent == -1

NewConverter == [msgStarted |-> FALSE, blockStarted |-> FALSE, blockIndex |-> 0,
                 toolOpen |-> FALSE, toolIdx |-> [c \in CallIdx |-> NotSeen],
                 geminiFirstSent |-> FALSE, parts |-> <<>>]

NewUpstream == [chunks |-> 0, open |-> NoContent, next |-> 0, kind |-> "none",
                named |-> {}, stage |-> "begin"]

StreamTypeOK ==
  /\ client \in ClientFormats /\ target \in TargetFormats
  /\ attempt \in 0..MaxAttempts
  /\ upstream.chunks \in 0..(MaxChunks + MaxEvents) /\ upstream.named \subseteq CallIdx
  /\ upstream.stage \in {"begin", "talk", "finished", "through"}
  /\ conv.blockIndex \in 0..(2 * MaxChunks * (1 + Cardinality(CallIdx)))
  /\ conv.toolIdx \in [CallIdx -> Int]
  /\ conv.parts = <<>>
  /\ \A i \in DOMAIN out : out[i].by \in 0..MaxAttempts

StreamInit ==
  /\ client \in ClientFormats /\ target \in TargetFormats
  /\ attempt = 1
  /\ upstream = NewUpstream /\ said = <<>>
  /\ conv = NewConverter
  /\ out = <<>>

----------------------------------------------------------------------------
(* Frames.  A content is a text, or a fragment of a call's arguments.        *)

TextOf(n) == [kind |-> "text", call |-> NotSeen, part |-> n]
ArgsOf(c, n) == [kind |-> "args", call |-> c, part |-> n]

MessageStart == [type |-> "message_start"]
BlockStart(i, kind, c) == [type |-> "block_start", index |-> i, kind |-> kind, call |-> c]
Delta(i, content) == [type |-> "block_delta", index |-> i, content |-> content]
BlockStop(i) == [type |-> "block_stop", index |-> i]
MessageDelta == [type |-> "message_delta"]
MessageStop == [type |-> "message_stop"]

\* An OpenAI chunk.  `calls` are its tool_calls: their index, whether they carry
\* id and name, the arguments (0: none), and, for the reader, whose they are.
Chunk(role, text, calls, finish) ==
  [type |-> "chunk", role |-> role, text |-> text, calls |-> calls, finish |-> finish]
CallAt(i, c, named, args) == [index |-> i, call |-> c, named |-> named, args |-> args]
DoneFrame == [type |-> "done"]

\* A Gemini chunk: text, functionCalls, which come whole, and finish.
Candidate(text, calls, finish) ==
  [type |-> "candidate", text |-> text, calls |-> calls, finish |-> finish]

ErrorFrame == [type |-> "error"]

Emit(s, frame) == [s EXCEPT !.parts = Append(@, frame)]

----------------------------------------------------------------------------
(* openaiChunkToAnthropic, field by field.                                   *)

Started(s) ==
  IF s.msgStarted THEN s ELSE [Emit(s, MessageStart) EXCEPT !.msgStarted = TRUE]

OnText(s, n) ==
  LET b == s.blockIndex
      opened == IF Started(s).blockStarted THEN Started(s)
                ELSE [Emit(Started(s), BlockStart(b, "text", NotSeen))
                        EXCEPT !.blockStarted = TRUE]
  IN  Emit(opened, Delta(b, TextOf(n)))

CloseText(s) ==
  IF s.blockStarted
  THEN [Emit(s, BlockStop(s.blockIndex)) EXCEPT !.blockStarted = FALSE] ELSE s

\* Before a tool's block, unlike at the end, the next index is taken.
LeaveText(s) == [CloseText(s) EXCEPT !.blockIndex = IF s.blockStarted THEN @ + 1 ELSE @]

\* The block of an open tool is looked for under the index of the call that comes.
LeaveTool(s, c) ==
  LET prev == s.toolIdx[c]
      last == IF prev # NotSeen /\ prev # s.blockIndex THEN prev ELSE s.blockIndex
  IN  IF s.toolOpen THEN [Emit(s, BlockStop(last)) EXCEPT !.toolOpen = FALSE] ELSE s

OpenTool(s, c) ==
  [Emit(s, BlockStart(s.blockIndex, "tool", c)) EXCEPT
     !.toolIdx[c] = s.blockIndex, !.blockIndex = @ + 1, !.toolOpen = TRUE]

\* Go's map has 0 for a call it does not know.
IndexOf(s, c) == IF s.toolIdx[c] = NotSeen THEN 0 ELSE s.toolIdx[c]

\* A mutant: the arguments go to the block that was opened last.
OnCallLatest(s, call) ==
  LET c == call.call
      opened == IF call.named THEN OpenTool(LeaveTool(LeaveText(s), c), c) ELSE s
  IN  IF call.args = 0 THEN opened
      ELSE Emit(opened, Delta(opened.blockIndex - 1, ArgsOf(c, call.args)))

OnCall(s, call) ==
  LET c == call.call
      opened == IF call.named THEN OpenTool(LeaveTool(LeaveText(s), c), c) ELSE s
  IN  IF call.args = 0 THEN opened
      ELSE Emit(opened, Delta(IndexOf(opened, c), ArgsOf(c, call.args)))

\* The calls of one chunk, one after the other.
OnCalls(s, calls) ==
  LET after[i \in 0..Len(calls)] == IF i = 0 THEN s ELSE OnCall(after[i - 1], calls[i])
  IN  after[Len(calls)]

\* A mutant: only what is open as text is closed.
OnFinishText(s) == Emit(Emit(CloseText(s), MessageDelta), MessageStop)

OnFinish(s) ==
  LET t == CloseText(s)
      last == IF t.blockIndex > 0 THEN t.blockIndex - 1 ELSE 0
      closed == IF t.toolOpen THEN [Emit(t, BlockStop(last)) EXCEPT !.toolOpen = FALSE] ELSE t
  IN  Emit(Emit(closed, MessageDelta), MessageStop)

\* A mutant, which is what the code once did: the first field that is there is
\* converted and the rest of the chunk dropped.
OpenAIToAnthropicFirstField(s, chunk) ==
  CASE chunk.role /\ ~s.msgStarted -> Started(s)
    [] ~(chunk.role /\ ~s.msgStarted) /\ chunk.text # 0 -> OnText(s, chunk.text)
    [] OTHER -> IF chunk.finish THEN OnFinish(OnCalls(Started(s), chunk.calls))
                ELSE OnCalls(Started(s), chunk.calls)

OpenAIToAnthropic(s, chunk) ==
  LET role == IF chunk.role THEN Started(s) ELSE s
      text == IF chunk.text # 0 THEN OnText(role, chunk.text) ELSE role
      calls == IF chunk.calls # <<>> THEN OnCalls(Started(text), chunk.calls) ELSE text
  IN  IF chunk.finish THEN OnFinish(calls) ELSE calls

----------------------------------------------------------------------------
(* The other directions.                                                     *)

\* anthropicChunkToOpenAI: the tool_call index of a block is the order in which
\* blocks were first seen.
SeenTools(s) == {c \in CallIdx : s.toolIdx[c] # NotSeen}

Meet(s, b) ==
  IF s.toolIdx[b] # NotSeen THEN s
  ELSE [s EXCEPT !.toolIdx[b] = Cardinality(SeenTools(s))]

AnthropicToOpenAI(s, event) ==
  CASE event.type = "message_start" -> Emit(s, Chunk(TRUE, 0, <<>>, FALSE))
    [] event.type = "block_start" ->
         IF event.kind = "tool"
         THEN LET t == Meet(s, event.index)
              IN  Emit(t, Chunk(FALSE, 0, <<CallAt(t.toolIdx[event.index], event.index, TRUE, 0)>>, FALSE))
         ELSE s
    [] event.type = "block_delta" ->
         IF event.content.kind = "text" THEN Emit(s, Chunk(FALSE, event.content.part, <<>>, FALSE))
         ELSE Emit(s, Chunk(FALSE, 0, <<CallAt(IndexOf(s, event.index), event.content.call,
                                               FALSE, event.content.part)>>, FALSE))
    [] event.type = "message_delta" -> Emit(s, Chunk(FALSE, 0, <<>>, TRUE))
    [] event.type = "message_stop" -> Emit(s, DoneFrame)
    [] OTHER -> s

\* geminiChunkToOpenAI: every function call gets index 0.
GeminiToOpenAI(s, cand) ==
  LET calls == [i \in DOMAIN cand.calls |->
                  CallAt(0, cand.calls[i].call, TRUE, cand.calls[i].args)]
      chunk == Emit([s EXCEPT !.geminiFirstSent = TRUE],
                    Chunk(~s.geminiFirstSent, cand.text, calls, cand.finish))
  IN  IF cand.finish THEN Emit(chunk, DoneFrame) ELSE chunk

\* openaiChunkToGemini: tool calls are not converted.
OpenAIToGemini(s, chunk) == Emit(s, Candidate(chunk.text, <<>>, chunk.finish))

\* processEventBlock.  Formats without a conversion are passed on as they are.
Convert(s, frame) ==
  CASE frame.type = "done" -> IF <<target, client>> = <<"openai", "anthropic">> THEN s
                              ELSE Emit(s, frame)
    [] frame.type # "done" /\ <<target, client>> = <<"openai", "anthropic">> -> OpenAIToAnthropic(s, frame)
    [] frame.type # "done" /\ <<target, client>> = <<"anthropic", "openai">> -> AnthropicToOpenAI(s, frame)
    [] frame.type # "done" /\ <<target, client>> = <<"gemini", "openai">> -> GeminiToOpenAI(s, frame)
    [] frame.type # "done" /\ <<target, client>> = <<"openai", "gemini">> -> OpenAIToGemini(s, frame)
    [] OTHER -> Emit(s, frame)
----------------------------------------------------------------------------
(* Run: the chunks as they come.                                             *)

Reading == attempt > 0
Ordinal == upstream.chunks + 1

Hears(frame, contents, u) ==
  LET s == Convert(conv, frame)
  IN  /\ conv' = [s EXCEPT !.parts = <<>>]
      /\ out' = out \o [i \in DOMAIN s.parts |-> [by |-> attempt, frame |-> s.parts[i]]]
      /\ said' = said \o contents
      /\ upstream' = u
      /\ UNCHANGED <<client, target, attempt>>

ArgsIn(calls) ==
  FlattenSeq([i \in DOMAIN calls |->
    IF calls[i].args = 0 THEN <<>> ELSE <<ArgsOf(calls[i].call, calls[i].args)>>])

ContentsIn(text, calls) == (IF text = 0 THEN <<>> ELSE <<TextOf(text)>>) \o ArgsIn(calls)

\* None, one or two, in the order of their numbers.
InOneChunk(calls) ==
  {<<>>} \cup {<<x>> : x \in calls} \cup {p \in calls \X calls : p[1].call < p[2].call}

\* tool_calls of a chunk: a call is announced, and may be again, before its
\* arguments come without id and name.
ToolCalls ==
  LET one == {CallAt(c, c, named, args) : c \in CallIdx, named \in BOOLEAN, args \in {0, Ordinal}}
      legal == {x \in one : (x.named \/ x.args # 0) /\ (x.named \/ x.call \in upstream.named)}
  IN  InOneChunk(legal)

\* A role may come in any chunk; only the conversion to Anthropic looks at it.
Roles == IF client = "anthropic" THEN BOOLEAN ELSE {upstream.chunks = 0}

OpenAISends ==
  /\ Reading /\ target = "openai" /\ upstream.stage \in {"begin", "talk"}
  /\ upstream.chunks < MaxChunks
  /\ \E role \in Roles, finish \in BOOLEAN, text \in {0, Ordinal}, calls \in ToolCalls :
       /\ role \/ finish \/ text # 0 \/ calls # <<>>
       /\ Hears(Chunk(role, text, calls, finish), ContentsIn(text, calls),
                [upstream EXCEPT !.chunks = @ + 1,
                                 !.stage = IF finish THEN "finished" ELSE "talk",
                                 !.named = @ \cup {calls[i].call : i \in DOMAIN calls}])

OpenAIDone ==
  /\ Reading /\ target = "openai" /\ upstream.stage = "finished"
  /\ Hears(DoneFrame, <<>>, [upstream EXCEPT !.stage = "through"])

AnthropicEnvelope ==
  /\ Reading /\ target = "anthropic"
  /\ \/ /\ upstream.stage = "begin"
        /\ Hears(MessageStart, <<>>, [upstream EXCEPT !.stage = "talk"])
     \/ /\ upstream.stage = "talk" /\ upstream.open = NoContent
        /\ Hears(MessageDelta, <<>>, [upstream EXCEPT !.stage = "finished"])
     \/ /\ upstream.stage = "finished"
        /\ Hears(MessageStop, <<>>, [upstream EXCEPT !.stage = "through"])

\* One block after another; the start of a tool's may be sent again.
AnthropicOpens ==
  /\ Reading /\ target = "anthropic" /\ upstream.stage = "talk"
  /\ upstream.chunks < MaxEvents
  /\ \/ /\ upstream.open = NoContent /\ upstream.next \in CallIdx
        /\ \E kind \in {"text", "tool"} :
             Hears(BlockStart(upstream.next, kind, upstream.next), <<>>,
                   [upstream EXCEPT !.chunks = @ + 1, !.kind = kind,
                                    !.open = upstream.next, !.next = @ + 1])
     \/ /\ upstream.open # NoContent /\ upstream.kind = "tool"
        /\ Hears(BlockStart(upstream.open, "tool", upstream.open), <<>>,
                 [upstream EXCEPT !.chunks = @ + 1])

AnthropicSends ==
  /\ Reading /\ target = "anthropic" /\ upstream.stage = "talk" /\ upstream.open # NoContent
  /\ \/ /\ upstream.chunks < MaxEvents
        /\ LET content == IF upstream.kind = "text" THEN TextOf(Ordinal)
                          ELSE ArgsOf(upstream.open, Ordinal)
           IN  Hears(Delta(upstream.open, content), <<content>>,
                     [upstream EXCEPT !.chunks = @ + 1])
     \/ Hears(BlockStop(upstream.open), <<>>, [upstream EXCEPT !.open = NoContent])

\* A Gemini call comes once and whole.
FunctionCalls ==
  InOneChunk([call : CallIdx \ upstream.named, args : {Ordinal}])

GeminiSends ==
  /\ Reading /\ target = "gemini" /\ upstream.stage \in {"begin", "talk"}
  /\ upstream.chunks < MaxChunks
  /\ \E text \in {0, Ordinal}, calls \in FunctionCalls, finish \in BOOLEAN :
       Hears(Candidate(text, calls, finish), ContentsIn(text, calls),
             [upstream EXCEPT !.chunks = @ + 1,
                              !.named = @ \cup {calls[i].call : i \in DOMAIN calls},
                              !.stage = IF finish THEN "through" ELSE "talk"])

----------------------------------------------------------------------------
(* handleStreamingRequest: what follows the end of a stream.                 *)

\* A mutant: a stream that broke off is tried elsewhere.
CommittedWhenThrough == upstream.stage = "through"

\* Written() > 0, whatever ended the stream.
Committed == \E i \in DOMAIN out : out[i].by = attempt

\* The stream ends, after its last chunk or before, with or without an error:
\* the request is over, or the next RAPI is asked, or none is left.
StreamEnds ==
  /\ Reading
  /\ \/ /\ Committed
        /\ attempt' = 0
        /\ out' = <<>> /\ said' = <<>> /\ upstream' = NewUpstream /\ conv' = NewConverter
        /\ UNCHANGED target
     \/ /\ ~Committed /\ attempt < MaxAttempts
        /\ attempt' = attempt + 1 /\ target' \in TargetFormats
        /\ upstream' = NewUpstream /\ said' = <<>> /\ conv' = NewConverter
        /\ UNCHANGED out
     \/ /\ ~Committed /\ attempt = MaxAttempts
        /\ attempt' = 0
        /\ out' = Append(out, [by |-> 0, frame |-> ErrorFrame])
        /\ UNCHANGED <<target, upstream, said, conv>>
  /\ UNCHANGED client

StreamNext ==
  \/ OpenAISends
  \/ OpenAIDone
  \/ AnthropicEnvelope
  \/ AnthropicOpens
  \/ AnthropicSends
  \/ GeminiSends
  \/ StreamEnds

StreamSpec == StreamInit /\ [][StreamNext]_streamVars

----------------------------------------------------------------------------
(* Properties.                                                              *)

Frames == [i \in DOMAIN out |-> out[i].frame]

\* There is no conversion between these two: their frames are passed on raw.
Converted == {target, client} # {"anthropic", "gemini"}

ContentsOf(frame) ==
  CASE frame.type = "block_delta" -> <<frame.content>>
    [] frame.type \in {"chunk", "candidate"} -> ContentsIn(frame.text, frame.calls)
    [] OTHER -> <<>>

\* "Cross-stream contamination": the client never gets frames of two upstreams,
\* nor an error behind part of an answer.
OneUpstream == \A i, j \in DOMAIN out : out[i].by = out[j].by

Contents(frames) == FlattenSeq([i \in DOMAIN frames |-> ContentsOf(frames[i])])

TextsIn(contents) ==
  FlattenSeq([i \in DOMAIN contents |->
    IF contents[i].kind = "text" THEN <<contents[i]>> ELSE <<>>])

\* Whatever fields an upstream packs into one chunk, every text and every
\* fragment of arguments reaches the client, once and in order; only calls on
\* their way to a Gemini client are not converted.
ContentInOrder ==
  Contents(Frames) = IF <<target, client>> = <<"openai", "gemini">> THEN TextsIn(said) ELSE said

\* A content lies in the block that was opened for it, for an Anthropic client;
\* and the arguments an OpenAI client files under an index are those of the
\* call last announced there, which keeps the index it was first given.  Calls of
\* a Gemini upstream share index 0.
OpenedFor(i) ==
  \E j \in 1..(i - 1) :
    /\ Frames[j].type = "block_start" /\ Frames[j].index = Frames[i].index
    /\ Frames[j].kind = "text" <=> Frames[i].content.kind = "text"
    /\ Frames[j].kind = "tool" => Frames[j].call = Frames[i].content.call
    /\ \A k \in (j + 1)..(i - 1) :
         Frames[k].type \in {"block_start", "block_stop"} =>
           Frames[k].index # Frames[i].index \/ Frames[k] = Frames[j]

CallsHeard == FlattenSeq([i \in DOMAIN out |->
                 IF Frames[i].type = "chunk" THEN Frames[i].calls ELSE <<>>])

ArgsReachTheirCall ==
  /\ client = "anthropic" /\ Converted =>
       \A i \in DOMAIN out : Frames[i].type = "block_delta" => OpenedFor(i)
  /\ client = "openai" /\ target # "gemini" =>
       \A j \in DOMAIN CallsHeard :
         CallsHeard[j].args # 0 =>
           \E i \in 1..j :
             /\ CallsHeard[i].named
             /\ CallsHeard[i].index = CallsHeard[j].index
             /\ CallsHeard[i].call = CallsHeard[j].call
             /\ \A k \in (i + 1)..j :
                  CallsHeard[k].named => CallsHeard[k].index # CallsHeard[i].index
  /\ client = "openai" /\ target # "gemini" =>
       \A i, j \in DOMAIN CallsHeard :
         CallsHeard[i].call = CallsHeard[j].call <=> CallsHeard[i].index = CallsHeard[j].index

\* An Anthropic client gets message_start once and before any content, and
\* nothing after message_stop; an OpenAI client whose upstream speaks another
\* protocol gets the role first, and [DONE] once, at the end.
Framed ==
  \A i \in DOMAIN out : Converted =>
    /\ client = "anthropic" =>
         /\ Frames[i].type = "message_start" => i = 1
         /\ Frames[i].type = "block_delta" => Frames[1].type = "message_start"
         /\ Frames[i].type = "message_stop" => i = Len(out)
    /\ client = "openai" /\ target # "openai" =>
         /\ Frames[i].type = "chunk" => (Frames[i].role <=> i = 1)
         /\ Frames[i].type = "done" => i = Len(out)

StopsAfter(i) ==
  {j \in DOMAIN out : Frames[j].type = "block_stop" /\ Frames[j].index = Frames[i].index}

\* Every block of a message that ends is closed, once, after it was opened
\* ("Close a previously open tool block").  Expected to fail: the block of the
\* first of two calls stays open.
EveryBlockStops ==
  client = "anthropic" /\ Converted /\ (\E i \in DOMAIN out : Frames[i].type = "message_stop") =>
    \A i \in DOMAIN out :
      Frames[i].type = "block_start" => \E j \in StopsAfter(i) : j > i /\ StopsAfter(i) = {j}

\* A stream is framed as its protocol says, however the upstream packs roles,
\* texts, calls and the end into chunks; the blocks are balanced as long as the
\* answer calls one tool only, whatever text surrounds the call and however
\* often it is announced.
WellFramed ==
  /\ Framed
  /\ upstream.named \subseteq {0} \/ upstream.named \subseteq {1} => EveryBlockStops
=============================================================================
