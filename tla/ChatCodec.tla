----------------------------- MODULE ChatCodec -----------------------------
(***************************************************************************)
(* pkg/gateway/providers/openaicompat: the chat completions dialect of     *)
(* Sarvam and xAI to the native form and back. A frame is flat, and the    *)
(* field that is set says what it is a fragment of: the converter opens    *)
(* and closes items. Frames are external: a fragment of reasoning, of      *)
(* text or of the tool call with an index, an id and a name.               *)
(***************************************************************************)
EXTENDS NativeResponses

Step(conv, out) == [conv |-> conv, out |-> out]

NoCall == [index |-> -1, id |-> NoId, name |-> 0, args |-> <<>>]
NoTokens == [prompt |-> 0, cached |-> 0, output |-> 0]
Frame == [reasoning |-> <<>>, content |-> <<>>, calls |-> <<>>, finish |-> FALSE, tokens |-> NoTokens]

(* StreamConverter. kind (openKind): none, reasoning, message, function_call *)
NewConverter == [index |-> 0, started |-> FALSE, completed |-> FALSE, kind |-> "none", id |-> NoId,
                 acc |-> <<>>, toolIndex |-> 0, tool |-> NoId, name |-> 0, nextImplicit |-> 0,
                 usage |-> NoTokens, done |-> <<>>, minted |-> 0]

ToNativeUsage(t) == [input |-> t.prompt, cached |-> t.cached, output |-> t.output]

----------------------------------------------------------------------------
(* Chunk builders *)

Opening == << Chunk("response.created", 0, NoId, <<>>), Chunk("response.in_progress", 0, NoId, <<>>) >>
Plain(c, type, text) == Chunk(type, c.index, c.id, text)
ItemAdded(c, item) == ItemChunk("response.output_item.added", c.index, item)
ItemDone(c, item) == ItemChunk("response.output_item.done", c.index, item)

Added(c) ==
    CASE c.kind = "reasoning" -> << ItemAdded(c, ReasoningItem(c.id, <<>>, Nil)),
                                    Plain(c, "response.reasoning_summary_part.added", <<>>) >>
      [] c.kind = "message" -> << ItemAdded(c, MessageItem("OfOutputMessage", "assistant", c.id, <<>>, <<>>)),
                                  Plain(c, "response.content_part.added", <<>>) >>
      [] OTHER -> << ItemAdded(c, CallItem(c.id, c.tool, c.name, <<>>)) >>

Done(c, item) ==
    CASE c.kind = "reasoning" -> << Plain(c, "response.reasoning_summary_text.done", c.acc),
                                    Plain(c, "response.reasoning_summary_part.done", c.acc) >>
      [] c.kind = "message" -> << Plain(c, "response.output_text.done", c.acc),
                                  Plain(c, "response.content_part.done", c.acc) >>
      [] OTHER -> << Plain(c, "response.function_call_arguments.done", item.text) >>

buildResponseCompleted(c) == << CompletedChunk(c.done, ToNativeUsage(c.usage)) >>

----------------------------------------------------------------------------
(* Stream handlers *)

Prefix(kind) == CASE kind = "message" -> "msg" [] kind = "function_call" -> "fc" [] OTHER -> "rs"

OpenItem(c) ==
    CASE c.kind = "reasoning" -> ReasoningItem(c.id, c.acc, Nil)
      [] c.kind = "message" -> MessageItem("OfOutputMessage", "assistant", c.id, c.acc, <<>>)
      [] OTHER -> CallItem(c.id, c.tool, c.name, IF c.acc = <<>> THEN EmptyObject ELSE c.acc)

closeOpenItem(c) ==
    IF c.kind = "none" THEN Step(c, <<>>)
    ELSE Step([c EXCEPT !.done = Append(@, OpenItem(c)), !.kind = "none", !.acc = <<>>, !.index = @ + 1],
              Done(c, OpenItem(c)) \o << ItemDone(c, OpenItem(c)) >>)

(* Closes what is open and opens an item of the kind.                       *)
Opened(c, kind, call) ==
    LET closed == closeOpenItem(c)
        o == [closed.conv EXCEPT !.kind = kind, !.id = Minted(Prefix(kind), c.minted), !.minted = @ + 1,
                                 !.tool = IF kind = "function_call" THEN call.id ELSE @,
                                 !.name = IF kind = "function_call" THEN call.name ELSE @,
                                 !.acc = <<>>]
    IN  Step(o, closed.out \o Added(o))

openReasoning(c) == IF c.kind = "reasoning" THEN Step(c, <<>>) ELSE Opened(c, "reasoning", NoCall)
openMessage(c) == IF c.kind = "message" THEN Step(c, <<>>) ELSE Opened(c, "message", NoCall)

Appended(step, type, text) ==
    Step([step.conv EXCEPT !.acc = @ \o text], step.out \o << Plain(step.conv, type, text) >>)

(* The call a fragment belongs to: the index it carries, or for a provider  *)
(* that sends none, a new call when the id is new.                          *)
CallIndex(c, call) ==
    CASE call.index # -1 -> call.index
      [] call.index = -1 /\ (c.kind # "function_call" \/ (call.id # NoId /\ call.id # c.tool)) -> c.nextImplicit
      [] OTHER -> c.toolIndex

handleToolCallDelta(c, call) ==
    LET index == CallIndex(c, call)
        opened == IF c.kind # "function_call" \/ c.toolIndex # index
                  THEN Opened(c, "function_call", call)
                  ELSE Step(c, <<>>)
        o == [opened.conv EXCEPT !.toolIndex = index,
                                 !.nextImplicit = IF opened.out = <<>> THEN @ ELSE index + 1,
                                 !.tool = IF call.id # NoId THEN call.id ELSE @,
                                 !.name = IF @ = 0 THEN call.name ELSE @]
    IN  IF call.args = <<>> THEN Step(o, opened.out)
        ELSE Appended(Step(o, opened.out), "response.function_call_arguments.delta", call.args)

(* StreamConverter.Convert: reasoning, then text, then the calls, then the  *)
(* close the finish reason asks for.                                        *)
Convert(c, frame) ==
    LET then(s, handler(_)) == LET h == handler(s.conv) IN Step(h.conv, s.out \o h.out)
        opened == Step([c EXCEPT !.started = TRUE, !.usage = IF frame.tokens = NoTokens THEN @ ELSE frame.tokens],
                       IF c.started THEN <<>> ELSE Opening)
        reasoned == IF frame.reasoning = <<>> THEN opened
                    ELSE Appended(then(opened, openReasoning), "response.reasoning_summary_text.delta", frame.reasoning)
        written == IF frame.content = <<>> THEN reasoned
                   ELSE Appended(then(reasoned, openMessage), "response.output_text.delta", frame.content)
        onCall(s, call) == LET h == handleToolCallDelta(s.conv, call) IN Step(h.conv, s.out \o h.out)
        called == FoldLeft(onCall, written, frame.calls)
    IN  IF frame.finish THEN then(called, closeOpenItem) ELSE called

(* The end of the stream, whatever ended it.                                *)
Finish(c) ==
    LET closed == closeOpenItem(c)
    IN  IF c.completed THEN Step(c, <<>>)
        ELSE Step([closed.conv EXCEPT !.completed = TRUE, !.started = TRUE],
                  closed.out \o (IF c.started THEN <<>> ELSE Opening) \o buildResponseCompleted(closed.conv))

----------------------------------------------------------------------------
(* Whole messages *)

NoMessage == [role |-> "assistant", content |-> <<>>, reasoning |-> <<>>, calls |-> <<>>, answers |-> NoId]

(* messageToNativeOutput: reasoning first, then the text, then the calls.   *)
messageToNativeOutput(msg) ==
    (IF msg.reasoning = <<>> THEN <<>> ELSE << ReasoningItem(NoId, msg.reasoning, Nil) >>)
    \o (IF msg.content = <<>> THEN <<>>
        ELSE << MessageItem("OfOutputMessage", "assistant", NoId, msg.content, <<>>) >>)
    \o [i \in DOMAIN msg.calls |->
           CallItem(NoId, msg.calls[i].id, msg.calls[i].name,
                    IF msg.calls[i].args = <<>> THEN EmptyObject ELSE msg.calls[i].args)]

nativeRole(role) ==
    CASE role = "assistant" -> "assistant" [] role \in {"system", "developer"} -> "system" [] OTHER -> "user"

appendInputMessage_Unmerged(msgs, item) ==
    CASE item.type = "message" -> Append(msgs, [NoMessage EXCEPT !.role = nativeRole(item.role), !.content = item.text])
      [] item.type = "function_call" ->
           Append(msgs, [NoMessage EXCEPT !.calls = << [NoCall EXCEPT !.id = item.call, !.args = item.text] >>])
      [] item.type = "function_call_output" -> Append(msgs, [NoMessage EXCEPT !.role = "tool", !.answers = item.call])
      [] OTHER -> msgs

(* appendInputMessage: a call joins the assistant message before it when    *)
(* that has calls; reasoning and server tools have no branch.               *)
appendInputMessage(msgs, item) ==
    LET call == [NoCall EXCEPT !.id = item.call, !.name = item.name, !.args = item.text]
        last == IF msgs = <<>> THEN NoMessage ELSE msgs[Len(msgs)]
    IN  CASE item.type = "message" ->
               Append(msgs, [NoMessage EXCEPT !.role = IF item.arm = "OfOutputMessage" THEN "assistant"
                                                       ELSE nativeRole(item.role),
                                              !.content = item.text])
          [] item.type = "function_call" /\ last.role = "assistant" /\ last.calls # <<>> ->
               [msgs EXCEPT ![Len(msgs)].calls = Append(@, call)]
          [] item.type = "function_call" /\ ~(last.role = "assistant" /\ last.calls # <<>>) ->
               Append(msgs, [NoMessage EXCEPT !.calls = <<call>>])
          [] item.type = "function_call_output" ->
               Append(msgs, [NoMessage EXCEPT !.role = "tool", !.content = item.text, !.answers = item.call])
          [] OTHER -> msgs

NativeRequestToChatRequest(items) == FoldLeft(appendInputMessage, <<>>, items)
=============================================================================
