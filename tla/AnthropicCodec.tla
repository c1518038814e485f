--------------------------- MODULE AnthropicCodec ---------------------------
(***************************************************************************)
(* pkg/gateway/providers/anthropic/anthropic_responses: Anthropic's        *)
(* messages and stream events to the native form and back. A content block *)
(* is a record of which each kind uses some fields: `text` is a tool_use's *)
(* input as JSON, a server tool's query or command; `out` is a text's      *)
(* citations, a search's results or a code run's standard output, `err`    *)
(* the standard error of a run whose return code is not 0 (~ok), `sig` a   *)
(* signature. Wire events are external; a converter is a record, and a     *)
(* handler maps a converter and an event to the next converter and the     *)
(* chunks it emits, [conv, out].                                           *)
(***************************************************************************)
EXTENDS NativeResponses

Step(conv, out) == [conv |-> conv, out |-> out]

NoBlock == [kind |-> "", id |-> NoId, name |-> 0, tool |-> "", text |-> <<>>, out |-> <<>>,
            err |-> <<>>, sig |-> <<>>, ok |-> TRUE]
Block(kind, id, text) == [NoBlock EXCEPT !.kind = kind, !.id = id, !.text = text]

NoTokens == [uncached |-> 0, written |-> 0, read |-> 0, output |-> 0]
Event(type) == [type |-> type, index |-> 0, block |-> NoBlock, delta |-> "", text |-> <<>>, tokens |-> NoTokens]
StartEvent(b) == [Event("content_block_start") EXCEPT !.block = b]
DeltaEvent(delta, t) == [Event("content_block_delta") EXCEPT !.delta = delta, !.text = t]
StopEvent == Event("content_block_stop")

(* ResponseChunkToNativeResponseChunkConverter; `minted` counts the uuids.  *)
NewConverter == [start |-> NoTokens, delta |-> NoTokens, block |-> NoBlock, index |-> 0, id |-> NoId,
                 acc |-> <<>>, sig |-> <<>>, done |-> <<>>, minted |-> 0]

----------------------------------------------------------------------------
(* Usage *)

UsageWithSplitCacheTokens(uncached, read, written, output) ==
    [input |-> uncached + read + written, cached |-> read, output |-> output]

nativeUsage(t) == UsageWithSplitCacheTokens(t.uncached, t.read, t.written, t.output)

Larger(a, b) == IF a < b THEN b ELSE a

(* Field by field the larger of what message_start and message_delta said.  *)
streamUsage(c) ==
    nativeUsage([f \in DOMAIN NoTokens |-> Larger(c.start[f], c.delta[f])])

(* The way back: cache writes are folded into the uncached prompt.          *)
anthropicUsage(u) ==
    LET uncached == u.input - u.cached
    IN  IF uncached < 0
        THEN [NoTokens EXCEPT !.read = u.input, !.output = u.output]
        ELSE [NoTokens EXCEPT !.uncached = uncached, !.read = u.cached, !.output = u.output]

----------------------------------------------------------------------------
(* Chunk builders *)

Opening == << Chunk("response.created", 0, NoId, <<>>), Chunk("response.in_progress", 0, NoId, <<>>) >>

ItemAdded(c, item) == ItemChunk("response.output_item.added", c.index, [item EXCEPT !.id = c.id])

AddedCall(c, b) == ItemAdded(c, CallItem(c.id, b.id, b.name, EmptyObject))
AddedReasoning(c) == ItemAdded(c, ReasoningItem(c.id, <<>>, <<>>))

SearchProgress(c) ==
    << ItemAdded(c, ServerToolItem("web_search_call", c.id, <<>>, <<>>)),
       Chunk("response.web_search_call.in_progress", c.index, c.id, <<>>),
       Chunk("response.web_search_call.searching", c.index, c.id, <<>>),
       Chunk("response.web_search_call.completed", c.index, c.id, <<>>) >>

CodeStarted(c) ==
    << ItemAdded(c, ServerToolItem("code_interpreter_call", c.id, <<>>, <<>>)),
       Chunk("response.code_interpreter_call.in_progress", c.index, c.id, <<>>) >>
CodeDelta(c, t) == << Chunk("response.code_interpreter_call_code.delta", c.index, c.id, t) >>
CodeWritten(c) ==
    << Chunk("response.code_interpreter_call_code.done", c.index, c.id, c.acc),
       Chunk("response.code_interpreter_call.interpreting", c.index, c.id, <<>>) >>
CodeCompleted(c, logs) ==
    << Chunk("response.code_interpreter_call.completed", c.index, c.id, c.acc),
       ItemChunk("response.output_item.done", c.index,
                 ServerToolItem("code_interpreter_call", c.id, c.acc, logs)) >>

PartAdded(c, type) == Chunk(type, c.index, c.id, <<>>)

Delta(c, type, t) == << Chunk(type, c.index, c.id, t) >>

(* <<text done, part done, item done>> of a message, and of a reasoning.    *)
MessageDone(c) ==
    << Chunk("response.output_text.done", c.index, c.id, c.acc),
       Chunk("response.content_part.done", c.index, c.id, c.acc),
       ItemChunk("response.output_item.done", c.index,
                 MessageItem("OfOutputMessage", "assistant", c.id, c.acc, <<>>)) >>
CallDone(c, item) ==
    << Chunk("response.function_call_arguments.done", c.index, c.id, item.text),
       ItemChunk("response.output_item.done", c.index, item) >>
ReasoningDone(c) ==
    << Chunk("response.reasoning_summary_text.done", c.index, c.id, c.acc),
       Chunk("response.reasoning_summary_part.done", c.index, c.id, c.acc),
       ItemChunk("response.output_item.done", c.index, ReasoningItem(c.id, c.acc, c.sig)) >>

(* OutputIndex is the literal 0, and the query is parsed from the JSON that *)
(* accumulated over the server_tool_use block before this one.              *)
SearchDone(c, sources) ==
    << ItemChunk("response.output_item.done", 0,
                 ServerToolItem("web_search_call", c.id, FieldOf(c.acc), sources)) >>

ResponseCompleted(c) == << CompletedChunk(c.done, streamUsage(c)) >>

----------------------------------------------------------------------------
(* Stream handlers *)

handleMessageStart(c, ev) == Step([c EXCEPT !.start = ev.tokens], Opening)

(* Only the first four kinds mint or take an id; a result block keeps the   *)
(* id of the server_tool_use before it, redacted thinking opens nothing.    *)
handleContentBlockStart(c, b) ==
    LET mint(prefix) == [c EXCEPT !.block = b, !.minted = @ + 1, !.id = Minted(prefix, c.minted)]
        server == [c EXCEPT !.block = b, !.id = b.id]
        msg == mint("msg")
        fc == mint("fc")
        rs == mint("rs")
    IN  CASE b.kind = "text" ->
               Step(msg, << ItemAdded(msg, MessageItem("OfOutputMessage", "assistant", msg.id, <<>>, <<>>)),
                            PartAdded(msg, "response.content_part.added") >>)
          [] b.kind = "tool_use" -> Step(fc, << AddedCall(fc, b) >>)
          [] b.kind = "thinking" ->
               Step(rs, << AddedReasoning(rs), PartAdded(rs, "response.reasoning_summary_part.added") >>)
          [] b.kind = "server_tool_use" ->
               Step(server, CASE b.tool = "web_search" -> SearchProgress(server)
                              [] b.tool = "bash_code_execution" -> CodeStarted(server)
                              [] OTHER -> <<>>)
          [] OTHER -> Step([c EXCEPT !.block = b], <<>>)

handleThinkingDelta_Unsigned(c, ev) ==
    Step([c EXCEPT !.acc = @ \o ev.text], Delta(c, "response.reasoning_summary_text.delta", ev.text))
handleThinkingDelta(c, ev) ==
    CASE ev.delta = "thinking_delta" ->
           Step([c EXCEPT !.acc = @ \o ev.text], Delta(c, "response.reasoning_summary_text.delta", ev.text))
      [] ev.delta = "signature_delta" ->
           Step([c EXCEPT !.sig = @ \o ev.text],
                << [Delta(c, "response.reasoning_summary_text.delta", <<>>)[1]
                        EXCEPT !.item = ReasoningItem(c.id, <<>>, ev.text)] >>)
      [] OTHER -> Step(c, <<>>)

handleContentBlockDelta(c, ev) ==
    LET kept == [c EXCEPT !.acc = @ \o ev.text]
        kind == c.block.kind
    IN  CASE kind = "text" /\ ev.delta = "text_delta" ->
               Step(kept, Delta(c, "response.output_text.delta", ev.text))
          [] kind = "text" /\ ev.delta = "citations_delta" ->
               Step(c, Delta(c, "response.output_text.annotation.added", ev.text))
          [] kind = "tool_use" /\ ev.delta = "input_json_delta" ->
               Step(kept, Delta(c, "response.function_call_arguments.delta", ev.text))
          [] kind = "server_tool_use" /\ ev.delta = "input_json_delta" ->
               Step(kept, IF c.block.tool = "bash_code_execution" THEN CodeDelta(c, ev.text) ELSE <<>>)
          [] kind = "thinking" -> handleThinkingDelta(c, ev)
          [] OTHER -> Step(c, <<>>)

NextBlock_KeepsText(c) == [c EXCEPT !.index = @ + 1, !.sig = <<>>]
NextBlock(c) == [c EXCEPT !.index = @ + 1, !.acc = <<>>, !.sig = <<>>]

completeTextBlock(c) ==
    Step(NextBlock([c EXCEPT !.done = Append(@, MessageItem("OfOutputMessage", "assistant", c.id, c.acc, <<>>))]),
         MessageDone(c))

completeToolUseBlock(c) ==
    LET item == CallItem(c.id, c.block.id, c.block.name, IF c.acc = <<>> THEN EmptyObject ELSE c.acc)
    IN  Step(NextBlock([c EXCEPT !.done = Append(@, item)]), CallDone(c, item))

completeThinkingBlock(c) ==
    Step(NextBlock([c EXCEPT !.done = Append(@, ReasoningItem(c.id, c.acc, c.sig))]), ReasoningDone(c))

(* Returns without the reset: index and text carry on into the result.      *)
completeServerToolUseBlock(c) ==
    Step(c, IF c.block.tool = "bash_code_execution" THEN CodeWritten(c) ELSE <<>>)

completeWebSearchCallBlock(c) == Step(NextBlock(c), SearchDone(c, c.block.out))

(* The code is that JSON itself, not the command in it.                     *)
completeBashCodeExecutionToolResult(c) ==
    Step(NextBlock(c), CodeCompleted(c, IF c.block.ok THEN c.block.out ELSE c.block.err))

handleContentBlockStop(c) ==
    CASE c.block.kind = "" -> Step(c, <<>>)
      [] c.block.kind = "text" -> completeTextBlock(c)
      [] c.block.kind = "tool_use" -> completeToolUseBlock(c)
      [] c.block.kind = "thinking" -> completeThinkingBlock(c)
      [] c.block.kind = "server_tool_use" -> completeServerToolUseBlock(c)
      [] c.block.kind = "web_search_tool_result" -> completeWebSearchCallBlock(c)
      [] c.block.kind = "bash_code_execution_tool_result" -> completeBashCodeExecutionToolResult(c)
      [] OTHER -> Step(NextBlock(c), <<>>)

(* ResponseChunkToNativeResponseChunk.                                      *)
Convert(c, ev) ==
    CASE ev.type = "message_start" -> handleMessageStart(c, ev)
      [] ev.type = "content_block_start" -> handleContentBlockStart(c, ev.block)
      [] ev.type = "content_block_delta" -> handleContentBlockDelta(c, ev)
      [] ev.type = "content_block_stop" -> handleContentBlockStop(c)
      [] ev.type = "message_delta" -> Step([c EXCEPT !.delta = ev.tokens], <<>>)
      [] ev.type = "message_stop" -> Step(c, ResponseCompleted(c))
      [] OTHER -> Step(c, <<>>)

----------------------------------------------------------------------------
(* Whole messages to the native form *)

(* The query or the command the use was decoded to; a code run that failed  *)
(* gives its standard error as the code that ran.                           *)
ServerToolResult(use, b) ==
    IF b.kind = "web_search_tool_result"
    THEN ServerToolItem("web_search_call", use.id, use.text, b.out)
    ELSE ServerToolItem("code_interpreter_call", use.id, IF b.ok THEN use.text ELSE b.err, b.out)

Answers(use, b) ==
    \/ b.kind = "web_search_tool_result" /\ use.tool = "web_search"
    \/ b.kind = "bash_code_execution_tool_result" /\ use.tool = "bash_code_execution"

(* The last server_tool_use before block i, if a result has not used it up. *)
PreviousServerToolUse(blocks, i, keep) ==
    LET uses == {j \in 1..(i - 1) : blocks[j].kind = "server_tool_use"}
        last == Max(uses)
    IN  IF uses = {} \/ (~keep /\ \E j \in last..(i - 1) : Answers(blocks[last], blocks[j]))
        THEN NoBlock
        ELSE blocks[last]

(* Response.ToNativeResponse.                                               *)
ToNativeResponse(blocks) ==
    LET item(i) ==
            LET b == blocks[i]
                use == PreviousServerToolUse(blocks, i, FALSE)
            IN  CASE b.kind = "text" -> << MessageItem("OfOutputMessage", "assistant", NoId, b.text, b.out) >>
                  [] b.kind = "tool_use" -> << CallItem(b.id, b.id, b.name, b.text) >>
                  [] b.kind = "thinking" -> << ReasoningItem(NoId, b.text, b.sig) >>
                  [] b.kind = "redacted_thinking" -> << ReasoningItem(NoId, Nil, b.sig) >>
                  [] Answers(use, b) -> << ServerToolResult(use, b) >>
                  [] OTHER -> <<>>
    IN  FlattenSeq([i \in DOMAIN blocks |-> item(i)])

(* MessageUnion.ToNativeMessage: the first block that is neither text nor   *)
(* image decides, and what stands before or after it is dropped.            *)
ToNativeMessage(msg) ==
    LET blocks == msg.content
        deciding == {i \in DOMAIN blocks :
                       \/ blocks[i].kind \in {"tool_use", "tool_result", "thinking", "redacted_thinking"}
                       \/ Answers(PreviousServerToolUse(blocks, i, TRUE), blocks[i])}
        b == blocks[Min(deciding)]
        texts == SelectSeq(blocks, LAMBDA x : x.kind = "text")
    IN  IF deciding = {}
        THEN MessageItem("OfInputMessage", msg.role, NoId,
                         FlattenSeq([i \in DOMAIN texts |-> texts[i].text]),
                         FlattenSeq([i \in DOMAIN texts |-> texts[i].out]))
        ELSE CASE b.kind = "tool_use" -> CallItem(b.id, b.id, b.name, b.text)
               [] b.kind = "tool_result" -> CallOutputItem(b.id, b.text)
               [] b.kind = "thinking" -> ReasoningItem(NoId, b.text, b.sig)
               [] b.kind = "redacted_thinking" -> ReasoningItem(NoId, Nil, b.sig)
               [] OTHER -> ServerToolResult(PreviousServerToolUse(blocks, Min(deciding), TRUE), b)

MessagesToNativeMessages(msgs) == [i \in DOMAIN msgs |-> ToNativeMessage(msgs[i])]

----------------------------------------------------------------------------
(* The native form to messages *)

Message(role, content) == [role |-> role, content |-> content]

NativeRoleToRole(role) == IF role \in {"user", "system", "developer"} THEN "user" ELSE "assistant"

(* A server tool's use and its result, of an item that has something to show.*)
ServerToolBlocks(item) ==
    CASE item.type = "web_search_call" /\ item.out # <<>> ->
           << [Block("server_tool_use", item.id, item.text) EXCEPT !.tool = "web_search"],
              [Block("web_search_tool_result", item.id, <<>>) EXCEPT !.out = item.out] >>
      [] item.type = "code_interpreter_call" ->
           << [Block("server_tool_use", item.id, item.text) EXCEPT !.tool = "bash_code_execution"],
              [Block("bash_code_execution_tool_result", item.id, <<>>) EXCEPT !.out = item.out] >>
      [] OTHER -> <<>>

ThinkingBlock(item) ==
    [Block("thinking", NoId, IF item.text = Nil THEN <<>> ELSE item.text) EXCEPT !.sig = item.enc]

(* One item of NativeMessagesToMessage: an OfOutputMessage has no branch    *)
(* there, reasoning without a signature is skipped, and redacted reasoning  *)
(* goes out as thinking without text. Only the text of a content is kept.   *)
NativeMessageToMessages(item) ==
    CASE item.type = "message" /\ item.arm \in {"OfEasyInput", "OfInputMessage"} ->
           << Message(NativeRoleToRole(item.role), << [Block("text", NoId, item.text) EXCEPT !.out = item.out] >>) >>
      [] item.type = "function_call" ->
           << Message("assistant", << [Block("tool_use", item.call, ParsedArguments(item.text))
                                          EXCEPT !.name = item.name] >>) >>
      [] item.type = "function_call_output" ->
           << Message("user", << Block("tool_result", item.call, item.text) >>) >>
      [] item.type = "reasoning" /\ item.enc \notin {Nil, <<>>} ->
           << Message("assistant", << ThinkingBlock(item) >>) >>
      [] ServerToolBlocks(item) # <<>> -> << Message("assistant", ServerToolBlocks(item)) >>
      [] OTHER -> <<>>

NativeMessagesToMessage(items) ==
    FlattenSeq([i \in DOMAIN items |-> NativeMessageToMessages(items[i])])

(* Here the call goes out under the id of its item with the string of its   *)
(* arguments as input, an OutputMessage does have a branch, and reasoning   *)
(* must have encrypted content: a nil one is dereferenced.                  *)
Served(item) == item.type = "reasoning" => item.enc # Nil
NativeResponseToResponse(output) ==
    LET blocks(item) ==
            CASE item.type = "message" -> << [Block("text", NoId, item.text) EXCEPT !.out = item.out] >>
              [] item.type = "function_call" -> << [Block("tool_use", item.id, Quoted(item.text)) EXCEPT !.name = item.name] >>
              [] item.type = "reasoning" -> << ThinkingBlock(item) >>
              [] OTHER -> ServerToolBlocks(item)
    IN  FlattenSeq([i \in DOMAIN output |-> blocks(output[i])])

----------------------------------------------------------------------------
(* NativeResponseChunkToResponseChunkConverter: native chunks to events.    *)
(* The converter is the index of the block, moved on by every stop.         *)

Starts(index, b) == << [StartEvent(b) EXCEPT !.index = index] >>
Streams(index, delta, t) == << [DeltaEvent(delta, t) EXCEPT !.index = index] >>
Stops(index) == << [StopEvent EXCEPT !.index = index] >>

BackItemAdded(index, item) ==
    CASE item.type = "function_call" ->
           Starts(index, [Block("tool_use", item.call, Quoted(item.text)) EXCEPT !.name = item.name])
      [] item.type = "web_search_call" ->
           Starts(index, [Block("server_tool_use", item.id, <<>>) EXCEPT !.tool = "web_search"])
      [] item.type = "code_interpreter_call" ->
           Starts(index, [Block("server_tool_use", item.id, <<>>) EXCEPT !.tool = "bash_code_execution"])
      [] OTHER -> <<>>

BackItemDone_OneBlock(index, item) == Step(index + 1, Stops(index))
BackItemDone(index, item) ==
    CASE item.type = "web_search_call" ->
           Step(index + 2,
                Streams(index, "input_json_delta", ObjectWith(item.text)) \o Stops(index)
                \o Starts(index + 1, [Block("web_search_tool_result", item.id, <<>>) EXCEPT !.out = item.out])
                \o Stops(index + 1))
      [] item.type = "code_interpreter_call" ->
           Step(index + 1,
                Starts(index, [Block("bash_code_execution_tool_result", item.id, <<>>) EXCEPT !.out = item.out])
                \o Stops(index))
      [] OTHER -> Step(index + 1, Stops(index))

(* The arguments delta is built from chunk.Arguments, which only the done   *)
(* chunk carries: the deltas go out empty.                                  *)
ConvertBack(index, chunk) ==
    CASE chunk.type = "response.created" -> Step(index, << Event("message_start") >>)
      [] chunk.type = "response.output_item.added" -> Step(index, BackItemAdded(index, chunk.item))
      [] chunk.type = "response.content_part.added" -> Step(index, Starts(index, Block("text", NoId, <<>>)))
      [] chunk.type = "response.output_text.delta" -> Step(index, Streams(index, "text_delta", chunk.text))
      [] chunk.type = "response.output_text.annotation.added" ->
           Step(index, Streams(index, "citations_delta", chunk.text))
      [] chunk.type = "response.function_call_arguments.delta" ->
           Step(index, Streams(index, "input_json_delta", <<>>))
      [] chunk.type = "response.reasoning_summary_part.added" ->
           Step(index, Starts(index, Block("thinking", NoId, <<>>)))
      [] chunk.type = "response.reasoning_summary_text.delta" ->
           Step(index, IF chunk.item.enc # Nil THEN Streams(index, "signature_delta", chunk.item.enc)
                       ELSE Streams(index, "thinking_delta", chunk.text))
      [] chunk.type = "response.code_interpreter_call_code.delta" ->
           Step(index, Streams(index, "input_json_delta", chunk.text))
      [] chunk.type = "response.code_interpreter_call_code.done" -> Step(index + 1, Stops(index))
      [] chunk.type = "response.output_item.done" -> BackItemDone(index, chunk.item)
      [] chunk.type = "response.completed" ->
           Step(index, << [Event("message_delta") EXCEPT !.tokens = anthropicUsage(chunk.usage)],
                          Event("message_stop") >>)
      [] OTHER -> Step(index, <<>>)
=============================================================================
