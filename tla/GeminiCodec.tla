---------------------------- MODULE GeminiCodec ----------------------------
(***************************************************************************)
(* pkg/gateway/providers/gemini/gemini_responses: Gemini's contents and    *)
(* streamed responses to the native form and back. Gemini streams parts,   *)
(* not events: a converter notices that an item has ended by the type of   *)
(* the next part. A part is a record of which each kind uses some fields;  *)
(* a call's part carries its arguments whole, `text` being their JSON.      *)
(* Wire responses are external: [parts, tokens], or NoResponse for the end *)
(* of the stream.                                                          *)
(***************************************************************************)
EXTENDS NativeResponses

Step(conv, out) == [conv |-> conv, out |-> out]

NoPart == [kind |-> "", id |-> NoId, name |-> 0, text |-> <<>>, sig |-> Nil]
Part(kind, text) == [NoPart EXCEPT !.kind = kind, !.text = text]

NoTokens == [prompt |-> 0, cached |-> 0, candidates |-> 0, thoughts |-> 0]
Response(parts, tokens) == [ended |-> FALSE, parts |-> parts, tokens |-> tokens]
NoResponse == [ended |-> TRUE, parts |-> <<>>, tokens |-> NoTokens]

(* ResponseChunkToNativeResponseChunkConverter; outputIndex is never moved. *)
NewConverter == [started |-> FALSE, ended |-> FALSE, block |-> NoPart, active |-> FALSE, id |-> NoId,
                 prev |-> NoPart, acc |-> <<>>, done |-> <<>>, minted |-> 0, usage |-> NoTokens]

(* The cached part is inside the prompt; thoughts are outside candidates.   *)
nativeUsage(t) == [input |-> t.prompt, cached |-> t.cached, output |-> t.candidates + t.thoughts]

(* What a change of item is detected by: the code's two parts have no type  *)
(* of their own, as no part is both.                                        *)
getPartType(part) ==
    IF part.kind \in {"text", "thought", "function_call", "inline_data"} THEN part.kind ELSE ""

----------------------------------------------------------------------------
(* Chunk builders *)

Opening == << Chunk("response.created", 0, NoId, <<>>), Chunk("response.in_progress", 0, NoId, <<>>) >>
Plain(c, type, text) == Chunk(type, 0, c.id, text)
ItemAdded(c, item) == ItemChunk("response.output_item.added", 0, [item EXCEPT !.id = c.id])
ItemDone(c, item) == ItemChunk("response.output_item.done", 0, [item EXCEPT !.id = c.id])

TextAdded(c) == << ItemAdded(c, MessageItem("OfOutputMessage", "assistant", c.id, <<>>, <<>>)),
                   Plain(c, "response.content_part.added", <<>>) >>
CallAdded(c, part) ==
    << ItemAdded(c, [CallItem(c.id, Minted("added", c.minted), part.name, part.text) EXCEPT !.enc = part.sig]) >>
ThoughtAdded(c) == << ItemAdded(c, ReasoningItem(c.id, <<>>, Nil)),
                      Plain(c, "response.reasoning_summary_part.added", <<>>) >>
ImageItem(c, data) == [NoItem EXCEPT !.type = "image_generation_call", !.id = c.id, !.text = data]
ImageAdded(c) == << ItemAdded(c, ImageItem(c, <<>>)),
                    Plain(c, "response.image_generation_call.in_progress", <<>>),
                    Plain(c, "response.image_generation_call.generating", <<>>) >>
CodeWritten(c, code) ==
    << ItemAdded(c, ServerToolItem("code_interpreter_call", c.id, <<>>, <<>>)),
       Plain(c, "response.code_interpreter_call.in_progress", <<>>),
       Plain(c, "response.code_interpreter_call_code.delta", code),
       Plain(c, "response.code_interpreter_call_code.done", code),
       Plain(c, "response.code_interpreter_call.interpreting", <<>>) >>

TextDone(c, item) ==
    << Plain(c, "response.output_text.done", c.acc), Plain(c, "response.content_part.done", c.acc),
       ItemDone(c, item) >>
CallDone(c, item) ==
    << Plain(c, "response.function_call_arguments.done", item.text),
       ItemDone(c, [item EXCEPT !.enc = c.prev.sig]) >>
ThoughtDone(c, item) ==
    << Plain(c, "response.reasoning_summary_text.done", c.acc),
       Plain(c, "response.reasoning_summary_part.done", c.acc), ItemDone(c, item) >>
CodeDone(c) ==
    << Plain(c, "response.code_interpreter_call.completed", c.acc),
       ItemDone(c, ServerToolItem("code_interpreter_call", c.id, c.acc, c.prev.text)) >>

buildResponseCompleted(c) == << CompletedChunk(c.done, nativeUsage(c.usage)) >>

----------------------------------------------------------------------------
(* Completing the current part, by the type of the previous one *)

Stored(c, item) == [c EXCEPT !.done = Append(@, item)]

completeTextPart(c) ==
    LET item == MessageItem("OfOutputMessage", "assistant", c.id, c.acc, <<>>)
    IN  Step(Stored(c, item), TextDone(c, item))

(* A fresh call id, and the name of the part the item was opened by.        *)
completeFunctionCallPart(c) ==
    LET item == CallItem(c.id, Minted("call", c.minted), c.block.name,
                         IF c.acc = <<>> THEN EmptyObject ELSE c.acc)
    IN  Step([Stored(c, item) EXCEPT !.minted = @ + 1], CallDone(c, item))

completeThoughtPart(c) ==
    LET item == ReasoningItem(c.id, c.acc, Nil)
    IN  Step(Stored(c, item), ThoughtDone(c, item))

(* The stored item has the last image, the chunk the first.                 *)
completeInlineImageDataPart(c) ==
    Step(Stored(c, ImageItem(c, c.acc)), << ItemDone(c, ImageItem(c, c.block.text)) >>)

completeCurrentPart(c) ==
    CASE c.prev.kind = "text" -> completeTextPart(c)
      [] c.prev.kind = "thought" -> completeThoughtPart(c)
      [] c.prev.kind = "function_call" -> completeFunctionCallPart(c)
      [] c.prev.kind = "inline_data" -> completeInlineImageDataPart(c)
      [] c.prev.kind = "code_execution_result" -> Step(c, CodeDone(c))
      [] OTHER -> Step(c, <<>>)

----------------------------------------------------------------------------
(* Parts *)

Streamed(c, part, added, delta) ==
    Step([c EXCEPT !.acc = @ \o part.text],
         (IF c.active THEN <<>> ELSE added) \o << Plain(c, delta, part.text) >>)

handleTextPart(c, part) == Streamed(c, part, TextAdded(c), "response.output_text.delta")
handleFunctionCallPart(c, part) ==
    Streamed([c EXCEPT !.minted = IF c.active THEN @ ELSE @ + 1], part,
             CallAdded(c, part), "response.function_call_arguments.delta")
handleThoughtPart(c, part) == Streamed(c, part, ThoughtAdded(c), "response.reasoning_summary_text.delta")
handleInlineImageDataPart(c, part) ==
    [Streamed(c, part, ImageAdded(c), "response.image_generation_call.partial_image")
        EXCEPT !.conv.acc = part.text]
(* Announced again even when an item is open: the id is then that item's.   *)
handleExecutableCodePart(c, part) ==
    Step([c EXCEPT !.acc = part.text], CodeWritten(c, part.text))

Prefix(kind) == CASE kind = "text" -> "msg" [] kind = "function_call" -> "fc"
                  [] kind \in {"thought", "inline_data"} -> "rs" [] OTHER -> "uuid"

(* Ends the previous item when the type changed, opens one when none is     *)
(* open, then handles the part. Empty text is dropped first.                *)
handlePart(c, part) ==
    LET ending == c.prev # NoPart /\ getPartType(c.prev) # getPartType(part)
        ended == IF ending THEN completeCurrentPart(c) ELSE Step(c, <<>>)
        closed == IF ending THEN [ended.conv EXCEPT !.active = FALSE, !.acc = <<>>] ELSE c
        opened == IF closed.active THEN closed
                  ELSE [closed EXCEPT !.block = part, !.id = Minted(Prefix(part.kind), closed.minted),
                                      !.minted = @ + 1]
        handled == CASE part.kind = "text" -> handleTextPart(opened, part)
                     [] part.kind = "thought" -> handleThoughtPart(opened, part)
                     [] part.kind = "function_call" -> handleFunctionCallPart(opened, part)
                     [] part.kind = "inline_data" -> handleInlineImageDataPart(opened, part)
                     [] part.kind = "executable_code" -> handleExecutableCodePart(opened, part)
                     [] OTHER -> Step(opened, <<>>)
    IN  IF part.kind \in {"text", "thought"} /\ part.text = <<>>
        THEN Step(c, <<>>)
        ELSE Step([handled.conv EXCEPT !.active = TRUE, !.prev = part], ended.out \o handled.out)

handleStreamEnd(c) ==
    LET last == completeCurrentPart(c)
    IN  Step([last.conv EXCEPT !.ended = TRUE], last.out \o buildResponseCompleted(last.conv))

(* ResponseChunkToNativeResponseChunk.                                      *)
Convert(c, response) ==
    LET opened == Step([c EXCEPT !.usage = response.tokens, !.started = TRUE],
                       IF c.started THEN <<>> ELSE Opening)
        onPart(s, part) == LET h == handlePart(s.conv, part) IN Step(h.conv, s.out \o h.out)
    IN  CASE c.ended -> Step(c, <<>>)
          [] ~c.ended /\ response.ended -> handleStreamEnd(c)
          [] OTHER -> FoldLeft(onPart, opened, response.parts)

----------------------------------------------------------------------------
(* Whole messages to the native form *)

Content(role, parts) == [role |-> role, parts |-> parts]

ToNativeRole(role) == CASE role = "user" -> "user" [] role = "system" -> "system" [] OTHER -> "assistant"

(* The code part a result at i belongs to: the last one before it.          *)
CodeBefore(parts, i) ==
    LET codes == {j \in 1..(i - 1) : parts[j].kind = "executable_code"}
    IN  IF codes = {} THEN NoPart ELSE parts[Max(codes)]

(* Content.ToNativeMessage: the first call, response or code result decides *)
(* and the rest is dropped; a call comes back without an id.                *)
ToNativeMessage(content) ==
    LET parts == content.parts
        deciding == {i \in DOMAIN parts :
                       \/ parts[i].kind \in {"function_call", "function_response"}
                       \/ parts[i].kind = "code_execution_result" /\ CodeBefore(parts, i) # NoPart}
        part == parts[Min(deciding)]
        texts == SelectSeq(parts, LAMBDA p : p.kind \in {"text", "thought"})
    IN  IF deciding = {}
        THEN MessageItem("OfInputMessage", ToNativeRole(content.role), NoId,
                         FlattenSeq([i \in DOMAIN texts |-> texts[i].text]), <<>>)
        ELSE CASE part.kind = "function_call" -> CallItem(NoId, NoId, part.name, part.text)
               [] part.kind = "function_response" -> CallOutputItem(part.id, part.text)
               [] OTHER -> ServerToolItem("code_interpreter_call", NoId,
                                          CodeBefore(parts, Min(deciding)).text, part.text)

MessagesToNativeMessages(contents) == [i \in DOMAIN contents |-> ToNativeMessage(contents[i])]

(* Response.ToNativeResponse: a thought is a message like any text, a call  *)
(* gets an id of its own, and its thought signature is left behind.         *)
ToNativeResponse(parts) ==
    LET item(i) ==
            LET p == parts[i]
            IN  CASE p.kind \in {"text", "thought"} ->
                       << MessageItem("OfOutputMessage", "assistant", NoId, p.text, <<>>) >>
                  [] p.kind = "function_call" -> << CallItem(Minted("call", i), Minted("call", i), p.name, p.text) >>
                  [] p.kind = "code_execution_result" /\ CodeBefore(parts, i) # NoPart ->
                       << ServerToolItem("code_interpreter_call", NoId, CodeBefore(parts, i).text, p.text) >>
                  [] OTHER -> <<>>
    IN  FlattenSeq([i \in DOMAIN parts |-> item(i)])

----------------------------------------------------------------------------
(* The native form to contents *)

NativeRoleToRole(role) == IF role = "assistant" THEN "model" ELSE "user"

CodeParts(item) == << Part("executable_code", item.text), Part("code_execution_result", item.out) >>

(* prevFunctionCallName: of the last call before item i, whichever it was.  *)
PrevFunctionCallName(items, i) ==
    LET calls == {j \in 1..(i - 1) : items[j].type = "function_call"}
    IN  IF calls = {} THEN 0 ELSE items[Max(calls)].name

(* NativeMessagesToMessages: an OfOutputMessage and a reasoning item have   *)
(* no content, images and code runs no role.                                *)
NativeMessagesToMessages(items) ==
    LET content(i) ==
            LET item == items[i]
            IN  CASE item.type = "message" /\ item.arm \in {"OfEasyInput", "OfInputMessage"} ->
                       << Content(NativeRoleToRole(item.role), << Part("text", item.text) >>) >>
                  [] item.type = "function_call" ->
                       << Content("model", << [Part("function_call", ParsedArguments(item.text))
                                                  EXCEPT !.name = item.name, !.sig = item.enc] >>) >>
                  [] item.type = "function_call_output" ->
                       << Content("user", << [Part("function_response", item.text)
                              EXCEPT !.id = item.call, !.name = PrevFunctionCallName(items, i)] >>) >>
                  [] item.type = "image_generation_call" ->
                       << Content("", << Part("inline_data", item.text) >>) >>
                  [] item.type = "code_interpreter_call" -> << Content("", CodeParts(item)) >>
                  [] OTHER -> <<>>
    IN  FlattenSeq([i \in DOMAIN items |-> content(i)])

(* The string of a call's arguments goes out as its Args.                   *)
NativeResponseToResponse(output) ==
    LET parts(item) ==
            CASE item.type = "message" -> << Part("text", item.text) >>
              [] item.type = "function_call" -> << [Part("function_call", Quoted(item.text)) EXCEPT !.name = item.name] >>
              [] item.type = "code_interpreter_call" -> CodeParts(item)
              [] OTHER -> <<>>
    IN  FlattenSeq([i \in DOMAIN output |-> parts(output[i])])

(* NativeResponseChunkToResponseChunkConverter: the converter says whether  *)
(* response.created came; a call goes out as it was announced.              *)
ConvertBack(created, chunk) ==
    LET item == chunk.item
        parts == CASE chunk.type = "response.output_text.delta" -> << Part("text", chunk.text) >>
                   [] chunk.type = "response.reasoning_summary_text.delta" -> << Part("thought", chunk.text) >>
                   [] chunk.type = "response.output_item.added" /\ item.type = "function_call" ->
                        << [Part("function_call", Quoted(item.text)) EXCEPT !.name = item.name, !.sig = item.enc] >>
                   [] chunk.type = "response.code_interpreter_call_code.done" -> << Part("executable_code", chunk.text) >>
                   [] chunk.type = "response.output_item.done" /\ item.type = "code_interpreter_call" ->
                        << Part("code_execution_result", item.out) >>
                   [] chunk.type = "response.completed" -> << Part("text", <<>>) >>
                   [] OTHER -> <<>>
    IN  Step(created \/ chunk.type = "response.created", IF created THEN parts ELSE <<>>)
=============================================================================
