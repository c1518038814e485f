----------------------------- MODULE ModelCall -----------------------------
(***************************************************************************)
(* A conversation held with models behind the gateway: a provider is       *)
(* called, its answer is a list of blocks that it streams fragment by      *)
(* fragment in its own format, the client converts each event and          *)
(* pkg/agents/llm.go folds the chunks into a response, which joins the     *)
(* history the next provider is asked with. A connection may break after   *)
(* any event, and the history may be written out and read again between    *)
(* two calls. What a provider sends is external: fragment 10k+j is the     *)
(* j-th of block k, 10k+9 the one that ends a call's arguments, 10k+8 a    *)
(* server tool's result, 10k+7 a signature.                                *)
(***************************************************************************)
EXTENDS NativeResponses

A == INSTANCE AnthropicCodec
G == INSTANCE GeminiCodec
B == INSTANCE BedrockCodec
C == INSTANCE ChatCodec

CONSTANTS Providers,        \* those the conversation may use
          Kinds,            \* the kinds of block they may stream
          MaxCalls,         \* model calls of the conversation
          MaxBlocks,        \* blocks of all their answers
          MaxFragments      \* fragments of a block that is not empty

ASSUME BoundsAssumption == /\ Providers \subseteq {"anthropic", "gemini", "bedrock", "chat"}
                           /\ MaxCalls \in Nat /\ MaxBlocks \in Nat /\ MaxFragments \in 1..6

VARIABLES phase, provider, calls, blocks, upstream, wire, conv, chunks, output, broken, history

vars == <<phase, provider, calls, blocks, upstream, wire, conv, chunks, output, broken, history>>

streamVars == <<conv, chunks, output>>

----------------------------------------------------------------------------
(* What a provider streams *)

Streamable == [anthropic |-> {"text", "call", "thought", "redacted", "search", "code", "failedcode"},
               gemini |-> {"text", "call", "thought", "code", "image"},
               bedrock |-> {"text", "bare", "call", "thought"},
               chat |-> {"text", "call", "thought"}]

(* n fragments; Gemini sends a call's arguments and a run's code whole.     *)
NewBlock(kind, k, n) ==
    [kind |-> kind, k |-> k,
     text |-> CASE kind = "call" /\ provider = "gemini" -> << 10 * k + 9 >>
                [] kind = "call" /\ provider # "gemini" /\ n > 0 -> [j \in 1..n |-> 10 * k + IF j = n THEN 9 ELSE j]
                [] OTHER -> [j \in 1..n |-> 10 * k + j]]

CallId(b) == <<"toolu", b.k>>
ServerId(b) == <<"srv", b.k>>
Result(b) == << 10 * b.k + 8 >>
Signature(b) == << 10 * b.k + 7 >>
IsServerTool(b) == b.kind \in {"search", "code", "failedcode"}

(* Anthropic: a block, its deltas, its stop; a server tool is two blocks.   *)
AnthropicUse(b) == IF b.kind = "search" THEN "web_search" ELSE "bash_code_execution"
AnthropicResult(b) ==
    [A!Block(AnthropicUse(b) \o "_tool_result", ServerId(b), <<>>)
        EXCEPT !.out = IF b.kind = "failedcode" THEN <<>> ELSE Result(b),
               !.err = IF b.kind = "failedcode" THEN Result(b) ELSE <<>>, !.ok = b.kind # "failedcode"]
AnthropicBlock(b) ==
    CASE b.kind = "call" -> [A!Block("tool_use", CallId(b), <<>>) EXCEPT !.name = b.k]
      [] b.kind = "thought" -> A!Block("thinking", NoId, <<>>)
      [] b.kind = "redacted" -> [A!Block("redacted_thinking", NoId, <<>>) EXCEPT !.sig = Signature(b)]
      [] IsServerTool(b) -> [A!Block("server_tool_use", ServerId(b), <<>>) EXCEPT !.tool = AnthropicUse(b)]
      [] OTHER -> A!Block("text", NoId, <<>>)
AnthropicDelta(b, t) ==
    << A!DeltaEvent(CASE b.kind = "text" -> "text_delta" [] b.kind = "thought" -> "thinking_delta"
                      [] OTHER -> "input_json_delta", t) >>
AnthropicClose(b) ==
    CASE b.kind = "thought" -> << A!DeltaEvent("signature_delta", Signature(b)), A!StopEvent >>
      [] IsServerTool(b) -> << A!StopEvent, A!StartEvent(AnthropicResult(b)), A!StopEvent >>
      [] OTHER -> << A!StopEvent >>
AnthropicTokens == [uncached |-> 4, written |-> 2, read |-> 1, output |-> 1]
AnthropicFinish(echo) ==
    << [A!Event("message_delta") EXCEPT
          !.tokens = IF echo THEN [AnthropicTokens EXCEPT !.output = 5] ELSE [A!NoTokens EXCEPT !.output = 5]],
       A!Event("message_stop") >>

(* Gemini: parts of one kind follow each other; a call is one part.         *)
GeminiTokens == [prompt |-> 7, cached |-> 1, candidates |-> 3, thoughts |-> 2]
GeminiSend(parts) == << G!Response(parts, GeminiTokens) >>
GeminiOpen(b) ==
    CASE b.kind = "call" -> GeminiSend(<< [G!Part("function_call", b.text)
                                              EXCEPT !.name = b.k, !.sig = Signature(b)] >>)
      [] b.kind = "image" -> GeminiSend(<< G!Part("inline_data", Result(b)) >>)
      [] b.kind = "code" -> GeminiSend(<< G!Part("executable_code", b.text) >>)
      [] OTHER -> <<>>
GeminiClose(b) == IF b.kind = "code" THEN GeminiSend(<< G!Part("code_execution_result", Result(b)) >>) ELSE <<>>

(* Bedrock: a block, its deltas, its stop; a bare text has no start.        *)
BedrockTokens == [uncached |-> 4, read |-> 1, written |-> 2, output |-> 5]
BedrockOpen(b) ==
    CASE b.kind = "bare" -> <<>>
      [] b.kind = "call" -> << B!StartEvent([B!Block("toolUse", CallId(b), <<>>) EXCEPT !.name = b.k]) >>
      [] b.kind = "thought" -> << B!StartEvent(B!Block("reasoning", NoId, <<>>)) >>
      [] OTHER -> << B!StartEvent(B!Block("text", NoId, <<>>)) >>
BedrockKind(b) == CASE b.kind = "call" -> "toolUse" [] b.kind = "thought" -> "reasoning" [] OTHER -> "text"
BedrockClose(b) ==
    CASE b.kind = "thought" -> << B!DeltaEvent("reasoning", <<>>, Signature(b)), B!StopEvent >>
      [] OTHER -> << B!StopEvent >>

(* Chat completions: every fragment is a frame; a call's carry its index.   *)
ChatTokens == [prompt |-> 7, cached |-> 1, output |-> 5]
CallsBefore == Len(SelectSeq(upstream, LAMBDA u : u.kind = "call"))
ChatCall(b, first, t) ==
    << [C!Frame EXCEPT !.calls = << [index |-> CallsBefore, id |-> IF first THEN CallId(b) ELSE NoId,
                                     name |-> IF first THEN b.k ELSE 0, args |-> t] >>] >>
ChatSend(b, t) ==
    CASE b.kind = "text" -> << [C!Frame EXCEPT !.content = t] >>
      [] b.kind = "thought" -> << [C!Frame EXCEPT !.reasoning = t] >>
      [] OTHER -> ChatCall(b, FALSE, t)
DONE == [C!Frame EXCEPT !.tokens = [prompt |-> -1, cached |-> 0, output |-> 0]]

Greeting(p) == CASE p = "anthropic" -> << [A!Event("message_start") EXCEPT !.tokens = AnthropicTokens] >>
                 [] p = "gemini" -> <<>>
                 [] p = "bedrock" -> << B!Event("messageStart") >>
                 [] OTHER -> << C!Frame >>
Announce(b) == CASE provider = "anthropic" -> << A!StartEvent(AnthropicBlock(b)) >>
                 [] provider = "gemini" -> GeminiOpen(b)
                 [] provider = "bedrock" -> BedrockOpen(b)
                 [] OTHER -> IF b.kind = "call" THEN ChatCall(b, TRUE, <<>>) ELSE <<>>
Send(b, t) == CASE provider = "anthropic" -> AnthropicDelta(b, t)
                [] provider = "gemini" -> GeminiSend(<< G!Part(b.kind, t) >>)
                [] provider = "bedrock" -> << B!DeltaEvent(BedrockKind(b), t, <<>>) >>
                [] OTHER -> ChatSend(b, t)
Sends(b) == IF provider = "gemini" /\ b.kind \in {"call", "code"} THEN <<>>
            ELSE FlattenSeq([j \in DOMAIN b.text |-> Send(b, << b.text[j] >>)])
Conclude(b) == CASE provider = "anthropic" -> AnthropicClose(b)
                 [] provider = "gemini" -> GeminiClose(b)
                 [] provider = "bedrock" -> BedrockClose(b)
                 [] OTHER -> <<>>
Farewell(echo) == CASE provider = "anthropic" -> AnthropicFinish(echo)
                    [] provider = "gemini" -> << G!NoResponse >>
                    [] provider = "bedrock" -> << B!Event("messageStop"), [B!Event("metadata") EXCEPT !.tokens = BedrockTokens] >>
                    [] OTHER -> << [C!Frame EXCEPT !.finish = TRUE], [C!Frame EXCEPT !.tokens = ChatTokens], DONE >>

----------------------------------------------------------------------------
(* The clients: an event's chunks, and what a broken connection leaves.     *)

NewConverter(p, minted) ==
    CASE p = "anthropic" -> [A!NewConverter EXCEPT !.minted = minted]
      [] p = "gemini" -> [G!NewConverter EXCEPT !.minted = minted]
      [] p = "bedrock" -> [B!NewConverter EXCEPT !.minted = minted]
      [] OTHER -> [C!NewConverter EXCEPT !.minted = minted]

Converted(event) ==
    CASE provider = "anthropic" -> A!Convert(conv, event)
      [] provider = "gemini" -> G!Convert(conv, event)
      [] provider = "bedrock" -> B!Convert(conv, event)
      [] OTHER -> IF event = DONE THEN C!Finish(conv) ELSE C!Convert(conv, event)

Abandoned_Closed ==
    CASE provider = "bedrock" -> B!Convert(conv, B!StopEvent)
      [] OTHER -> A!Step(conv, <<>>)

(* Anthropic's and Bedrock's goroutines return on a read error; the other   *)
(* two end the stream as they do at its regular end.                        *)
Abandoned ==
    CASE provider = "gemini" -> G!Convert(conv, G!NoResponse)
      [] provider = "chat" -> C!Finish(conv)
      [] OTHER -> A!Step(conv, <<>>)

(* The chunks reach the accumulator in the order the client sends them.     *)
Emit(step) ==
    /\ conv' = step.conv
    /\ chunks' = chunks \o step.out
    /\ output' = ReadStream(output, step.out)

----------------------------------------------------------------------------
(* One conversation *)

Question == MessageItem("OfInputMessage", "user", NoId, <<1>>, <<>>)

Init ==
    /\ phase = "idle" /\ provider = "" /\ calls = 0 /\ blocks = 0 /\ broken = FALSE
    /\ upstream = <<>> /\ wire = <<>> /\ conv = <<>> /\ chunks = <<>> /\ output = <<>>
    /\ history = << Question >>

(* The user speaks again unless the model's calls were just answered.       *)
Asked(items) ==
    IF Last(items).type = "function_call_output" \/ Last(items).role = "user" THEN items ELSE Append(items, Question)

Call(p, items) ==
    /\ phase = "idle" /\ calls < MaxCalls
    /\ phase' = "streaming" /\ provider' = p /\ calls' = calls + 1
    /\ upstream' = <<>> /\ broken' = FALSE
    /\ wire' = Greeting(p) /\ conv' = NewConverter(p, 10 * calls) /\ chunks' = <<>> /\ output' = <<>>
    /\ history' = items
    /\ UNCHANGED blocks

Begin(p) == Call(p, Asked(history))

(* Two blocks of text in a row are one where nothing ends a block. So are,  *)
(* to Gemini's converter, two calls and two code runs: the README tells.    *)
Separable(kind) ==
    (\E i \in DOMAIN upstream : i = Len(upstream) /\ upstream[i].kind = kind)
        => provider \in {"anthropic", "bedrock"} \/ (provider = "chat" /\ kind = "call")

(* A block that something announces or ends may be empty.                   *)
Fragments(kind) ==
    CASE provider = "gemini" /\ kind = "code" -> {1}
      [] provider = "gemini" /\ kind \in {"call", "image"} -> {0}
      [] kind = "bare" \/ (provider \in {"gemini", "chat"} /\ kind \in {"text", "thought"}) -> {MaxFragments}
      [] kind = "redacted" -> {0}
      [] OTHER -> {0, MaxFragments}

(* The model produces its next block: it is announced, streamed and ended.  *)
Produce(kind, n) ==
    /\ phase = "streaming" /\ wire = <<>> /\ blocks < MaxBlocks
    /\ kind \in Streamable[provider] /\ Separable(kind) /\ n \in Fragments(kind)
    /\ LET b == NewBlock(kind, blocks + 1, n)
       IN  /\ upstream' = Append(upstream, b)
           /\ wire' = Announce(b) \o Sends(b) \o Conclude(b)
    /\ blocks' = blocks + 1
    /\ UNCHANGED <<phase, provider, calls, broken, history, streamVars>>

EndStream ==
    /\ phase = "streaming" /\ wire = <<>> /\ upstream # <<>>
    /\ phase' = "ending"
    /\ \E echo \in {e \in BOOLEAN : provider = "anthropic" \/ e} : wire' = Farewell(echo)
    /\ UNCHANGED <<provider, calls, blocks, upstream, broken, history, streamVars>>

Deliver ==
    /\ wire # <<>>
    /\ Emit(Converted(Head(wire)))
    /\ wire' = Tail(wire)
    /\ UNCHANGED <<phase, provider, calls, blocks, upstream, broken, history>>

(* The connection breaks: what was sent and not read is lost.               *)
Break ==
    /\ phase \in {"streaming", "ending"} /\ ~broken /\ (phase = "ending" => wire # <<>>)
    /\ Emit(Abandoned)
    /\ phase' = "ending" /\ wire' = <<>> /\ broken' = TRUE
    /\ UNCHANGED <<provider, calls, blocks, upstream, history>>

CallsOf(items) == SelectSeq(items, LAMBDA item : item.type = "function_call")

Answers(items) == [i \in DOMAIN items |-> CallOutputItem(items[i].call, << items[i].name >>)]

(* The agent loop appends the answer, then the result of each of its calls. *)
Reply ==
    /\ phase = "ending" /\ wire = <<>>
    /\ history' = history \o output \o Answers(CallsOf(output))
    /\ phase' = "idle"
    /\ UNCHANGED <<provider, calls, blocks, upstream, wire, broken, streamVars>>

(* The history is read back from the store, by another process or run.      *)
Reload ==
    /\ phase = "idle" /\ ReadBackAll(history) # history
    /\ history' = ReadBackAll(history)
    /\ UNCHANGED <<phase, provider, calls, blocks, upstream, wire, broken, streamVars>>

Next ==
    \/ \E p \in Providers : Begin(p)
    \/ \E kind \in Kinds, n \in 0..MaxFragments : Produce(kind, n)
    \/ EndStream
    \/ Deliver
    \/ Break
    \/ Reply
    \/ Reload

Spec == Init /\ [][Next]_vars

----------------------------------------------------------------------------
(* Properties: what a call's stream is worth *)

(* Reading the chunks of a stream: which item is open and what streamed     *)
(* into it; `ok` as long as each chunk speaks of the open item.             *)
Reading == [open |-> NoId, acc |-> <<>>, over |-> FALSE, ok |-> TRUE]
Read(r, chunk) ==
    LET mine == chunk.id = r.open /\ r.open # NoId
        whole == chunk.text = r.acc \/ (r.acc = <<>> /\ chunk.text = EmptyObject)
        silent == chunk.item.type \in {"web_search_call", "image_generation_call"}
    IN  CASE r.over -> [r EXCEPT !.ok = FALSE]
          [] ~r.over /\ chunk.type = "response.completed" -> 
               [r EXCEPT !.over = TRUE, !.ok = @ /\ (r.open = NoId \/ (broken /\ provider = "gemini"))]
          [] ~r.over /\ chunk.type \in {"response.created", "response.in_progress"} -> [r EXCEPT !.ok = @ /\ r.open = NoId]
          [] ~r.over /\ chunk.type = "response.output_item.added" ->
               [r EXCEPT !.ok = @ /\ r.open = NoId, !.open = chunk.id, !.acc = <<>>]
          [] ~r.over /\ chunk.type \in Deltas -> [r EXCEPT !.ok = @ /\ mine, !.acc = @ \o chunk.text]
          [] ~r.over /\ chunk.type \in TextDones -> [r EXCEPT !.ok = @ /\ mine /\ whole]
          [] ~r.over /\ chunk.type = "response.output_item.done" ->
               [r EXCEPT !.ok = @ /\ mine /\ (silent \/ chunk.item.text = r.acc
                                              \/ (r.acc = <<>> /\ chunk.item.text = EmptyObject)),
                         !.open = NoId]
          [] OTHER -> [r EXCEPT !.ok = @ /\ mine]

(* Whatever a provider streams and wherever it breaks off, items follow     *)
(* one another: each is announced, every delta and done chunk carries the   *)
(* id of the one that is open, the done text is the concatenation of the    *)
(* deltas, and nothing follows response.completed, which leaves no item     *)
(* open (but for a code run Gemini broke off before its result); and each   *)
(* is of a type a reader of the stream can decode.                          *)
OneItemOpen ==
    /\ FoldLeft(Read, Reading, chunks).ok
    /\ \A i \in DOMAIN chunks : chunks[i].type \in ChunkTypes /\ chunks[i].item.type \in ItemTypes

(* The texts of the blocks, or parts, of some kinds.                        *)
Texts(kinds, list) == LET some == SelectSeq(list, LAMBDA b : b.kind \in kinds)
                      IN  FlattenSeq([i \in DOMAIN some |-> some[i].text])

(* What a block should become, and which of them the accumulator keeps.     *)
Item(b) ==
    CASE b.kind \in {"text", "bare"} -> <<"message", b.text, 0>>
      [] b.kind = "thought" -> <<"reasoning", b.text, IF provider \in {"anthropic", "bedrock"} THEN Signature(b) ELSE Nil>>
      [] b.kind = "call" -> <<"function_call", IF b.text = <<>> /\ provider # "bedrock" THEN EmptyObject ELSE b.text, b.k>>
      [] b.kind = "search" -> <<"web_search_call", FieldOf(b.text), Result(b)>>
      [] b.kind = "image" -> <<"image_generation_call", Result(b), 0>>
      [] OTHER -> <<"code_interpreter_call", b.text, Result(b)>>
Essence(item) ==
    CASE item.type = "function_call" -> <<item.type, item.text, item.name>>
      [] item.type = "reasoning" -> <<item.type, item.text, item.enc>>
      [] item.type \in {"web_search_call", "code_interpreter_call"} -> <<item.type, item.text, item.out>>
      [] OTHER -> <<item.type, item.text, 0>>
Essences(items) == [i \in DOMAIN items |-> Essence(items[i])]

Visible == SelectSeq(upstream, LAMBDA b : b.kind # "redacted")
Kept == SelectSeq(Visible, LAMBDA b : ~IsServerTool(b))
Items(bs) == [i \in DOMAIN bs |-> Item(bs[i])]

DoneItems == LET done == SelectSeq(chunks, LAMBDA c : c.type = "response.output_item.done")
             IN  [i \in DOMAIN done |-> done[i].item]

Over == phase = "ending" /\ wire = <<>> /\ ~broken

(* When a stream has run to its end, the items it announced as done are the *)
(* model's blocks in order, with the text, arguments, signature and result  *)
(* of each (a search with the query its input holds, a code run with its    *)
(* input); the response the run goes on with has all but the server's own  *)
(* tools; every call keeps the id its result must carry; and one completed  *)
(* chunk counts the prompt once, its cached part in it, and the output at   *)
(* its end, whether or not Anthropic's last delta repeats the prompt.       *)
ItemsMatchBlocks ==
    Over => /\ Essences(DoneItems) = Items(Visible)
            /\ Essences(output) = Items(Kept)
            /\ provider # "gemini" =>
                 \A i \in DOMAIN output : output[i].type = "function_call" => output[i].call = <<"toolu", output[i].name>>
            /\ LET completed == SelectSeq(chunks, LAMBDA c : c.type = "response.completed")
               IN  /\ Len(completed) = 1
                   /\ completed[1].usage = [input |-> 7, cached |-> 1, output |-> 5]

(* A call the run will execute is one the model finished, with all of its   *)
(* arguments, even if the connection broke on the way - except that chat    *)
(* completions close the open item when the stream breaks.                  *)
CallsWhole ==
    provider # "chat" \/ ~broken =>
        \A i \in DOMAIN output :
            output[i].type = "function_call" =>
                \E j \in DOMAIN upstream : upstream[j].kind = "call" /\ Essence(output[i]) = Item(upstream[j])

(* The same answer, had it not been streamed.                               *)
AnthropicWhole(b) ==
    IF IsServerTool(b)
    THEN << [AnthropicBlock(b) EXCEPT !.text = FieldOf(b.text)], AnthropicResult(b) >>
    ELSE << [AnthropicBlock(b) EXCEPT !.text = b.text, !.sig = IF b.kind = "thought" THEN Signature(b) ELSE @] >>
BedrockWhole(b) ==
    << [B!Block(BedrockKind(b), IF b.kind = "call" THEN CallId(b) ELSE NoId, b.text)
           EXCEPT !.name = IF b.kind = "call" THEN b.k ELSE 0,
                  !.sig = IF b.kind = "thought" THEN Signature(b) ELSE <<>>] >>
GeminiWhole(b) ==
    CASE b.kind = "call" -> << [G!Part("function_call", b.text) EXCEPT !.name = b.k] >>
      [] b.kind = "code" -> << G!Part("executable_code", b.text), G!Part("code_execution_result", Result(b)) >>
      [] OTHER -> << G!Part(b.kind, b.text) >>
Whole_(f(_)) == FlattenSeq([i \in DOMAIN upstream |-> f(upstream[i])])
WholeResponse ==
    CASE provider = "anthropic" -> A!ToNativeResponse(Whole_(AnthropicWhole))
      [] provider = "gemini" -> G!ToNativeResponse(Whole_(GeminiWhole))
      [] OTHER -> B!ToNativeResponse(Whole_(BedrockWhole))

(* Parsed and written again, arguments that are no object are "{}".         *)
Normal(essences) ==
    [i \in DOMAIN essences |->
        IF essences[i][1] = "function_call" THEN [essences[i] EXCEPT ![2] = ParsedArguments(@)] ELSE essences[i]]

ChatWhole ==
    LET called == SelectSeq(upstream, LAMBDA b : b.kind = "call")
    IN  [C!NoMessage EXCEPT
            !.reasoning = Texts({"thought"}, upstream), !.content = Texts({"text"}, upstream),
            !.calls = [i \in DOMAIN called |-> [C!NoCall EXCEPT !.id = CallId(called[i]), !.name = called[i].k,
                                                               !.args = called[i].text]]]
OfType(type, items) == LET some == SelectSeq(items, LAMBDA item : item.type = type)
                       IN  FlattenSeq([i \in DOMAIN some |-> some[i].text])

(* The code of a run, where the stream has the JSON of the tool's input.    *)
CommandsOf(essences) ==
    [i \in DOMAIN essences |->
        IF essences[i][1] = "code_interpreter_call" THEN [essences[i] EXCEPT ![2] = FieldOf(@)] ELSE essences[i]]

(* Asked for the same answer without streaming, the converters give the     *)
(* items the stream's done chunks did - but that Anthropic's stream gives   *)
(* as the code of a run the JSON whose command the whole answer gives; but  *)
(* for redacted thinking and failed code runs, which Anthropic's stream     *)
(* loses or swaps, and for thoughts and images, which a whole Gemini        *)
(* response makes messages of or drops. A chat completion has one text and  *)
(* one reasoning: the same ones.                                            *)
StreamedApart == IF provider = "gemini" THEN {"thought", "image"} ELSE {"redacted", "failedcode"}
StreamAgreesWithResponse ==
    /\ Over /\ provider # "chat" /\ (\A i \in DOMAIN upstream : upstream[i].kind \notin StreamedApart)
       => LET streamed == Essences(DoneItems)
          IN  Normal(IF provider = "anthropic" THEN CommandsOf(streamed) ELSE streamed)
                  = Normal(Essences(WholeResponse))
    /\ Over /\ provider = "chat"
       => LET whole == C!messageToNativeOutput(ChatWhole)
          IN  /\ \A type \in {"message", "reasoning"} : OfType(type, DoneItems) = OfType(type, whole)
              /\ Essences(CallsOf(DoneItems)) = Essences(CallsOf(whole))

----------------------------------------------------------------------------
(* Properties: what the next provider is asked *)

(* A prompt, as the calls, results and other content it carries in order.   *)
AnthropicMark(msg, b) == CASE b.kind = "tool_use" -> <<"call", b.id>> [] b.kind = "tool_result" -> <<"result", b.id>>
                           [] OTHER -> <<msg.role, b.text>>
GeminiMark(content, p) == CASE p.kind = "function_call" -> <<"call", p.name>>
                            [] p.kind = "function_response" -> <<"result", p.name>>
                            [] OTHER -> <<IF content.role = "user" THEN "user" ELSE "assistant", p.text>>
BedrockMark(msg, b) == CASE b.kind = "toolUse" -> <<"call", b.id>> [] b.kind = "toolResult" -> <<"result", b.id>>
                         [] OTHER -> <<msg.role, b.text>>
ChatMarks(msg) == CASE msg.calls # <<>> -> << <<"assistant", <<>>>> >> \o [i \in DOMAIN msg.calls |-> <<"call", msg.calls[i].id>>]
                    [] msg.role = "tool" -> << <<"result", msg.answers>> >>
                    [] OTHER -> << <<msg.role, msg.content>> >>

Marks(msgs, marks(_)) == FlattenSeq([i \in DOMAIN msgs |-> marks(msgs[i])])
Prompt(p, items) ==
    LET anthropic(msg) == [j \in DOMAIN msg.content |-> AnthropicMark(msg, msg.content[j])]
        gemini(content) == [j \in DOMAIN content.parts |-> GeminiMark(content, content.parts[j])]
        bedrock(msg) == [j \in DOMAIN msg.content |-> BedrockMark(msg, msg.content[j])]
    IN  CASE p = "anthropic" -> Marks(A!NativeMessagesToMessage(items), anthropic)
          [] p = "gemini" -> Marks(G!NativeMessagesToMessages(items), gemini)
          [] p = "bedrock" -> Marks(B!injectCachePoints(B!nativeInputToConverseMessages(items)), bedrock)
          [] OTHER -> Marks(C!NativeRequestToChatRequest(items), ChatMarks)

OutputOf(items, i) == CHOOSE j \in DOMAIN items : items[j].type = "function_call_output" /\ items[j].call = items[i].call

(* What Gemini and chat completions cannot say: Gemini's results go by the  *)
(* name of the last call, and a text between two calls parts them.          *)
Sayable(p, items) ==
    LET between(type) == \E i, k \in DOMAIN items : /\ items[i].type = "function_call" /\ items[k].type = type
                                                    /\ i < k /\ k < OutputOf(items, i)
    IN  CASE p = "gemini" -> ~between("function_call")
          [] p = "chat" -> ~between("message")
          [] OTHER -> TRUE

Answered(p, marks) ==
    /\ \A i \in DOMAIN marks : marks[i][1] = "call" =>
           \E j \in DOMAIN marks : /\ i < j /\ marks[j][1] = "result" /\ marks[j][2] = marks[i][2]
                                   /\ \A k \in (i + 1)..(j - 1) :
                                          marks[k][1] \in {"call", "result"} \/ (marks[k][1] = "assistant" /\ p # "chat")
    /\ \A j \in DOMAIN marks : marks[j][1] = "result" =>
           \E i \in DOMAIN marks : i < j /\ marks[i][1] = "call" /\ marks[i][2] = marks[j][2]

(* Whichever provider answered so far, whatever broke, and whether or not   *)
(* the history was read back, the next provider - any of them - is sent     *)
(* every call of the history with its own result behind it, and no user     *)
(* message in between: what their APIs refuse otherwise. Bedrock and chat   *)
(* completions are sent the same prompt before and after the history went   *)
(* through the store.                                                       *)
PromptPaired ==
    phase = "idle" =>
        /\ \A p \in Providers : Sayable(p, history) =>
               /\ Answered(p, Prompt(p, history))
               /\ Len(SelectSeq(Prompt(p, history), LAMBDA m : m[1] = "call")) = Len(CallsOf(history))
        /\ \A p \in Providers \cap {"bedrock", "chat"} : Prompt(p, ReadBackAll(history)) = Prompt(p, history)

ReencodedParts == FoldLeft(LAMBDA s, chunk : LET back == G!ConvertBack(s.conv, chunk) IN G!Step(back.conv, s.out \o back.out),
                           G!Step(FALSE, <<>>), chunks).out
Names(list) == [i \in DOMAIN list |-> list[i].name]
Reencoded == FoldLeft(LAMBDA s, chunk : LET back == A!ConvertBack(s.conv, chunk) IN A!Step(back.conv, s.out \o back.out),
                      A!Step(0, <<>>), chunks).out
Rebuild(r, ev) ==
    LET mine == r.open /\ ev.index = Len(r.blocks) - 1
    IN  CASE ev.type = "content_block_start" ->
               [r EXCEPT !.ok = @ /\ ~r.open /\ ev.index = Len(r.blocks), !.open = TRUE,
                         !.blocks = Append(@, <<ev.block.kind, <<>>>>)]
          [] ev.type = "content_block_delta" ->
               [r EXCEPT !.ok = @ /\ mine,
                         !.blocks = IF ev.delta \in {"text_delta", "thinking_delta"} /\ mine
                                    THEN [@ EXCEPT ![Len(@)][2] = @ \o ev.text] ELSE @]
          [] ev.type = "content_block_stop" -> [r EXCEPT !.ok = @ /\ mine, !.open = FALSE]
          [] OTHER -> [r EXCEPT !.ok = @ /\ ~r.open]
AnthropicShape(b) ==
    CASE b.kind \in {"text", "bare"} -> << <<"text", b.text>> >>
      [] b.kind = "thought" -> << <<"thinking", b.text>> >>
      [] b.kind = "call" -> << <<"tool_use", <<>>>> >>
      [] OTHER -> << <<"server_tool_use", <<>>>>, <<AnthropicUse(b) \o "_tool_result", <<>>>> >>
StreamCarried ==
    Over /\ (\A i \in DOMAIN upstream : upstream[i].kind # "image") =>
        LET r == FoldLeft(Rebuild, [open |-> FALSE, blocks |-> <<>>, ok |-> TRUE], Reencoded)
        IN  /\ r.ok /\ r.blocks = FlattenSeq([i \in DOMAIN Visible |-> AnthropicShape(Visible[i])])
            /\ Texts({"text"}, ReencodedParts) = Texts({"text", "bare"}, upstream)
            /\ Texts({"thought"}, ReencodedParts) = Texts({"thought"}, upstream)
            /\ Texts({"executable_code"}, ReencodedParts) = Texts({"code", "failedcode"}, upstream)
            /\ Names(SelectSeq(ReencodedParts, LAMBDA part : part.kind = "function_call")) = Names(CallsOf(DoneItems))

(* Names and order of the calls, and everything of the other items.         *)
ButArguments(essences) ==
    [i \in DOMAIN essences |->
        IF essences[i][1] = "function_call" THEN [essences[i] EXCEPT ![2] = <<>>] ELSE essences[i]]
ResponseReturned ==
    Over =>
        LET a == SelectSeq(DoneItems, LAMBDA item : A!Served(item) /\ item.type # "image_generation_call")
            g == SelectSeq(DoneItems, LAMBDA item : item.type \in {"message", "function_call", "code_interpreter_call"})
            anthropic == A!ToNativeResponse(A!NativeResponseToResponse(a))
            gemini == G!ToNativeResponse(G!NativeResponseToResponse(g))
        IN  /\ ButArguments(Essences(anthropic)) = ButArguments(Essences(a))
            /\ \A i \in DOMAIN a : a[i].type = "function_call" => anthropic[i].call = a[i].id
            /\ ButArguments(Essences(gemini)) = ButArguments(Essences(g))

AnthropicSaid(item) ==
    /\ item.type # "image_generation_call" /\ item.arm # "OfOutputMessage"
    /\ item.type = "reasoning" => item.enc \notin {Nil, <<>>}
GeminiSaid(item) ==
    /\ item.type \in {"message", "function_call", "function_call_output", "code_interpreter_call"}
    /\ item.arm # "OfOutputMessage"
HistoryReturned ==
    phase = "idle" =>
        LET a == SelectSeq(history, AnthropicSaid)
            g == SelectSeq(history, GeminiSaid)
            anthropic == A!MessagesToNativeMessages(A!NativeMessagesToMessage(history))
            gemini == G!MessagesToNativeMessages(G!NativeMessagesToMessages(g))
        IN  /\ Normal(Essences(anthropic)) = Normal(Essences(a))
            /\ \A i \in DOMAIN a : anthropic[i].call = a[i].call
            /\ Normal(Essences(gemini)) = Normal(Essences(g))

(* Native chunks served on in Anthropic's format: blocks start, stream and  *)
(* stop one by one under consecutive indices, of the kinds the model sent,  *)
(* with their texts. (A call's arguments are left out of the deltas, and an *)
(* image has no block.) In Gemini's, the parts carry the same texts, thoughts *)
(* and code, and every call. A history sent through these formats and back  *)
(* keeps what the format can carry, in order, arguments included: all but   *)
(* reasoning without a signature and images to Anthropic, with each call    *)
(* and result under its id; texts, calls and code runs to Gemini, which has *)
(* no ids for calls. So does a whole response, but for the arguments of its *)
(* calls, which come back as the JSON literal of a string; to Anthropic a   *)
(* call then has the id of its item, from Gemini a new one.                 *)
FormatsCarry == StreamCarried /\ ResponseReturned /\ HistoryReturned
=============================================================================
