---------------------------- MODULE BedrockCodec ----------------------------
(***************************************************************************)
(* pkg/gateway/providers/bedrock/bedrock_responses: the Converse API's     *)
(* messages and stream events to the native form, and the native form to a *)
(* Converse request. A content block that opens with a tool or a reasoning *)
(* start is announced; a text block's start may be missing from the        *)
(* stream, and then the first delta opens the item. Wire events are        *)
(* external.                                                               *)
(***************************************************************************)
EXTENDS NativeResponses

Step(conv, out) == [conv |-> conv, out |-> out]

NoBlock == [kind |-> "", id |-> NoId, name |-> 0, text |-> <<>>, sig |-> <<>>]
Block(kind, id, text) == [NoBlock EXCEPT !.kind = kind, !.id = id, !.text = text]

NoTokens == [uncached |-> 0, read |-> 0, written |-> 0, output |-> 0]
Event(type) == [type |-> type, block |-> NoBlock, kind |-> "", text |-> <<>>, sig |-> <<>>, tokens |-> NoTokens]
StartEvent(b) == [Event("contentBlockStart") EXCEPT !.block = b]
DeltaEvent(kind, text, sig) ==
    [Event("contentBlockDelta") EXCEPT !.kind = kind, !.text = text, !.sig = sig]
StopEvent == Event("contentBlockStop")

(* ConverseStreamToNativeConverter; `type` is "" between two blocks.        *)
NewConverter == [index |-> 0, type |-> "", tool |-> NoId, name |-> 0, id |-> NoId, started |-> FALSE,
                 done |-> <<>>, acc |-> <<>>, args |-> <<>>, sig |-> <<>>, usage |-> NoTokens, minted |-> 0]

nativeUsage(t) == [input |-> t.uncached + t.read + t.written, cached |-> t.read, output |-> t.output]

----------------------------------------------------------------------------
(* Chunk builders *)

Opening == << Chunk("response.created", 0, NoId, <<>>), Chunk("response.in_progress", 0, NoId, <<>>) >>
Plain(c, type, text) == Chunk(type, c.index, c.id, text)
ItemAdded(c, item) == ItemChunk("response.output_item.added", c.index, item)
ItemDone(c, item) == ItemChunk("response.output_item.done", c.index, item)

MessageAdded(c) == << ItemAdded(c, MessageItem("OfOutputMessage", "assistant", c.id, <<>>, <<>>)),
                      Plain(c, "response.content_part.added", <<>>) >>
CallAdded(c) == << ItemAdded(c, CallItem(c.id, c.tool, c.name, Nil)) >>
ReasoningAdded(c) == << ItemAdded(c, ReasoningItem(c.id, <<>>, <<>>)),
                        Plain(c, "response.reasoning_summary_part.added", <<>>) >>
SignatureDelta(c, sig) ==
    << [Plain(c, "response.reasoning_summary_text.delta", <<>>) EXCEPT !.item = ReasoningItem(c.id, <<>>, sig)] >>

MessageDone(c, item) == << Plain(c, "response.output_text.done", c.acc),
                           Plain(c, "response.content_part.done", c.acc), ItemDone(c, item) >>
CallDone(c, item) == << Plain(c, "response.function_call_arguments.done", c.args), ItemDone(c, item) >>
ReasoningDone(c, item) == << Plain(c, "response.reasoning_summary_text.done", c.acc),
                             Plain(c, "response.reasoning_summary_part.done", c.acc), ItemDone(c, item) >>

buildResponseCompleted(c) == << CompletedChunk(c.done, nativeUsage(c.usage)) >>

----------------------------------------------------------------------------
(* Stream handlers *)

Prefix(type) == CASE type = "text" -> "msg" [] type = "toolUse" -> "fc" [] OTHER -> "rs"
Added(c) == CASE c.type = "text" -> MessageAdded(c) [] c.type = "toolUse" -> CallAdded(c) [] OTHER -> ReasoningAdded(c)

handleContentBlockStart(c, b) ==
    LET type == IF b.kind \in {"toolUse", "reasoning"} THEN b.kind ELSE "text"
        opened == [c EXCEPT !.acc = <<>>, !.args = <<>>, !.sig = <<>>, !.started = TRUE, !.type = type,
                            !.id = Minted(Prefix(type), c.minted), !.minted = @ + 1,
                            !.tool = IF type = "toolUse" THEN b.id ELSE @,
                            !.name = IF type = "toolUse" THEN b.name ELSE @]
    IN  Step(opened, Added(opened))

(* ensureTextBlockStarted, ensureReasoningBlockStarted and                  *)
(* ensureToolUseBlockStarted: the item is opened if nothing opened it.      *)
EnsureStarted(c, type) ==
    LET opened == [c EXCEPT !.started = TRUE, !.type = type,
                            !.id = IF @ = NoId THEN Minted(Prefix(type), c.minted) ELSE @,
                            !.minted = IF c.id = NoId THEN @ + 1 ELSE @]
    IN  IF c.started THEN Step(c, <<>>) ELSE Step(opened, Added(opened))

handleContentBlockDelta(c, ev) ==
    LET opened == EnsureStarted(c, ev.kind)
        o == opened.conv
    IN  CASE ev.kind = "text" ->
               Step([o EXCEPT !.acc = @ \o ev.text],
                    opened.out \o << Plain(o, "response.output_text.delta", ev.text) >>)
          [] ev.kind = "toolUse" ->
               Step([o EXCEPT !.args = @ \o ev.text],
                    opened.out \o << Plain(o, "response.function_call_arguments.delta", ev.text) >>)
          [] ev.kind = "reasoning" ->
               Step([o EXCEPT !.acc = @ \o ev.text, !.sig = @ \o ev.sig],
                    opened.out
                    \o (IF ev.text = <<>> THEN <<>>
                        ELSE << Plain(o, "response.reasoning_summary_text.delta", ev.text) >>)
                    \o (IF ev.sig = <<>> THEN <<>> ELSE SignatureDelta(o, ev.sig)))
          [] OTHER -> Step(c, <<>>)

(* What a block nothing opened is taken for. Arguments are left over from   *)
(* an earlier call: only a start resets them.                               *)
Inferred(c) ==
    CASE c.type # "" -> c.type
      [] c.type = "" /\ c.args # <<>> -> "toolUse"
      [] c.type = "" /\ c.args = <<>> /\ c.sig # <<>> -> "reasoning"
      [] OTHER -> "text"

CompletedItem(c) ==
    CASE c.type = "text" -> MessageItem("OfOutputMessage", "assistant", c.id, c.acc, <<>>)
      [] c.type = "toolUse" -> CallItem(c.id, c.tool, c.name, c.args)
      [] OTHER -> ReasoningItem(c.id, c.acc, c.sig)

handleContentBlockStop(c) ==
    LET opened == EnsureStarted([c EXCEPT !.type = Inferred(c)], Inferred(c))
        o == opened.conv
        item == CompletedItem(o)
        done == CASE o.type = "text" -> MessageDone(o, item)
                  [] o.type = "toolUse" -> CallDone(o, item)
                  [] OTHER -> ReasoningDone(o, item)
    IN  Step([o EXCEPT !.done = Append(@, item), !.index = @ + 1, !.started = FALSE, !.type = "",
                       !.id = NoId, !.acc = <<>>, !.sig = <<>>],
             opened.out \o done)

(* ConvertEvent. response.completed waits for the metadata event.           *)
Convert(c, ev) ==
    CASE ev.type = "messageStart" -> Step(c, Opening)
      [] ev.type = "contentBlockStart" -> handleContentBlockStart(c, ev.block)
      [] ev.type = "contentBlockDelta" -> handleContentBlockDelta(c, ev)
      [] ev.type = "contentBlockStop" -> handleContentBlockStop(c)
      [] ev.type = "metadata" ->
           Step([c EXCEPT !.usage = ev.tokens], buildResponseCompleted([c EXCEPT !.usage = ev.tokens]))
      [] OTHER -> Step(c, <<>>)

----------------------------------------------------------------------------
(* Whole responses to the native form *)

ToNativeResponse_CallsOnly(blocks) ==
    FlattenSeq([i \in DOMAIN blocks |->
        IF blocks[i].kind = "toolUse" THEN << CallItem(NoId, blocks[i].id, blocks[i].name, blocks[i].text) >> ELSE <<>>])

(* ConverseResponse.ToNativeResponse.                                       *)
ToNativeResponse(blocks) ==
    LET item(b) ==
            CASE b.kind = "text" -> << MessageItem("OfOutputMessage", "assistant", NoId, b.text, <<>>) >>
              [] b.kind = "toolUse" -> << CallItem(NoId, b.id, b.name, b.text) >>
              [] b.kind = "reasoning" -> << ReasoningItem(NoId, b.text, IF b.sig = <<>> THEN Nil ELSE b.sig) >>
              [] b.kind = "redacted" -> << ReasoningItem(NoId, Nil, b.sig) >>
              [] OTHER -> <<>>
    IN  FlattenSeq([i \in DOMAIN blocks |-> item(blocks[i])])

----------------------------------------------------------------------------
(* The native form to Converse messages *)

Message(role, content) == [role |-> role, content |-> content]

nativeRoleToConverseRole(role) == IF role = "assistant" THEN "assistant" ELSE "user"

convertMessage(item) ==
    << Message(IF item.arm = "OfOutputMessage" THEN "assistant" ELSE nativeRoleToConverseRole(item.role),
               << Block("text", NoId, item.text) >>) >>

convertFunctionCallToAssistant(item) ==
    << Message("assistant", << [Block("toolUse", item.call, ParsedArguments(item.text)) EXCEPT !.name = item.name] >>) >>

convertFunctionCallOutputToUser(item) == << Message("user", << Block("toolResult", item.call, item.text) >>) >>

(* Sent with its signature when there is one, as bare text otherwise.       *)
convertReasoningToAssistant(item) ==
    LET summary == IF item.text = Nil THEN <<>> ELSE item.text
        signed == item.enc \notin {Nil, <<>>}
    IN  IF ~signed /\ item.text = Nil THEN <<>>
        ELSE << Message("assistant", << [Block("reasoning", NoId, summary)
                                            EXCEPT !.sig = IF signed THEN item.enc ELSE <<>>] >>) >>

(* Searches, images and code runs have no branch.                           *)
Converted(item) ==
    CASE item.type = "message" -> convertMessage(item)
      [] item.type = "function_call" -> convertFunctionCallToAssistant(item)
      [] item.type = "function_call_output" -> convertFunctionCallOutputToUser(item)
      [] item.type = "reasoning" -> convertReasoningToAssistant(item)
      [] OTHER -> <<>>

mergeConsecutiveMessages(msgs) ==
    LET join(merged, msg) ==
            IF merged # <<>> /\ merged[Len(merged)].role = msg.role
            THEN [merged EXCEPT ![Len(merged)].content = @ \o msg.content]
            ELSE Append(merged, msg)
    IN  FoldLeft(join, <<>>, msgs)

nativeInputToConverseMessages(items) ==
    mergeConsecutiveMessages(FlattenSeq([i \in DOMAIN items |-> Converted(items[i])]))

(* injectCachePoints: the last user message ends in a cache point.          *)
injectCachePoints(msgs) ==
    LET users == {i \in DOMAIN msgs : msgs[i].role = "user"}
    IN  IF users = {} THEN msgs
        ELSE [msgs EXCEPT ![Max(users)].content = Append(@, Block("cachePoint", NoId, <<>>))]
=============================================================================
