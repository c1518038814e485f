--------------------------- MODULE AguiTranslator ---------------------------
(***************************************************************************)
(* What pkg/agui computes: the Translator that turns a run's chunks into   *)
(* AG-UI events, the message list a stored thread is shown as, and the SDK *)
(* messages a client's list is read as. An event is a bracket's START,     *)
(* CONTENT or END, or a kind of its own. Beside the chunks of a model call *)
(* a run publishes its own: run.created, run.paused, run.completed and a   *)
(* tool's result, which function_call_output stands for.                   *)
(***************************************************************************)
EXTENDS NativeResponses

Event(kind, edge, id, text) == [kind |-> kind, edge |-> edge, id |-> id, text |-> text, name |-> 0, parent |-> NoId]
Start(kind, id) == Event(kind, "START", id, <<>>)
End(kind, id) == Event(kind, "END", id, <<>>)
Content(kind, id, text) == Event(kind, "CONTENT", id, text)
RunStarted == Event("RUN", "STARTED", NoId, <<>>)
RunFinished == Event("RUN", "FINISHED", NoId, <<>>)
RunError == Event("RUN", "ERROR", NoId, <<>>)

Translated(t, out) == [t |-> t, out |-> out]

NewTranslator == [text |-> NoId, calls |-> {}, reasoning |-> NoId, steps |-> {}]

----------------------------------------------------------------------------
(* Brackets *)

StepId(name) == <<name, 0>>
stepStart(t, name) ==
    IF name \in t.steps THEN Translated(t, <<>>)
    ELSE Translated([t EXCEPT !.steps = @ \cup {name}], << Start("STEP", StepId(name)) >>)
stepFinish(t, name) ==
    IF name \notin t.steps THEN Translated(t, <<>>)
    ELSE Translated([t EXCEPT !.steps = @ \ {name}], << End("STEP", StepId(name)) >>)

openReasoning(id) == << Start("REASONING", id), Start("REASONING_MESSAGE", id) >>
closeReasoning(t) ==
    IF t.reasoning = NoId THEN <<>>
    ELSE << End("REASONING_MESSAGE", t.reasoning), End("REASONING", t.reasoning) >>

EndText(t) == IF t.text = NoId THEN <<>> ELSE << End("TEXT_MESSAGE", t.text) >>
EndOtherText(t, id) == IF t.text = id THEN <<>> ELSE EndText(t)

closeOpenItems_NoSteps(t) ==
    Translated(NewTranslator,
        EndText(t)
        \o SetToSeq({End("TOOL_CALL", open.call) : open \in t.calls})
        \o closeReasoning(t))

(* Go ranges over its maps of calls and steps in any order.                 *)
closeOpenItems(t) ==
    Translated(NewTranslator,
        EndText(t)
        \o SetToSeq({End("TOOL_CALL", open.call) : open \in t.calls})
        \o closeReasoning(t)
        \o SetToSeq({End("STEP", StepId(name)) : name \in t.steps}))

Finish(t) == Translated(NewTranslator, closeOpenItems(t).out \o << RunFinished >>)
Error(t) == Translated(NewTranslator, closeOpenItems(t).out \o << RunError >>)
Paused(t) ==
    Translated(NewTranslator, closeOpenItems(t).out \o
        << Event("STATE_SNAPSHOT", "", NoId, <<>>), Event("CUSTOM", "", NoId, <<>>), RunFinished >>)

----------------------------------------------------------------------------
(* Chunks *)

CallStart(t, item) ==
    [Start("TOOL_CALL", item.call) EXCEPT !.name = item.name, !.parent = t.text]

handleOutputItemAdded(t, item) ==
    CASE item.type = "message" ->
           Translated([t EXCEPT !.text = item.id],
                      EndOtherText(t, item.id) \o << Start("TEXT_MESSAGE", item.id) >>)
      [] item.type = "function_call" ->
           Translated([t EXCEPT !.calls = @ \cup {[item |-> item.id, call |-> item.call]}],
                      << CallStart(t, item) >>
                      \o IF item.text \in {Nil, <<>>} THEN <<>>
                         ELSE << Content("TOOL_CALL", item.call, item.text) >>)
      [] item.type = "reasoning" ->
           Translated([t EXCEPT !.reasoning = item.id],
                      (IF t.reasoning = item.id THEN <<>> ELSE closeReasoning(t)) \o openReasoning(item.id))
      [] item.type = "image_generation_call" -> stepStart(t, "image_generation")
      [] OTHER -> Translated(t, <<>>)

(* The finished image is a message of its own.                              *)
ImageDone(t, item) ==
    LET stepped == stepFinish(t, "image_generation") IN
    IF item.text = <<>> THEN stepped
    ELSE Translated([stepped.t EXCEPT !.text = NoId],
            stepped.out \o EndText(t) \o << Start("TEXT_MESSAGE", item.id),
                                            Content("TEXT_MESSAGE", item.id, item.text),
                                            End("TEXT_MESSAGE", item.id) >>)

OpenCall(t, id) == {open \in t.calls : open.item = id}

handleOutputItemDone(t, item) ==
    CASE item.type = "message" /\ t.text = item.id -> Translated([t EXCEPT !.text = NoId], EndText(t))
      [] item.type = "function_call" ->
           Translated([t EXCEPT !.calls = @ \ OpenCall(t, item.id)],
                      IF OpenCall(t, item.id) = {} THEN << End("TOOL_CALL", item.call) >>
                      ELSE SetToSeq({End("TOOL_CALL", open.call) : open \in OpenCall(t, item.id)}))
      [] item.type = "reasoning" /\ t.reasoning = item.id ->
           Translated([t EXCEPT !.reasoning = NoId], closeReasoning(t))
      [] item.type = "image_generation_call" -> ImageDone(t, item)
      [] OTHER -> Translated(t, <<>>)

(* A delta of an item that is not open opens it.                            *)
TextDelta(t, chunk) ==
    Translated([t EXCEPT !.text = chunk.id],
        EndOtherText(t, chunk.id)
        \o (IF t.text = chunk.id THEN <<>> ELSE << Start("TEXT_MESSAGE", chunk.id) >>)
        \o << Content("TEXT_MESSAGE", chunk.id, chunk.text) >>)
ReasoningDelta(t, chunk) ==
    Translated([t EXCEPT !.reasoning = chunk.id],
        (IF t.reasoning = chunk.id THEN <<>> ELSE closeReasoning(t) \o openReasoning(chunk.id))
        \o << Content("REASONING_MESSAGE", chunk.id, chunk.text) >>)
ArgumentsDelta(t, chunk) ==
    Translated(t, SetToSeq({Content("TOOL_CALL", open.call, chunk.text) : open \in OpenCall(t, chunk.id)}))

ToolResult(item) == << Event("TOOL_CALL_RESULT", "", item.call, item.text) >>

(* A server tool at work is a step; what has no event is dropped.           *)
Hint(t, chunk) ==
    CASE chunk.type = "response.web_search_call.in_progress" -> stepStart(t, "web_search")
      [] chunk.type = "response.web_search_call.completed" -> stepFinish(t, "web_search")
      [] chunk.type = "response.code_interpreter_call.in_progress" -> stepStart(t, "code_interpreter")
      [] chunk.type = "response.code_interpreter_call.completed" -> stepFinish(t, "code_interpreter")
      [] OTHER -> Translated(t, <<>>)

Translate(t, chunk) ==
    CASE chunk.type = "run.paused" -> Paused(t)
      [] chunk.type = "run.completed" -> Finish(t)
      [] chunk.type = "response.created" -> stepStart(t, "response")
      [] chunk.type = "response.completed" -> stepFinish(t, "response")
      [] chunk.type = "response.output_item.added" -> handleOutputItemAdded(t, chunk.item)
      [] chunk.type = "response.output_item.done" -> handleOutputItemDone(t, chunk.item)
      [] chunk.type = "response.output_text.delta" -> TextDelta(t, chunk)
      [] chunk.type = "response.output_text.annotation.added" -> Translated(t, << Event("CUSTOM", "", NoId, <<>>) >>)
      [] chunk.type = "response.function_call_arguments.delta" -> ArgumentsDelta(t, chunk)
      [] chunk.type = "function_call_output" -> Translated(t, ToolResult(chunk.item))
      [] chunk.type = "response.reasoning_summary_text.delta" -> ReasoningDelta(t, chunk)
      [] OTHER -> Hint(t, chunk)

TranslateAll(t, list) ==
    FoldLeft(LAMBDA done, chunk : LET next == Translate(done.t, chunk)
                                  IN  Translated(next.t, done.out \o next.out),
             Translated(t, <<>>), list)

----------------------------------------------------------------------------
(* Message lists *)

Message(role, id, content) == [role |-> role, id |-> id, content |-> content, calls |-> <<>>, call |-> NoId, enc |-> Nil]
ToolCall(item) == [id |-> item.call, name |-> item.name, args |-> item.text]

(* The text the handler adds to a turn. What takes it out trims white space *)
(* as well, which no text here has.                                         *)
ContextBlock == 2000
stripContextBlocks(text) == SelectSeq(text, LAMBDA fragment : fragment # ContextBlock)

(* The grounding context joins the last message of the user in the turn.    *)
appendContextBlock(items) ==
    LET users == {i \in DOMAIN items : items[i].arm = "OfInputMessage" /\ items[i].role = "user"} IN
    IF users = {} THEN items
    ELSE [items EXCEPT ![Max(users)].text = Append(@, ContextBlock)]

(* An id the list does not have yet.                                        *)
uniq(messages, id) ==
    IF id = NoId \/ \E i \in DOMAIN messages : messages[i].id = id THEN <<"m", Len(messages)>> ELSE id

Carries(messages) ==
    messages # <<>> /\ Last(messages).role = "assistant" /\ Last(messages).content = <<>>

ShownCall_Coalesced(messages, item) ==
    IF messages # <<>> /\ Last(messages).role # "user"
    THEN [messages EXCEPT ![Len(messages)].calls = Append(@, ToolCall(item))]
    ELSE Append(messages, [Message("assistant", uniq(messages, item.id), <<>>) EXCEPT !.calls = << ToolCall(item) >>])

ShownCall(messages, item) ==
    IF Carries(messages)
    THEN [messages EXCEPT ![Len(messages)].calls = Append(@, ToolCall(item))]
    ELSE Append(messages, [Message("assistant", uniq(messages, item.id), <<>>) EXCEPT !.calls = << ToolCall(item) >>])

(* One stored item joins the list; empty messages, images and reasoning do  *)
(* not, nor do the items a server tool leaves.                              *)
Hydrated(messages, item) ==
    LET text == IF item.arm = "OfOutputMessage" THEN item.text ELSE stripContextBlocks(item.text) IN
    CASE item.type = "message" ->
           IF text = <<>> THEN messages
           ELSE Append(messages, Message(IF item.arm = "OfOutputMessage" THEN "assistant" ELSE item.role,
                                         uniq(messages, item.id), text))
      [] item.type = "function_call" -> ShownCall(messages, item)
      [] item.type = "function_call_output" ->
           Append(messages, [Message("tool", uniq(messages, item.id), item.text) EXCEPT !.call = item.call])
      [] item.type = "reasoning" ->
           IF item.text \in {Nil, <<>>} /\ item.enc \in {Nil, <<>>} THEN messages
           ELSE Append(messages, [Message("reasoning", uniq(messages, item.id),
                                          IF item.text = Nil THEN <<>> ELSE item.text) EXCEPT !.enc = item.enc])
      [] item.type = "image_generation_call" ->
           IF item.text = <<>> THEN messages
           ELSE Append(messages, Message("assistant", uniq(messages, item.id), item.text))
      [] OTHER -> messages

HistoryToMessages(items) == FoldLeft(Hydrated, <<>>, items)

(* What a client's message is to the agent.                                 *)
SDKMessages(message) ==
    CASE message.role \in {"user", "system", "developer"} ->
           << MessageItem("OfInputMessage", message.role, message.id, message.content, <<>>) >>
      [] message.role = "assistant" ->
           (IF message.content = <<>> THEN <<>>
            ELSE << MessageItem("OfOutputMessage", "assistant", message.id, message.content, <<>>) >>)
           \o [i \in DOMAIN message.calls |->
                 CallItem(message.calls[i].id, message.calls[i].id, message.calls[i].name, message.calls[i].args)]
      [] message.role = "tool" ->
           << [CallOutputItem(message.call, message.content) EXCEPT !.id = message.id] >>
      [] OTHER -> <<>>

ToSDKMessages(messages) == FlattenSeq([i \in DOMAIN messages |-> SDKMessages(messages[i])])

(* The messages after the last one that is not the user's or the system's.  *)
NewTurnSDKMessages(messages) ==
    LET said == {i \in DOMAIN messages : messages[i].role \notin {"user", "system", "developer"}}
        start == IF said = {} THEN 1 ELSE Max(said) + 1
    IN  ToSDKMessages(SubSeq(messages, start, Len(messages)))

(* What a decision means: its verb, else its verdict, else whether it       *)
(* carries an answer. Only an approval passes the answer on.                *)
Verbs == {"approve", "accept", "reject", "decline", "cancel", ""}
Verdicts == {"true", "false", "absent"}
Approves(decision) ==
    CASE decision.action \in {"approve", "accept"} -> TRUE
      [] decision.action \in {"reject", "decline", "cancel"} -> FALSE
      [] decision.approved # "absent" -> decision.approved = "true"
      [] OTHER -> decision.content
=============================================================================
