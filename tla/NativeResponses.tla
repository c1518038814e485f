-------------------------- MODULE NativeResponses --------------------------
(***************************************************************************)
(* The provider-neutral vocabulary of pkg/gateway/llm/responses: the items *)
(* a conversation is made of, the chunks a model call streams, the arm of  *)
(* the union an item comes back as when its JSON is read again, and        *)
(* the fold of pkg/agents/llm.go that turns a stream into a response.      *)
(* A text is the sequence of the fragments it was streamed in, a fragment  *)
(* being a number; Nil stands for an absent pointer.                       *)
(***************************************************************************)
EXTENDS Integers, Sequences, SequencesExt

Nil == <<-1>>                  \* a nil *string
EmptyObject == <<0>>           \* the literal arguments "{}"
NoId == <<"", 0>>

ItemTypes == {"message", "function_call", "function_call_output", "reasoning",
              "image_generation_call", "web_search_call", "code_interpreter_call"}

(* InputMessageUnion and OutputMessageUnion. `arm` tells the three forms of *)
(* a message apart; `out` holds a message's annotations, a search's sources *)
(* and the logs of a code run; `enc` is the encrypted content or the        *)
(* thought signature.                                                       *)
NoItem == [type |-> "message", arm |-> "", role |-> "assistant", id |-> NoId, call |-> NoId,
           name |-> 0, text |-> <<>>, out |-> <<>>, enc |-> Nil]

MessageItem(arm, role, id, text, out) ==
    [NoItem EXCEPT !.arm = arm, !.role = role, !.id = id, !.text = text, !.out = out]
CallItem(id, call, name, args) ==
    [NoItem EXCEPT !.type = "function_call", !.id = id, !.call = call, !.name = name, !.text = args]
CallOutputItem(call, text) ==
    [NoItem EXCEPT !.type = "function_call_output", !.id = call, !.call = call, !.text = text]
ReasoningItem(id, text, enc) ==
    [NoItem EXCEPT !.type = "reasoning", !.id = id, !.text = text, !.enc = enc]
ServerToolItem(type, id, text, out) ==
    [NoItem EXCEPT !.type = type, !.id = id, !.text = text, !.out = out]

(* InputMessageUnion.UnmarshalJSON tries EasyMessage first, and its content *)
(* accepts output_text: every message comes back as an EasyMessage.         *)
ReadBack(item) == IF item.type = "message" THEN [item EXCEPT !.arm = "OfEasyInput"] ELSE item

ReadBackAll(items) == [i \in DOMAIN items |-> ReadBack(items[i])]

----------------------------------------------------------------------------
(* ResponseChunk: what each arm of the union is for.                        *)
ResponseChunks == {"response.created", "response.in_progress", "response.completed"}
ItemChunks == {"response.output_item.added", "response.output_item.done"}
TextChunks == {"response.content_part.added", "response.content_part.done",
               "response.output_text.delta", "response.output_text.annotation.added",
               "response.output_text.done"}
CallChunks == {"response.function_call_arguments.delta", "response.function_call_arguments.done"}
ReasoningChunks == {"response.reasoning_summary_part.added", "response.reasoning_summary_part.done",
                    "response.reasoning_summary_text.delta", "response.reasoning_summary_text.done"}
ImageChunks == {"response.image_generation_call.in_progress",
                "response.image_generation_call.generating",
                "response.image_generation_call.partial_image"}
SearchChunks == {"response.web_search_call.in_progress", "response.web_search_call.searching",
                 "response.web_search_call.completed"}
CodeChunks == {"response.code_interpreter_call.in_progress",
               "response.code_interpreter_call_code.delta", "response.code_interpreter_call_code.done",
               "response.code_interpreter_call.interpreting", "response.code_interpreter_call.completed"}
ChunkTypes == ResponseChunks \cup ItemChunks \cup TextChunks \cup CallChunks \cup ReasoningChunks
              \cup ImageChunks \cup SearchChunks \cup CodeChunks

Deltas == {"response.output_text.delta", "response.function_call_arguments.delta",
           "response.reasoning_summary_text.delta", "response.code_interpreter_call_code.delta"}
TextDones == {"response.output_text.done", "response.function_call_arguments.done",
              "response.reasoning_summary_text.done", "response.code_interpreter_call_code.done"}

(* What parsing a call's arguments as a JSON object yields: nothing unless  *)
(* they are one block's fragments, the closing one last, and nothing else.  *)
Closes(fragment) == fragment % 10 = 9
IsObject(args) ==
    \/ args = EmptyObject
    \/ /\ args # <<>>
       /\ \A i \in DOMAIN args : /\ args[i] \div 10 = args[1] \div 10
                                /\ Closes(args[i]) <=> i = Len(args)
ParsedArguments(args) == IF IsObject(args) THEN args ELSE EmptyObject

(* JSON within a text: the literal of a string, what the one field of an    *)
(* object holds (a server tool's query or command), and that object.        *)
Quoted(text) == <<-2>> \o text
FieldOf(json) == [i \in DOMAIN json |-> -json[i]]
ObjectWith(value) == [i \in DOMAIN value |-> -value[i]]

(* Usage: the whole prompt in `input`, its cached part in `cached`.         *)
NoUsage == [input |-> 0, cached |-> 0, output |-> 0]

Chunk(type, index, id, text) ==
    [type |-> type, index |-> index, id |-> id, text |-> text, item |-> NoItem,
     output |-> <<>>, usage |-> NoUsage]
ItemChunk(type, index, item) == [Chunk(type, index, item.id, <<>>) EXCEPT !.item = item]
CompletedChunk(output, usage) ==
    [Chunk("response.completed", 0, NoId, <<>>) EXCEPT !.output = output, !.usage = usage]

(* A minted identifier: the prefix, and how many were minted before it.     *)
Minted(prefix, n) == <<prefix, n>>

----------------------------------------------------------------------------
(* Accumulator.ReadStream, one chunk: a done message, reasoning, call or    *)
(* image joins the output, an empty reasoning block, a search and a code    *)
(* run do not.                                                              *)
Accumulated(output, chunk) ==
    LET item == chunk.item IN
    IF chunk.type # "response.output_item.done" THEN output
    ELSE CASE item.type = "message" ->
                Append(output, [item EXCEPT !.arm = "OfOutputMessage", !.role = "assistant"])
           [] item.type = "reasoning" ->
                IF item.enc = Nil /\ item.text = Nil THEN output ELSE Append(output, item)
           [] item.type \in {"function_call", "image_generation_call"} -> Append(output, item)
           [] OTHER -> output

ReadStream(output, chunks) == FoldLeft(Accumulated, output, chunks)
=============================================================================
