---------------------------- MODULE AguiSession ----------------------------
(***************************************************************************)
(* A chat over AG-UI: a client POSTs its message list to a thread, the     *)
(* handler takes the new turn out of it and starts a run or folds it into  *)
(* the one in flight, the run calls models (ModelCall) and tools, and what *)
(* it publishes reaches the client through the Translator. The client is   *)
(* external: it builds its list from the events and checks their grammar   *)
(* as @ag-ui/client does. The calls of a reply are gated, and decided on,  *)
(* all together or not at all; AgentRun has them one by one.               *)
(***************************************************************************)
EXTENDS ModelCall, AguiTranslator

CONSTANTS MaxTurns,     \* messages of the user
          MaxFailures,  \* model calls that fail
          Decisions,    \* what a client may post on an interrupt
          Reads         \* whether the store gives a thread back as it reads it, or as it was written

ASSUME SessionAssumption == /\ MaxTurns \in Nat /\ MaxFailures \in Nat /\ Reads \in BOOLEAN
                            /\ Decisions \subseteq [action : Verbs, approved : Verdicts, content : BOOLEAN]

VARIABLES run, step, pending, declined, t, log, client, stored, queue, parked, turns, failures, clean

calling == <<step, pending, declined>>
saved == <<stored, parked>>
sessionVars == <<run, calling, t, log, client, saved, queue, turns, failures, clean>>
aguiVars == <<vars, sessionVars>>

----------------------------------------------------------------------------
(* The client *)

NewClient == [messages |-> <<>>, open |-> {}, seen |-> {}, phase |-> "new", valid |-> TRUE]
Connected(c) == [c EXCEPT !.open = {}, !.seen = {}, !.phase = "new"]

(* verifyEvents: what may come next.                                        *)
Legal(c, ev) ==
    /\ c.phase = "new" <=> ev = RunStarted
    /\ c.phase # "finished"
    /\ ev.edge = "START" => /\ <<ev.kind, ev.id>> \notin c.open
                            /\ <<ev.kind, ev.id>> \in c.seen => ev.kind = "STEP"
    /\ ev.edge \in {"CONTENT", "END"} => <<ev.kind, ev.id>> \in c.open
    /\ ev.edge \in {"FINISHED", "ERROR"} => c.open = {}

Extended(messages, id, text) ==
    [i \in DOMAIN messages |-> IF messages[i].id = id
                               THEN [messages[i] EXCEPT !.content = @ \o text] ELSE messages[i]]
WithCall(messages, ev) ==
    LET call == [id |-> ev.id, name |-> ev.name, args |-> <<>>] IN
    IF ev.parent # NoId /\ messages # <<>> /\ Last(messages).id = ev.parent
    THEN [messages EXCEPT ![Len(messages)].calls = Append(@, call)]
    ELSE Append(messages, [Message("assistant", ev.id, <<>>) EXCEPT !.calls = << call >>])
WithArguments(messages, ev) ==
    [i \in DOMAIN messages |->
        [messages[i] EXCEPT !.calls = [j \in DOMAIN @ |-> IF @[j].id = ev.id
                                                          THEN [@[j] EXCEPT !.args = @ \o ev.text] ELSE @[j]]]]

(* defaultApplyEvents: what the list becomes.                               *)
Applied(messages, ev) ==
    CASE ev.kind = "TEXT_MESSAGE" /\ ev.edge = "START" -> Append(messages, Message("assistant", ev.id, <<>>))
      [] ev.kind = "REASONING_MESSAGE" /\ ev.edge = "START" -> Append(messages, Message("reasoning", ev.id, <<>>))
      [] ev.kind = "TOOL_CALL" /\ ev.edge = "START" -> WithCall(messages, ev)
      [] ev.kind \in {"TEXT_MESSAGE", "REASONING_MESSAGE"} /\ ev.edge = "CONTENT" -> Extended(messages, ev.id, ev.text)
      [] ev.kind = "TOOL_CALL" /\ ev.edge = "CONTENT" -> WithArguments(messages, ev)
      [] ev.kind = "TOOL_CALL_RESULT" ->
           Append(messages, [Message("tool", <<"result", ev.id>>, ev.text) EXCEPT !.call = ev.id])
      [] OTHER -> messages

Received(c, ev) ==
    [messages |-> Applied(c.messages, ev),
     open |-> CASE ev.edge = "START" -> c.open \cup {<<ev.kind, ev.id>>}
                [] ev.edge = "END" -> c.open \ {<<ev.kind, ev.id>>}
                [] OTHER -> c.open,
     seen |-> IF ev.edge = "START" THEN c.seen \cup {<<ev.kind, ev.id>>} ELSE c.seen,
     phase |-> CASE ev = RunStarted -> "running" [] ev.edge \in {"FINISHED", "ERROR"} -> "finished" [] OTHER -> c.phase,
     valid |-> c.valid /\ Legal(c, ev)]

Told(c, events) == FoldLeft(Received, c, events)

----------------------------------------------------------------------------
(* The handler *)

RunChunk(type) == Chunk(type, 0, NoId, <<>>)
OutputChunk(item) == ItemChunk("function_call_output", 0, item)

(* The connection writes what the translator makes of the chunks.           *)
Stream(list) ==
    LET done == TranslateAll(t, list) IN t' = done.t /\ client' = Told(client, done.out)
(* What the run publishes the broker keeps as long as the run is in flight. *)
Publish(list) == Stream(list) /\ log' = log \o list
PublishLast(list) == Stream(list) /\ log' = <<>>

NewUserMessage == Message("user", <<"user", turns + 1>>, << 1000 + turns + 1 >>)
Posted == Append(client.messages, NewUserMessage)
NewTurn(messages) == appendContextBlock(NewTurnSDKMessages(messages))

Loaded == IF Reads THEN ReadBackAll(stored) ELSE stored

(* A turn the thread has and no answer followed is posted again.            *)
Resent(messages) == \E message \in ToSet(NewTurn(messages)), item \in ToSet(stored) : message.id = item.id

SessionInit ==
    /\ Init /\ history = << Question >>
    /\ run = "none" /\ step = "call_llm" /\ pending = <<>> /\ declined = FALSE
    /\ t = NewTranslator /\ log = <<>> /\ client = NewClient
    /\ stored = <<>> /\ parked = <<>> /\ queue = <<>> /\ turns = 0 /\ failures = 0 /\ clean = TRUE

ModelIdle == phase = "idle" /\ UNCHANGED <<phase, provider, calls, blocks, upstream, wire, broken, streamVars>>

(* A POST when no run is in flight: one starts where the thread stands, and *)
(* the turn goes behind all the thread has.                                 *)
StartRun(messages) ==
    /\ run' = "running" /\ t' = NewTranslator /\ log' = <<>>
    /\ client' = Told([Connected(client) EXCEPT !.messages = messages],
                      << RunStarted, Event("CUSTOM", "", NoId, <<>>) >>)
    /\ history' = Loaded \o NewTurn(messages) /\ queue' = parked
    /\ clean' = (clean /\ ~Resent(messages))
    /\ ModelIdle /\ UNCHANGED <<pending, saved, failures>>

(* A turn: on a thread that waits for a decision the run waits on for it.   *)
Post ==
    /\ run # "running" /\ turns < MaxTurns
    /\ StartRun(Posted)
    /\ turns' = turns + 1
    /\ UNCHANGED <<step, declined>>

(* Decisions: the tools run, or are declined, before the model is asked.    *)
Resume(decision) ==
    /\ run = "paused"
    /\ StartRun(client.messages)
    /\ step' = "execute_tools" /\ declined' = ~Approves(decision)
    /\ UNCHANGED turns

(* A POST while the run is in flight is folded into it and answered 204.    *)
Join ==
    /\ run = "running" /\ turns < MaxTurns
    /\ turns' = turns + 1
    /\ queue' = queue \o NewTurn(Posted)
    /\ client' = [client EXCEPT !.messages = Posted]
    /\ clean' = FALSE
    /\ UNCHANGED <<vars, run, calling, t, log, saved, failures>>

----------------------------------------------------------------------------
(* The run *)

(* The loop asks the model, with what was queued meanwhile.                 *)
Ask(p) ==
    /\ run = "running" /\ step = "call_llm"
    /\ Call(p, history \o queue)
    /\ queue' = <<>>
    /\ UNCHANGED <<run, calling, t, log, client, saved, turns, failures, clean>>

Streamed == SubSeq(chunks', Len(chunks) + 1, Len(chunks'))

Chunks == Deliver /\ Publish(Streamed) /\ UNCHANGED <<run, calling, saved, queue, turns, failures, clean>>
Broken == Break /\ Publish(Streamed) /\ clean' = FALSE /\ UNCHANGED <<run, calling, saved, queue, turns, failures>>
Model == (EndStream \/ \E kind \in Kinds, n \in 0..MaxFragments : Produce(kind, n)) /\ UNCHANGED sessionVars

(* Read or dropped, a stream is gone with what converted it.                *)
StreamGone ==
    /\ phase' = "idle" /\ provider' = "" /\ upstream' = <<>> /\ wire' = <<>> /\ broken' = FALSE
    /\ conv' = <<>> /\ chunks' = <<>> /\ output' = <<>>
    /\ UNCHANGED <<calls, blocks>>
Answer == phase = "ending" /\ wire = <<>> /\ StreamGone

(* Completion saves the thread; what is still queued is lost with the run.  *)
Complete(items, list) ==
    /\ history' = items /\ stored' = items /\ parked' = <<>> /\ queue' = <<>>
    /\ run' = "none" /\ step' = "call_llm" /\ pending' = <<>> /\ declined' = FALSE
    /\ PublishLast(list \o << RunChunk("run.completed") >>)

(* A reply without calls is the answer.                                     *)
Done ==
    /\ run = "running" /\ Answer /\ CallsOf(output) = <<>>
    /\ Complete(history \o output, <<>>)
    /\ UNCHANGED <<turns, failures, clean>>

(* A reply with calls: they are executed, or wait for an approval.          *)
RequestTools ==
    /\ run = "running" /\ Answer /\ CallsOf(output) # <<>>
    /\ history' = history \o output
    /\ pending' = CallsOf(output) /\ step' \in {"execute_tools", "await_approval"} /\ declined' = FALSE
    /\ UNCHANGED <<run, t, log, client, saved, queue, turns, failures, clean>>

Refused(items, text) == [i \in DOMAIN items |-> [Answers(items)[i] EXCEPT !.text = text]]
Outputs(results) == [i \in DOMAIN results |-> OutputChunk(results[i])]
Declined == << 999 >>
Execute ==
    /\ run = "running" /\ step = "execute_tools"
    /\ LET results == IF declined THEN Refused(pending, Declined) ELSE Answers(pending)
       IN  history' = history \o results /\ Publish(Outputs(results))
    /\ step' = "call_llm" /\ pending' = <<>> /\ declined' = FALSE
    /\ ModelIdle /\ UNCHANGED <<run, saved, queue, turns, failures, clean>>

(* A pause saves the thread, with what was queued when the loop last looked.*)
Pause ==
    /\ run = "running" /\ step = "await_approval"
    /\ run' = "paused" /\ stored' = history /\ parked' \in {queue, <<>>} /\ queue' = <<>>
    /\ PublishLast(<< RunChunk("run.paused") >>)
    /\ ModelIdle /\ UNCHANGED <<history, calling, turns, failures, clean>>

(* A stop drops the answer in flight, cancels the calls and leaves a notice.*)
CancelId == <<"cancelled", turns>>
Notice == << 998 >>
CancelNotice_Unstreamed == <<>>
CancelNotice ==
    LET item == MessageItem("OfInputMessage", "assistant", CancelId, <<>>, <<>>) IN
    << ItemChunk("response.output_item.added", 0, item), Chunk("response.output_text.delta", 0, CancelId, Notice),
       ItemChunk("response.output_item.done", 0, item) >>
Cancelled == << 997 >>
Stop ==
    /\ run = "running"
    /\ LET results == Refused(pending, Cancelled)
       IN  Complete(Append(history \o results, MessageItem("OfInputMessage", "assistant", CancelId, Notice, <<>>)),
                    Outputs(results) \o CancelNotice)
    /\ StreamGone /\ clean' = (clean /\ phase = "idle")
    /\ UNCHANGED <<turns, failures>>

(* The call fails: nothing the run did is saved, and the thread is what it  *)
(* was before the run, waiting for a decision if it was.                    *)
Unanswered(items) ==
    SelectSeq(CallsOf(items), LAMBDA call :
        \A item \in ToSet(items) : item.type = "function_call_output" => item.call # call.call)
Fail ==
    /\ run = "running" /\ step = "call_llm" /\ failures < MaxFailures
    /\ failures' = failures + 1
    /\ t' = Error(t).t /\ log' = <<>> /\ client' = Told(client, Error(t).out)
    /\ history' = stored /\ queue' = <<>> /\ clean' = FALSE
    /\ pending' = Unanswered(stored) /\ declined' = FALSE
    /\ IF pending' = <<>> THEN run' = "none" /\ step' = "call_llm" ELSE run' = "paused" /\ step' = "await_approval"
    /\ ModelIdle /\ UNCHANGED <<saved, turns>>

(* The client reloads the thread from the server.                           *)
Refresh ==
    /\ run # "running" /\ stored # <<>>
    /\ client' = [client EXCEPT !.messages = HistoryToMessages(Loaded)]
    /\ clean' = (parked = <<>>)
    /\ UNCHANGED <<vars, run, calling, t, log, saved, queue, turns, failures>>

(* A client that went away reads the thread and rejoins the run: a fresh    *)
(* translator replays what was published. The turn itself is in neither.    *)
Rejoin ==
    /\ run = "running"
    /\ LET done == TranslateAll(NewTranslator, log)
       IN  client' = Told([NewClient EXCEPT !.messages = HistoryToMessages(Loaded)], << RunStarted >> \o done.out)
    /\ clean' = FALSE
    /\ UNCHANGED <<vars, run, calling, t, log, saved, queue, turns, failures>>

SessionNext ==
    \/ Post
    \/ Join
    \/ \E decision \in Decisions : Resume(decision)
    \/ \E p \in Providers : Ask(p)
    \/ Chunks
    \/ Broken
    \/ Model
    \/ Done
    \/ RequestTools
    \/ Execute
    \/ Pause
    \/ Stop
    \/ Fail
    \/ Refresh
    \/ Rejoin

SessionSpec == SessionInit /\ [][SessionNext]_aguiVars
----------------------------------------------------------------------------
(* Properties *)

(* translator.go's invariants 1, 2, 3 and 5: whatever a provider streams,   *)
(* wherever the stream breaks, the run pauses, fails or is stopped, every   *)
(* bracket the client sees is opened once and closed, contents fall inside  *)
(* their bracket, RUN_STARTED is first and nothing is open at the end.      *)
StreamVerifies ==
    /\ client.valid
    /\ run # "running" => client.phase # "running" /\ client.open = {}

(* A message list, as what a reader sees of it: texts, calls and results.   *)
Seen(message) ==
    (IF message.content = <<>> THEN <<>> ELSE << <<message.role, message.content>> >>)
    \o [i \in DOMAIN message.calls |-> <<"call", << message.calls[i].name >>>>]
Shown(messages) == FlattenSeq([i \in DOMAIN messages |-> Seen(messages[i])])

(* What a client was streamed is what it finds when it reloads the thread,  *)
(* in the same order, whatever the converter of the provider and the chunks *)
(* it sent, unless a call failed, a stream broke, a stop cut an answer off, *)
(* a turn joined a run that was under way or an unanswered turn was posted  *)
(* again: what the README tells of.                                         *)
LiveMatchesReload ==
    run # "running" /\ clean => Shown(client.messages) = Shown(HistoryToMessages(stored))

(* A client that shows the thread it loaded and posts it back whole, as     *)
(* WithFullHistory has it, hands the agent the thread: the same messages,   *)
(* calls and results in the same order, each result with its call's id.     *)
Echoed(items) ==
    LET kept == SelectSeq(items, LAMBDA item :
                    \/ item.type \in {"function_call", "function_call_output"}
                    \/ item.type \in {"message", "image_generation_call"} /\ stripContextBlocks(item.text) # <<>>)
    IN  [i \in DOMAIN kept |->
            <<IF kept[i].type = "image_generation_call" THEN "message" ELSE kept[i].type, kept[i].call,
              IF kept[i].type = "function_call" THEN kept[i].text ELSE stripContextBlocks(kept[i].text)>>]
EchoKeepsThread ==
    \A items \in {stored, ReadBackAll(stored)} : Echoed(ToSDKMessages(HistoryToMessages(items))) = Echoed(items)

=============================================================================
