------------------------------ MODULE Summaries ------------------------------
(***************************************************************************)
(* How a thread outlives the context window: the run manager's load, the   *)
(* prompt it builds for each model call, the two summarisers of            *)
(* src/pkg/agents/history/summariser and the save of a summary and of the  *)
(* run's messages. A bundle is an identifier and a kind; a summary names   *)
(* the bundles it stands for. Persistence has the store itself, its        *)
(* branches and its crashes; here a thread has one line of runs.           *)
(***************************************************************************)
EXTENDS Integers, Sequences, FiniteSets, SequencesExt

CONSTANTS
  Summarizers,   \* which of "llm" and "window" a manager may be given
  Keeps,         \* how many runs it may keep; both summarisers floor it at one
  Threshold,     \* the LLM summariser's token threshold
  Asked,         \* what a turn may ask for: "last" run, or "" for the thread
  Agents,        \* the agents that may answer
  Tokens,        \* what the provider weighs of a bundle, by kind ...
  Prefix,        \* ... of the words that attribute one to its sender
  Steering,      \* ... and of a steering note
  MaxRuns, MaxBundles, MaxSummaries, MaxFailures

Kinds == {"user", "image", "reply", "tool", "notice", "summary"}

ASSUME SummariesAssumption ==
  /\ Summarizers \subseteq {"llm", "window"} /\ Keeps \subseteq Nat \ {0} /\ Asked \subseteq {"last", ""}
  /\ {Threshold, Prefix, Steering, MaxRuns, MaxBundles, MaxSummaries, MaxFailures} \subseteq Nat
  /\ Tokens \in [Kinds -> Nat \ {0}]

VARIABLES
  settings,   \* the manager's summariser and its window
  rows,       \* the thread's runs, in order
  summary,    \* the thread's summary row, or None
  mgr,        \* the run manager
  sent,       \* the last prompt, and (history) the thread it should stand for
  bundles, runs, summaries, failures

vars == <<settings, rows, summary, mgr, sent, bundles, runs, summaries, failures>>

NoRun == 0
RunIds == 1..MaxRuns
Bundle(id, kind, sender) == [id |-> id, kind |-> kind, sender |-> sender, of |-> <<>>]
NewBundle(kind, sender) == Bundle(bundles + 1, kind, sender)
Human == "human"
Ids(list) == [i \in DOMAIN list |-> list[i].id]

-----------------------------------------------------------------------------
(* Tokens *)

(* EstimateTokens: an image is flat and large, an empty bundle nothing.     *)
estimateBundleTokens(b) == CASE b.kind = "image" -> 3 [] b.kind = "empty" -> 0 [] OTHER -> 1

(* A bundle weighs what the last usage report made of it, and until one has *)
(* it, what it is estimated at.                                             *)
Weight(measured, b) == IF b.id \in DOMAIN measured THEN measured[b.id] ELSE estimateBundleTokens(b)

Total(measured, list) ==
  LET sum[i \in 0..Len(list)] == IF i = 0 THEN 0 ELSE sum[i - 1] + Weight(measured, list[i])
  IN  sum[Len(list)]

(* TrackUsage: a call made as the agent measures the prompt and the reply.  *)
TrackUsage(m, total) == [m EXCEPT !.usage = @ + total, !.context = total, !.pending = 0]

TrackAuxiliaryUsage_Measured(m, total) == [m EXCEPT !.usage = @ + total, !.context = total]
(* What a summary cost is billed, and measures nothing.                     *)
TrackAuxiliaryUsage(m, total) == [m EXCEPT !.usage = @ + total]

contextTokens(m) == m.context + m.pending

-----------------------------------------------------------------------------
(* Summarisers *)

(* A bundle nobody placed maps to no run.                                   *)
RunAt(runOf, b) == IF b.id \in DOMAIN runOf THEN runOf[b.id] ELSE NoRun

(* A run is a contiguous block of bundles that map to one id: the places    *)
(* where one starts.                                                        *)
groupIntoRuns(runOf, msgs) ==
  {i \in DOMAIN msgs : i = 1 \/ RunAt(runOf, msgs[i]) # RunAt(runOf, msgs[i - 1])}

LastNamed(runOf, msgs) ==
  LET named == {i \in DOMAIN msgs : RunAt(runOf, msgs[i]) # NoRun}
  IN  IF named = {} THEN NoRun ELSE RunAt(runOf, msgs[Max(named)])

(* What a bundle stands for.                                                *)
Stands(b) == CASE b.kind = "summary" -> b.of [] b.kind = "empty" -> <<>> [] OTHER -> <<b.id>>
Covers(list) == FlattenSeq([i \in DOMAIN list |-> Stands(list[i])])

ShouldSummarize(starts, tokens) ==
  /\ Cardinality(starts) > settings.keep
  /\ settings.kind = "llm" => tokens >= Threshold

(* The runs to give up and the runs to keep.                                *)
keepFromIndex(starts) == CHOOSE i \in starts : Cardinality({j \in starts : j >= i}) = settings.keep
Old(msgs, from) == SubSeq(msgs, 1, from - 1)
Recent(msgs, from) == SubSeq(msgs, from, Len(msgs))

(* The sliding window drops the old runs and puts nothing in their place.   *)
Slide(runOf, old, recent, id) ==
  [id |-> id, upTo |-> LastNamed(runOf, old), message |-> Bundle(0, "empty", ""), keep |-> recent, cost |-> 0]

SummaryMessage(old, id) == [Bundle(id, "summary", "") EXCEPT !.of = Covers(old)]

Summarize_PastBoundary(runOf, old, recent, id) ==
  [id |-> id, upTo |-> LastNamed(runOf, Append(old, Head(recent))), message |-> SummaryMessage(old, id),
   keep |-> recent, cost |-> Len(old) + 1]

(* The model's summary stands for the old runs, and has to be paid for.     *)
Summarize(runOf, old, recent, id) ==
  [id |-> id, upTo |-> LastNamed(runOf, old), message |-> SummaryMessage(old, id),
   keep |-> recent, cost |-> Len(old) + 1]

-----------------------------------------------------------------------------
(* The run manager *)

NoResult == [id |-> 0]
Idle == [pc |-> "idle"]

trackRun(m, b) == [m EXCEPT !.runOf = [id \in DOMAIN @ \cup {b.id} |-> IF id = b.id THEN m.run ELSE @[id]]]

processIncoming(m, b, queue, estimate) ==
  LET known == trackRun(m, b)
      weighed == IF estimate THEN [known EXCEPT !.pending = @ + estimateBundleTokens(b)] ELSE known
  IN  IF queue THEN [weighed EXCEPT !.queue = Append(@, b)] ELSE [weighed EXCEPT !.new = Append(@, b)]

AddMessages(m, b) == processIncoming(m, b, FALSE, TRUE)

InFlight(m) == ToSet(Ids(m.new))

(* The bundles that are not in the save buffer already.                     *)
Kept(m, list) == FlattenSeq([i \in DOMAIN list |-> IF list[i].id \in InFlight(m) THEN <<>> ELSE <<list[i]>>])

Applied_Doubles(m, result) ==
  [TrackAuxiliaryUsage(m, result.cost) EXCEPT
      !.summaries = result,
      !.old = (IF result.message.kind = "summary" THEN <<result.message>> ELSE <<>>) \o result.keep]

(* What the summariser decided, applied to the loaded half only; a boundary *)
(* that names the run in flight is cleared.                                 *)
Applied(m, result) ==
  LET kept == Kept(m, result.keep)
      named == IF result.upTo = m.run THEN [result EXCEPT !.upTo = NoRun] ELSE result
      billed == [TrackAuxiliaryUsage(m, result.cost) EXCEPT !.summaries = named]
  IN  IF result.message.kind = "summary"
      THEN [billed EXCEPT !.old = <<result.message>> \o kept,
                          !.runOf = [id \in DOMAIN @ \cup {result.message.id} |->
                                       IF id = result.message.id THEN result.id ELSE @[id]]]
      ELSE [billed EXCEPT !.old = kept]

(* GetMessages, once summarised: the queue is drained and marked.           *)
Drained(m) ==
  [m EXCEPT !.new = @ \o m.queue, !.queue = <<>>, !.steered = @ \cup ToSet(Ids(m.queue))]

(* attributeMessages: others are quoted, what arrived mid-run is followed   *)
(* by a note. Only the tool results of others pass as they are.             *)
Form(b, agent) ==
  CASE b.sender \in {"", agent} \/ b.kind = "tool" -> "own"
    [] b.kind \in {"reply", "notice"} -> "agent"
    [] OTHER -> "human"
Note == [form |-> "note", bundle |-> Bundle(0, "empty", "")]
attributeMessages(m, agent) ==
  LET list == m.old \o m.new
  IN  FlattenSeq([i \in DOMAIN list |->
        << [form |-> Form(list[i], agent), bundle |-> list[i]] >>
        \o IF list[i].id \in m.steered THEN <<Note>> ELSE <<>>])

(* What a provider weighs of a prompt: of each bundle its words, its prefix  *)
(* and the note behind it; and of the reply.                                *)
Measure(m, agent, reply) ==
  LET said == {b \in ToSet(m.old \o m.new) : b.kind # "empty"} \cup {reply}
      Weighed(b) == Tokens[b.kind] + (IF Form(b, agent) = "own" THEN 0 ELSE Prefix)
                                   + (IF b.id \in m.steered THEN Steering ELSE 0)
  IN  [id \in {b.id : b \in said} |-> Weighed(CHOOSE b \in said : b.id = id)]

Transcript == FlattenSeq([i \in DOMAIN rows |-> Ids(rows[i].msgs)])

-----------------------------------------------------------------------------
(* A turn *)

(* LoadMessages: the summary replaces the runs it covers when they end      *)
(* before the run asked for.                                                *)
Position(run) == IF \E i \in DOMAIN rows : rows[i].run = run THEN CHOOSE i \in DOMAIN rows : rows[i].run = run ELSE 0
Load(asked) ==
  LET covered == IF summary = NoResult THEN 0 ELSE Position(summary.upTo)
      target == IF asked = "" \/ rows = <<>> THEN 0 ELSE Len(rows)
  IN  IF covered > 0 /\ covered < target
      THEN << [run |-> summary.id, msgs |-> <<summary.message>>] >> \o SubSeq(rows, covered + 1, target)
      ELSE rows

RunOf(loaded) ==
  [id \in UNION {ToSet(Ids(loaded[i].msgs)) : i \in DOMAIN loaded} |->
     loaded[CHOOSE i \in DOMAIN loaded : id \in ToSet(Ids(loaded[i].msgs))].run]

Fresh == [context |-> 0, pending |-> 0, usage |-> 0, queue |-> <<>>, complete |-> TRUE,
          measured |-> <<>>, known |-> TRUE, due |-> 0]

(* The run state the last row was saved with.                               *)
LastState(loaded) == IF loaded = <<>> THEN Fresh ELSE Last(rows)

Init ==
  /\ \E kind \in Summarizers, keep \in Keeps : settings = [kind |-> kind, keep |-> keep]
  /\ rows = <<>> /\ summary = NoResult /\ mgr = Idle /\ sent = [prompt |-> <<>>, due |-> <<>>, mine |-> {}, placed |-> TRUE, agent |-> ""]
  /\ bundles = 0 /\ runs = 0 /\ summaries = 0 /\ failures = 0

(* NewRun, and the messages the turn came with. A completed run hands its   *)
(* context on to a fresh one; one that paused is continued, and pauses again *)
(* when the turn brings no decision. (history) measured: what the last      *)
(* usage report weighed, bundle by bundle. known: the count has a report to *)
(* stand on, and no more was loaded than it was saved for.                  *)
Turn(asked, kind) ==
  /\ mgr = Idle /\ bundles < MaxBundles
  /\ LET loaded == Load(asked)
         old == FlattenSeq([i \in DOMAIN loaded |-> loaded[i].msgs])
         last == LastState(loaded)
         queue == IF last.complete THEN <<>> ELSE last.queue
         started == [pc |-> IF last.complete THEN "call" ELSE IF kind = "decision" THEN "tools" ELSE "pause",
                     run |-> IF last.complete THEN runs + 1 ELSE last.run,
                     old |-> old, new |-> <<>>, queue |-> queue,
                     runOf |-> RunOf(loaded), steered |-> {}, summaries |-> NoResult,
                     context |-> last.context, pending |-> last.pending,
                     usage |-> IF last.complete THEN 0 ELSE last.usage,
                     measured |-> last.measured,
                     known |-> last.known /\ Total(last.measured, old \o queue) <= last.due]
     IN  /\ started.run \in RunIds
         /\ IF kind = "decision" THEN ~last.complete /\ mgr' = started /\ UNCHANGED bundles
            ELSE mgr' = AddMessages(started, NewBundle(kind, Human)) /\ bundles' = bundles + 1
         /\ runs' = IF last.complete THEN runs + 1 ELSE runs
  /\ UNCHANGED <<settings, rows, summary, sent, summaries, failures>>

(* A message that arrives while the run works.                              *)
AddMessagesToQueue ==
  /\ mgr.pc \in {"call", "tools"} /\ mgr.queue = <<>> /\ bundles < MaxBundles
  /\ mgr' = processIncoming(mgr, NewBundle("user", Human), TRUE, TRUE)
  /\ bundles' = bundles + 1
  /\ UNCHANGED <<settings, rows, summary, sent, runs, summaries, failures>>

(* A model call: what the manager hands over, after a summary when one is   *)
(* due, ...                                                                 *)
Asking(m, agent) ==
  LET drained == Drained(m)
  IN  /\ mgr' = [drained EXCEPT !.pc = "asked"]
      /\ sent' = [prompt |-> attributeMessages(drained, agent), due |-> Transcript \o Ids(drained.new),
                  mine |-> {id \in DOMAIN drained.runOf : drained.runOf[id] = drained.run},
                  placed |-> InFlight(drained) \subseteq DOMAIN drained.runOf, agent |-> agent]

CallModel(agent) ==
  /\ mgr.pc = "call"
  /\ ~ShouldSummarize(groupIntoRuns(mgr.runOf, mgr.old \o mgr.new), contextTokens(mgr))
  /\ Asking(mgr, agent)
  /\ UNCHANGED <<settings, rows, summary, bundles, runs, summaries, failures>>

SummarizeAndCall(agent) ==
  /\ mgr.pc = "call" /\ summaries < MaxSummaries
  /\ LET msgs == mgr.old \o mgr.new
         starts == groupIntoRuns(mgr.runOf, msgs)
         from == keepFromIndex(starts)
         id == -(summaries + 1)
         result == IF settings.kind = "llm" THEN Summarize(mgr.runOf, Old(msgs, from), Recent(msgs, from), id)
                   ELSE Slide(mgr.runOf, Old(msgs, from), Recent(msgs, from), id)
     IN  /\ ShouldSummarize(starts, contextTokens(mgr))
         /\ Asking(Applied(mgr, result), agent)
  /\ summaries' = summaries + 1
  /\ UNCHANGED <<settings, rows, summary, bundles, runs, failures>>

(* ... and the usage report, if there is one, and the reply, with or        *)
(* without tool calls: nobody weighs it when no report came with it.        *)
Reply(agent, reported) ==
  /\ mgr.pc = "asked" /\ agent = sent.agent /\ bundles < MaxBundles
  /\ LET reply == NewBundle("reply", agent)
         weights == Measure(mgr, agent, reply)
         total == Total(weights, Append(mgr.old \o mgr.new, reply))
         tracked == IF reported THEN [TrackUsage(mgr, total) EXCEPT !.measured = weights, !.known = TRUE]
                    ELSE [mgr EXCEPT !.known = FALSE]
         answered == processIncoming(tracked, reply, FALSE, FALSE)
     IN  mgr' \in {[answered EXCEPT !.pc = pc] : pc \in {"tools", "save"}}
  /\ bundles' = bundles + 1
  /\ UNCHANGED <<settings, rows, summary, sent, runs, summaries, failures>>

(* The reply's tools ran, or the turn paused for a decision about them.     *)
Tools ==
  /\ mgr.pc = "tools" /\ bundles < MaxBundles
  /\ mgr' = [AddMessages(mgr, NewBundle("tool", Human)) EXCEPT !.pc = "call"]
  /\ bundles' = bundles + 1
  /\ UNCHANGED <<settings, rows, summary, sent, runs, summaries, failures>>

(* A stop, at the top of the loop or in the model call: a notice that no    *)
(* provider weighs, and the run is complete.                                *)
Stop ==
  /\ mgr.pc \in {"call", "asked", "tools"} /\ bundles < MaxBundles
  /\ mgr' = [AddMessages(mgr, NewBundle("notice", Human)) EXCEPT !.pc = "save"]
  /\ bundles' = bundles + 1
  /\ UNCHANGED <<settings, rows, summary, sent, runs, summaries, failures>>

(* SaveMessages: the summary row first; a pause saves like a completion.    *)
SaveSummary ==
  /\ mgr.pc \in {"save", "tools", "pause"} /\ mgr.summaries # NoResult
  /\ summary' = mgr.summaries /\ mgr' = [mgr EXCEPT !.summaries = NoResult, !.pc = IF @ = "tools" THEN "pause" ELSE @]
  /\ UNCHANGED <<settings, rows, sent, bundles, runs, summaries, failures>>

Saved(run, complete) ==
  [run |-> run, msgs |-> mgr.new, complete |-> complete, context |-> mgr.context, pending |-> mgr.pending,
   usage |-> mgr.usage, queue |-> mgr.queue, measured |-> mgr.measured, known |-> mgr.known,
   due |-> Total(mgr.measured, mgr.old \o mgr.new \o mgr.queue)]

SaveMessages ==
  /\ mgr.pc \in {"save", "tools", "pause"} /\ mgr.summaries = NoResult
  /\ LET row == Saved(mgr.run, mgr.pc = "save")
     IN  rows' = IF rows # <<>> /\ Last(rows).run = mgr.run
                 THEN [rows EXCEPT ![Len(rows)] = [row EXCEPT !.msgs = Last(rows).msgs \o @]]
                 ELSE Append(rows, row)
  /\ mgr' = Idle
  /\ UNCHANGED <<settings, summary, sent, bundles, runs, summaries, failures>>

(* The run fails, or its process dies: what it did not save is lost.        *)
Fail ==
  /\ mgr # Idle /\ failures < MaxFailures
  /\ mgr' = Idle /\ failures' = failures + 1
  /\ UNCHANGED <<settings, rows, summary, sent, bundles, runs, summaries>>

Next ==
  \/ \E asked \in Asked, kind \in {"user", "image", "decision"} : Turn(asked, kind)
  \/ AddMessagesToQueue
  \/ \E agent \in Agents : CallModel(agent)
  \/ \E agent \in Agents : SummarizeAndCall(agent)
  \/ \E agent \in Agents, reported \in BOOLEAN : Reply(agent, reported)
  \/ Tools
  \/ Stop
  \/ SaveSummary
  \/ SaveMessages
  \/ Fail

Spec == Init /\ [][Next]_vars

-----------------------------------------------------------------------------
(* Properties *)

Shown == Covers([i \in DOMAIN sent.prompt |-> sent.prompt[i].bundle])

(* What the model is shown stands for the whole thread: with the LLM        *)
(* summariser every bundle once and in order, itself or in a summary of     *)
(* summaries; with the window a tail of the thread that holds all of the    *)
(* run in flight, across reloads, pauses, stops and runs that failed        *)
(* (GetMessages and LoadMessages), while the manager knows the run of every *)
(* bundle in flight.                                                        *)
ContextComplete ==
  sent.placed =>
    IF settings.kind = "llm" THEN Shown = sent.due
    ELSE IsSuffix(Shown, sent.due) /\ sent.mine \subseteq ToSet(Shown)

(* The token count that decides about summaries leaves out no bundle of the *)
(* next prompt: each is in it as the last usage report weighed it, or as    *)
(* estimated if it came since, through stops, queued messages, pauses,      *)
(* runs that failed, handed-on runs and the bill of a summary, which counts *)
(* for no more than what it replaced (TrackUsage, TrackAuxiliaryUsage,      *)
(* processIncoming and NewRun). It is no bound on the prompt itself: an     *)
(* estimate may be short, and a prefix or note put around a bundle since    *)
(* the report is in no count until the next one.                            *)
ContextMeasured ==
  mgr # Idle /\ mgr.known =>
    contextTokens(mgr) >= Total(mgr.measured, mgr.old \o mgr.new \o mgr.queue)

(* A stored summary that names a run of the thread stands for exactly the   *)
(* thread up to and including that run, so putting it in their place at the *)
(* next load loses and repeats nothing (SaveSummary and LoadMessages).      *)
SummaryCoversRun ==
  settings.kind = "llm" /\ summary # NoResult /\ Position(summary.upTo) > 0 =>
    summary.message.of = FlattenSeq([i \in 1..Position(summary.upTo) |-> Ids(rows[i].msgs)])
=============================================================================
