------------------------------ MODULE AgentRun ------------------------------
(***************************************************************************)
(* The agent loop of pkg/agents/agent.go together with the run state       *)
(* (agentstate/agent_state.go) and the conversation it loads and saves     *)
(* (history/conversation_manager.go), for one thread.                      *)
(*                                                                         *)
(* A run alternates model calls and tool calls, pauses when a call needs   *)
(* the user, ends when the model stops asking for tools, and can be        *)
(* stopped, steered by queued messages, handed to another agent, abandoned *)
(* by an error, and resumed from the row it saved.  The loop reads the     *)
(* queue, then the stop flag, then acts on the current step; each of those *)
(* is one action here because clients act between them, and a model call   *)
(* and each tool call are in flight for a while.                           *)
(*                                                                         *)
(* Messages and tool calls are values without content.  A history is the   *)
(* set of function calls in it, how many outputs each call id has, and the *)
(* set of user messages; order inside it is not represented.  The lists of *)
(* the run state are sets: the code never puts a call id twice in one.     *)
(* At most one run at a time uses the thread: the claim that ensures it    *)
(* (StreamBroker.EnqueueOrStart) is modelled by RunClaim.                  *)
(***************************************************************************)
EXTENDS Naturals, FiniteSets

CONSTANTS
  Agents,        \* the root agent and the agents it can hand off to
  Root,          \* the agent the caller executes
  Calls,         \* call ids of the function calls the models may emit
  Inner,         \* call ids of calls inside sub-agents, surfaced by interrupts
  Msgs,          \* user messages
  parent,        \* the top-level call an id belongs to
  owner,         \* the agent that has a call's tool in its tool list
  Gated,         \* calls whose tool has RequiresApproval
  Interrupting,  \* calls whose tool may interrupt the run under its own id
  transfer,      \* target agent of each transfer_to_agent call
  handoffs,      \* the handoffs registered on each agent
  MaxLoops,      \* each agent's loop budget
  SingleTurn,    \* AgentOptions.SingleTurn
  Sticky,        \* AgentOptions.StickyHandoff
  Faults,        \* whether a run may be abandoned by an error or a crash
  BrokerErrors   \* whether reading the queue or the stop flag may fail

Ids == Calls \cup Inner
Transfers == DOMAIN transfer

ASSUME CallsAssumption ==
  /\ Calls \cap Inner = {}
  /\ parent \in [Ids -> Calls]
  /\ \A c \in Calls : parent[c] = c
  /\ owner \in [Calls -> Agents]
  /\ Gated \subseteq Calls
  /\ Interrupting \subseteq Calls

ASSUME HandoffAssumption ==
  /\ Root \in Agents
  /\ Transfers \subseteq Calls \ Gated
  /\ transfer \in [Transfers -> Agents]
  /\ handoffs \in [Agents -> SUBSET Agents]

ASSUME SwitchAssumption ==
  /\ MaxLoops \in [Agents -> Nat]
  /\ SingleTurn \in BOOLEAN
  /\ Sticky \in BOOLEAN
  /\ Faults \in BOOLEAN
  /\ BrokerErrors \in BOOLEAN

VARIABLES
  pc,       \* where the run's goroutine is; "off" when there is no run
  agent,    \* the agent whose ExecuteWithRun is active
  rs,       \* the RunState in memory
  mem,      \* the conversation in memory: oldMessages and newMessages
  disk,     \* the conversation and the run state last saved
  batch,    \* the calls handed to ToolExecutor.ExecuteAll
  running,  \* those of them that have not reported yet
  raised,   \* the interrupts the reported ones carried
  queue,    \* the broker's queue for the run
  stopped,  \* the broker's stop flag for the run
  client    \* what the clients have sent and what they have been shown

vars == <<pc, agent, rs, mem, disk, batch, running, raised, queue, stopped, client>>
execVars == <<batch, running, raised>>

-----------------------------------------------------------------------------
(* Data.                                                                   *)

Steps == {"call_llm", "execute_tools", "await_approval", "complete"}

RunStates ==
  [step       : Steps,
   iter       : Nat,            \* LoopIteration
   pending    : SUBSET Ids,     \* PendingToolCalls
   awaiting   : SUBSET Ids,     \* ToolsAwaitingApproval
   approvals  : SUBSET Ids,     \* QueuedApprovals
   rejections : SUBSET Ids,     \* QueuedRejections
   queued     : SUBSET Msgs,    \* QueuedMessages
   nested     : SUBSET Ids,     \* the keys of PendingNestedToolCalls
   paused     : SUBSET Calls,   \* the keys of PausedToolCalls
   last       : Agents]         \* LastAgentName

Histories == [calls : SUBSET Calls, outs : [Ids -> Nat], msgs : SUBSET Msgs]

\* One bundle of input: user messages and interrupt resolutions.  Folding the
\* bundles of a queue one by one is folding their union.
Inputs == [msgs : SUBSET Msgs, approve : SUBSET Ids, reject : SUBSET Ids]
NoInput == [msgs |-> {}, approve |-> {}, reject |-> {}]
Resolved(b) == b.approve \cup b.reject

\* The user may approve or reject what a pause has shown, and an answer to a
\* question that is no longer open can still arrive.
Clients ==
  [sent    : SUBSET Msgs,   \* messages handed to Execute or EnqueueMessage
   shown   : SUBSET Ids,    \* ids a pause has surfaced as interrupts
   granted : SUBSET Ids,    \* ids a user has approved
   emitted : SUBSET Calls,  \* ids some model reply has used
   ran     : SUBSET Calls]  \* calls whose tool has been started

EmptyHistory == [calls |-> {}, outs |-> [id \in Ids |-> 0], msgs |-> {}]

Unanswered(h) == {c \in h.calls : h.outs[c] = 0}

\* Every function call has exactly one output, and every output has its call.
Paired(h) == \A id \in Ids : h.outs[id] = IF id \in h.calls THEN 1 ELSE 0

-----------------------------------------------------------------------------
(* RunState transitions.                                                   *)

NewRunState(last) ==
  [step |-> "call_llm", iter |-> 0, pending |-> {}, awaiting |-> {},
   approvals |-> {}, rejections |-> {}, queued |-> {}, nested |-> {},
   paused |-> {}, last |-> last]

TransitionToLLM(r) == [r EXCEPT !.step = "call_llm", !.iter = @ + 1]

TransitionToExecuteTools(r, calls) ==
  [r EXCEPT !.step = "execute_tools", !.pending = calls]

TransitionToAwaitApproval(r, calls) ==
  [r EXCEPT !.step = "await_approval", !.pending = calls]

TransitionToComplete(r) == [r EXCEPT !.step = "complete", !.pending = {}]

ClearPendingTools(r) == [r EXCEPT !.pending = {}]

\* Mutant: ToolsAwaitingApproval is not reset.
PromoteAwaitingToApproval_Keeps(r) ==
  [r EXCEPT !.step = "await_approval", !.pending = r.awaiting]

PromoteAwaitingToApproval(r) ==
  [r EXCEPT !.step = "await_approval", !.pending = r.awaiting, !.awaiting = {}]

IsComplete(r) == r.step = "complete"

-----------------------------------------------------------------------------
(* The conversation.                                                       *)

\* Drains resolutions onto the run state; user messages go to the queue, or
\* (AddMessages) straight into the conversation, which the caller updates.
processIncoming(r, b, toQueue) ==
  [r EXCEPT
     !.approvals  = @ \cup b.approve,
     !.rejections = @ \cup b.reject,
     !.queued     = IF toQueue THEN @ \cup b.msgs ELSE @,
     !.step       = IF @ = "await_approval" /\ Resolved(b) # {}
                    THEN "execute_tools" ELSE @]

\* A completed run is followed by a fresh one; a paused run is continued.
NewRun(r) == IF IsComplete(r) THEN NewRunState(r.last) ELSE r

\* Appends one output for each of the given call ids.
AddOutputs(h, ids) ==
  [h EXCEPT !.outs = [id \in Ids |-> @[id] + (IF id \in ids THEN 1 ELSE 0)]]

\* What GetMessages does to the run state: the queue empties into the
\* conversation and the agent about to answer is remembered.
GetMessages(r, a) == [r EXCEPT !.queued = {}, !.last = a]

\* Mutant: which call an inner interrupt belongs to is not recorded.
ProcessInterrupts_NoNested(r, ids) ==
  [r EXCEPT !.awaiting = @ \cup ids, !.paused = @ \cup {parent[id] : id \in ids}]

\* Mutant: the paused parent call is not recorded.
ProcessInterrupts_NoParent(r, ids) ==
  [r EXCEPT !.awaiting = @ \cup ids, !.nested = @ \cup ids]

ProcessInterrupts(r, ids) ==
  [r EXCEPT !.awaiting = @ \cup ids,
            !.nested   = @ \cup ids,
            !.paused   = @ \cup {parent[id] : id \in ids}]

\* Mutant: whatever was not rejected counts as approved.
CollectNestedApprovalsForParent_Lenient(r, c) ==
  LET mine == {id \in r.nested : parent[id] = c}
  IN  [approved |-> mine \ r.rejections, rejected |-> mine \cap r.rejections]

\* Which resolutions a resumed call is handed for the interrupts it raised.
CollectNestedApprovalsForParent(r, c) ==
  LET mine == {id \in r.nested : parent[id] = c}
  IN  [approved |-> (mine \cap r.approvals) \ r.rejections,
       rejected |-> mine \cap r.rejections]

-----------------------------------------------------------------------------
(* What becomes of the pending calls when the tools step runs.             *)

\* An interrupt raised inside a call stands for that call.
Flattened(r) == {IF id \in r.nested THEN parent[id] ELSE id : id \in r.pending}

Declined(r) == Flattened(r) \cap r.rejections
Undecided(r) == Flattened(r) \ (r.rejections \cup r.approvals)

\* Mutant: not having been rejected is enough.
Cleared_Unapproved(r) == Flattened(r) \ r.rejections

Cleared(r) == (Flattened(r) \cap r.approvals) \ r.rejections

findTool(a, c) == owner[c] = a
Executable(r, a) == {c \in Cleared(r) \ Transfers : findTool(a, c)}

NotFound(r, a) == {c \in Cleared(r) \ Transfers : ~findTool(a, c)}
Transferring(r) == Cleared(r) \cap Transfers
TransferTargets(r, a) == {transfer[c] : c \in Transferring(r)} \cap handoffs[a]

\* Mutant: whether the tool needs approval is not asked.
partitionByApproval_Unasked(a, calls) == [needsApproval |-> {}, immediate |-> calls]

partitionByApproval(a, calls) ==
  LET needs == {c \in calls : findTool(a, c) /\ c \in Gated}
  IN  [needsApproval |-> needs, immediate |-> calls \ needs]

\* What a model reply that asks for tools does to the run state.
RequestTools(r, a, calls) ==
  LET part == partitionByApproval(a, calls)
  IN  IF part.immediate # {}
      THEN [TransitionToExecuteTools(r, part.immediate) EXCEPT
              !.approvals = @ \cup part.immediate,
              !.awaiting  = IF part.needsApproval # {} THEN part.needsApproval ELSE @]
      ELSE TransitionToAwaitApproval(r, part.needsApproval)

\* The ids a call's tool may interrupt the run with.
Raises(c) == {id \in Inner : parent[id] = c} \cup ({c} \cap Interrupting)

\* Mutant: a transfer is taken for done and gets no output.
Answered_NoTransfer(r, a) ==
  Declined(r) \cup NotFound(r, a) \cup {c \in batch : Raises(c) \cap raised = {}}

\* The calls that get an output when the tools step has run.
Answered(r, a) ==
  Declined(r) \cup NotFound(r, a) \cup Transferring(r)
    \cup {c \in batch : Raises(c) \cap raised = {}}

\* Mutant: back to the model even if calls await the user.
AfterTools_NoPause(r) ==
  TransitionToLLM(ClearPendingTools(
    ProcessInterrupts([r EXCEPT !.awaiting = @ \cup Undecided(r)], raised)))

\* The run state after the tools step: interrupts recorded, then the run
\* pauses for whatever still awaits the user or goes back to the model.
AfterTools(r) ==
  LET r1 == ProcessInterrupts([r EXCEPT !.awaiting = @ \cup Undecided(r)], raised)
      r2 == ClearPendingTools(r1)
  IN  IF r2.awaiting # {} THEN PromoteAwaitingToApproval(r2) ELSE TransitionToLLM(r2)

\* The calls a stop cancels: those not executed and those awaiting approval.
CancelledCalls(r) == r.pending \cup r.awaiting

\* Mutant: sticky handoff is not consulted.
EntryAgent_Root(r) == Root

\* The agent whose loop a top-level Execute enters.
EntryAgent(r) == IF Sticky THEN r.last ELSE Root

-----------------------------------------------------------------------------
Init ==
  /\ pc = "off"
  /\ agent = Root
  /\ rs = TransitionToComplete(NewRunState(Root))
  /\ mem = EmptyHistory
  /\ disk = [hist |-> EmptyHistory, rs |-> TransitionToComplete(NewRunState(Root))]
  /\ batch = {} /\ running = {} /\ raised = {}
  /\ queue = NoInput
  /\ stopped = FALSE
  /\ client = [sent |-> {}, shown |-> {}, granted |-> {},
               emitted |-> {}, ran |-> {}]

-----------------------------------------------------------------------------
(* Clients.                                                                *)

\* A message is sent once; only what a pause has shown is ever resolved.
Sendable ==
  [msgs : SUBSET (Msgs \ client.sent), approve : SUBSET client.shown,
   reject : SUBSET client.shown] \ {NoInput}

Submit(b) ==
  client' = [client EXCEPT !.sent    = @ \cup b.msgs,
                           !.granted = @ \cup b.approve]

\* Execute on the thread: load the last row, continue the paused run or open a
\* fresh one, add the input, and enter the root agent's loop or, with sticky
\* handoff, the loop of the agent that answered last.
Execute(b) ==
  /\ pc = "off"
  /\ rs' = processIncoming(NewRun(disk.rs), b, FALSE)
  /\ mem' = [disk.hist EXCEPT !.msgs = @ \cup b.msgs]
  /\ agent' = EntryAgent(disk.rs)
  /\ queue' = NoInput
  /\ stopped' = FALSE
  /\ pc' = "top"
  /\ Submit(b)
  /\ UNCHANGED <<disk, execVars>>

\* AgentHandle.EnqueueMessage, or an EnqueueOrStart that found the run live.
EnqueueMessage(b) ==
  /\ pc # "off"
  /\ queue' = [msgs    |-> queue.msgs \cup b.msgs,
               approve |-> queue.approve \cup b.approve,
               reject  |-> queue.reject \cup b.reject]
  /\ Submit(b)
  /\ UNCHANGED <<pc, agent, rs, mem, disk, execVars, stopped>>

\* AgentHandle.Stop.
Stop ==
  /\ pc # "off"
  /\ stopped' = TRUE
  /\ UNCHANGED <<pc, agent, rs, mem, disk, execVars, queue, client>>

-----------------------------------------------------------------------------
(* The loop.                                                               *)

InBudget == rs.iter < MaxLoops[agent]

\* Top of the loop: fold the queue into the run, unless the run is complete.
\* An error from the broker is ignored and leaves the queue for later.
DrainMessages ==
  /\ pc = "top"
  /\ InBudget
  /\ pc' = "stop_check"
  /\ \/ /\ ~IsComplete(rs)
        /\ rs' = processIncoming(rs, queue, TRUE)
        /\ queue' = NoInput
     \/ /\ IsComplete(rs) \/ BrokerErrors
        /\ UNCHANGED <<rs, queue>>
  /\ UNCHANGED <<agent, mem, disk, execVars, stopped, client>>

\* A stopped run gives every call it has not executed a cancelled result and
\* completes.
CancelRun ==
  /\ pc = "stop_check"
  /\ stopped /\ ~IsComplete(rs)
  /\ mem' = AddOutputs(mem, CancelledCalls(rs))
  /\ rs' = TransitionToComplete([rs EXCEPT !.awaiting = {}])
  /\ pc' = "dispatch"
  /\ UNCHANGED <<agent, disk, execVars, queue, stopped, client>>

\* Mutant: the stop flag is never looked at.
KeepRunning_IgnoresStop ==
  /\ pc = "stop_check"
  /\ pc' = "dispatch"
  /\ UNCHANGED <<agent, rs, mem, disk, execVars, queue, stopped, client>>

KeepRunning ==
  /\ pc = "stop_check"
  /\ ~stopped \/ IsComplete(rs) \/ BrokerErrors
  /\ pc' = "dispatch"
  /\ UNCHANGED <<agent, rs, mem, disk, execVars, queue, stopped, client>>

\* StepCallLLM up to the model: queued messages join the conversation.
CallModel ==
  /\ pc = "dispatch"
  /\ rs.step = "call_llm"
  /\ mem' = [mem EXCEPT !.msgs = @ \cup rs.queued]
  /\ rs' = GetMessages(rs, agent)
  /\ pc' = "model"
  /\ UNCHANGED <<agent, disk, execVars, queue, stopped, client>>

\* A stop during the model call drops the reply and goes back to the top.
ModelCallStopped ==
  /\ pc = "model"
  /\ stopped
  /\ pc' = "top"
  /\ UNCHANGED <<agent, rs, mem, disk, execVars, queue, stopped, client>>

\* The model answers, asking for the given calls under fresh ids.
ModelReplies(calls) ==
  /\ pc = "model"
  /\ calls \cap client.emitted = {}
  /\ mem' = [mem EXCEPT !.calls = @ \cup calls]
  /\ rs' = IF SingleTurn \/ calls = {} THEN TransitionToComplete(rs)
           ELSE RequestTools(rs, agent, calls)
  /\ client' = [client EXCEPT !.emitted = @ \cup calls]
  /\ pc' = "top"
  /\ UNCHANGED <<agent, disk, execVars, queue, stopped>>

\* StepExecuteTools up to ExecuteAll.
RunTools ==
  /\ pc = "dispatch"
  /\ rs.step = "execute_tools"
  /\ batch' = Executable(rs, agent)
  /\ running' = batch'
  /\ raised' = {}
  /\ client' = [client EXCEPT !.ran = @ \cup batch']
  /\ pc' = "tools"
  /\ UNCHANGED <<agent, rs, mem, disk, queue, stopped>>

\* A tool reports: with no interrupts (a response, an error or a cancellation,
\* each of which becomes one output) or with some of those it can raise.
ToolReturns(c, ids) ==
  /\ c \in running
  /\ ids \subseteq Raises(c)
  /\ running' = running \ {c}
  /\ raised' = raised \cup ids
  /\ UNCHANGED <<pc, agent, rs, mem, disk, batch, queue, stopped, client>>

\* The rest of StepExecuteTools: outputs, interrupts, the next step, and the
\* handoff last asked for, whose agent carries on with the same run.
RecordResults ==
  /\ pc = "tools"
  /\ running = {}
  /\ mem' = AddOutputs(mem, Answered(rs, agent))
  /\ rs' = AfterTools(rs)
  /\ agent' \in IF TransferTargets(rs, agent) # {}
                THEN TransferTargets(rs, agent) ELSE {agent}
  /\ batch' = {} /\ raised' = {}
  /\ pc' = "top"
  /\ UNCHANGED <<disk, running, queue, stopped, client>>

SaveMessages == disk' = [hist |-> mem, rs |-> rs]

\* StepAwaitApproval: save, report the interrupts, return.
Pause ==
  /\ pc = "dispatch"
  /\ rs.step = "await_approval"
  /\ SaveMessages
  /\ client' = [client EXCEPT !.shown = @ \cup rs.pending]
  /\ pc' = "closing"
  /\ UNCHANGED <<agent, rs, mem, execVars, queue, stopped>>

\* StepComplete: save, report, return.
Complete ==
  /\ pc = "dispatch"
  /\ IsComplete(rs)
  /\ SaveMessages
  /\ pc' = "closing"
  /\ UNCHANGED <<agent, rs, mem, execVars, queue, stopped, client>>

\* ExecuteLocal returns and its deferred Close ends the stream.
Close ==
  /\ pc = "closing"
  /\ pc' = "off"
  /\ UNCHANGED <<agent, rs, mem, disk, execVars, queue, stopped, client>>

\* The run is gone without saving: only the row it started from remains.
Abandon ==
  /\ pc' = "off"
  /\ rs' = disk.rs
  /\ mem' = disk.hist
  /\ batch' = {} /\ running' = {} /\ raised' = {}
  /\ UNCHANGED <<agent, disk, queue, stopped, client>>

MaxLoopsExceeded ==
  /\ pc = "top"
  /\ ~InBudget
  /\ Abandon

\* Every other error return of the loop, and the death of the process.
FailRun ==
  /\ Faults
  /\ pc \notin {"off", "closing"}
  /\ Abandon

-----------------------------------------------------------------------------
Client == (\E b \in Sendable : Execute(b) \/ EnqueueMessage(b)) \/ Stop

Loop ==
  \/ DrainMessages \/ CancelRun \/ KeepRunning
  \/ CallModel \/ ModelCallStopped \/ (\E calls \in SUBSET Calls : ModelReplies(calls))
  \/ RunTools \/ RecordResults
  \/ \E c \in Calls : \E ids \in SUBSET Raises(c) : ToolReturns(c, ids)
  \/ Pause \/ Complete \/ Close \/ MaxLoopsExceeded

Next == Client \/ Loop \/ FailRun

Spec == Init /\ [][Next]_vars

\* A started run is scheduled, its provider answers and its tools return;
\* nothing obliges a client to act.
FairSpec == Spec /\ WF_vars(Loop)

-----------------------------------------------------------------------------
(* Properties.                                                             *)

\* Every variable holds what the code's types allow.
TypeOK ==
  /\ pc \in {"off", "top", "stop_check", "dispatch", "model", "tools", "closing"}
  /\ agent \in Agents
  /\ rs \in RunStates
  /\ mem \in Histories
  /\ disk \in [hist : Histories, rs : RunStates]
  /\ batch \in SUBSET Calls
  /\ running \in SUBSET batch
  /\ raised \in SUBSET Ids
  /\ queue \in Inputs
  /\ stopped \in BOOLEAN
  /\ client \in Clients

\* A tool that needs approval runs only if a user approved that very call,
\* although immediate calls share the approval list, the list survives pauses,
\* and the agent that runs a call need not be the one that sorted it.
GatedNeedsGrant == batch \cap Gated \subseteq client.granted

\* Whenever the model is called, every function call in the prompt has exactly
\* one output and no output stands alone: the provider's invariant (agent.go,
\* the comment on the stop check).
PromptPaired == pc = "model" => Paired(mem)

\* The calls a stop gave up through the interrupts inside them: the cancelled
\* outputs went to the inner ids, and the calls themselves have none.
GivenUp(h) == {parent[id] : id \in {i \in Inner : h.outs[i] > 0}}

\* A saved pause can be continued: it leaves unanswered exactly the calls its
\* pending list leads back to, so resolving the list resolves the run
\* (agent.go, StepAwaitApproval and StepExecuteTools).
PausedRowResumable ==
  ~IsComplete(disk.rs) =>
    /\ disk.rs.step = "await_approval"
    /\ Flattened(disk.rs) = Unanswered(disk.hist) \ GivenUp(disk.hist)
    /\ Flattened(disk.rs) # {}

\* A completed run leaves nothing unanswered, stopped or not (agent.go, the stop
\* check: a synthetic cancelled result for each call it never got to execute,
\* so history stays consistent).
CompletedRowPaired == IsComplete(disk.rs) => Paired(disk.hist)

\* A call that has its output, in memory or in the saved row, is never handed
\* to a tool again, whatever approvals arrive late or twice.
AnsweredNeverRerun ==
  \A c \in batch : c \in mem.calls /\ mem.outs[c] = 0 /\ disk.hist.outs[c] = 0

\* Without faults and within the loop budget, a tool that is started again is
\* one that paused and resumes.
RestartIsResume ==
  [][pc = "dispatch" /\ pc' = "tools" => batch' \cap client.ran \subseteq rs.paused]_vars

\* With sticky handoff, a call its user approved is started, unless the run is
\* stopped or the user also rejects it: it is resumed in the agent that has
\* its tool.
ApprovedCallStarts ==
  \A c \in Gated :
    (/\ pc = "top"
     /\ c \in rs.pending \cap rs.approvals \cap client.granted
     /\ c \notin rs.rejections)
      ~> (c \in client.ran \/ stopped \/ c \in rs.rejections)

\* A run ends, provided resolutions do not keep arriving for ever: a paused
\* run that is told of one goes round the loop without using up its budget.
RunEnds == <>[](Resolved(queue) = {}) => (pc # "off" ~> pc = "off")

\* A resumed tool is told that an interrupt from inside it, or its own call where
\* that needs approval, was approved only if a user did: what nobody has decided
\* is left out (agentstate, CollectNestedApprovalsForParent).  A call that needs
\* no approval is told of one for having been let through.
ToldOnlyGranted ==
  \A c \in batch \cap rs.paused :
    CollectNestedApprovalsForParent(rs, c).approved \cap (Inner \cup Gated) \subseteq client.granted

-----------------------------------------------------------------------------
(* The inductive invariant.  GatedNeedsGrant alone is not inductive: it     *)
(* says nothing of the approval list a batch is chosen from.  That list     *)
(* holds, beside what users approved, the calls that were let through when  *)
(* the model asked for them; a gated call among those has its tool in       *)
(* another agent, and must never reach a step that agent takes.             *)

Parents(ids) == {parent[id] : id \in ids}

\* Gated calls on a run's approval list that no user approved.  These are
\* parameterised by the record cl, the value of client, so that the lemmas
\* about them hold of any two states.
AutoApproved(r, cl) == (r.approvals \cap Gated) \ cl.granted

NestedKnown(r) == (r.pending \cup r.awaiting) \cap Inner \subseteq r.nested

ApprovalsExplained(r, cl) == r.approvals \ cl.granted \subseteq cl.emitted

\* What waits for the user has not been let through already.
AwaitingIsOpen(r, cl) ==
  /\ Parents(r.awaiting) \cap AutoApproved(r, cl) = {}
  /\ r.step = "await_approval" => Parents(r.pending) \cap AutoApproved(r, cl) = {}

IdleListsEmpty(r) ==
  /\ r.step = "call_llm" => r.pending = {} /\ r.awaiting = {}
  /\ r.step = "complete" => r.pending = {} /\ r.awaiting = {}

RunInv(r, cl) ==
  /\ NestedKnown(r)
  /\ ApprovalsExplained(r, cl)
  /\ AwaitingIsOpen(r, cl)
  /\ IdleListsEmpty(r)

\* What is about to run without a user's approval has its tool elsewhere.
LetThroughIsForeign ==
  rs.step = "execute_tools" =>
    \A c \in Parents(rs.pending) \cap AutoApproved(rs, client) : owner[c] # agent

StepMatchesPc ==
  /\ pc = "model" => rs.step = "call_llm"
  /\ pc = "tools" => rs.step = "execute_tools"
  /\ disk.rs.step \in {"await_approval", "complete"}

BatchInv ==
  /\ GatedNeedsGrant
  /\ Parents(raised) \subseteq batch
  /\ queue.approve \subseteq client.granted

IInv ==
  /\ TypeOK
  /\ RunInv(rs, client) /\ RunInv(disk.rs, client)
  /\ LetThroughIsForeign
  /\ StepMatchesPc
  /\ BatchInv

=============================================================================
