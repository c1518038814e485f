--------------------------- MODULE AgentRunProofs ---------------------------
(***************************************************************************)
(* Proofs about AgentRun, for any agents, calls, handoffs and loop         *)
(* budgets: its types, that no tool that needs approval runs without one,  *)
(* that a resumed call is told only of approvals a user gave, and that     *)
(* calls and outputs stay paired.                                          *)
(***************************************************************************)
EXTENDS AgentRun, TLAPS

-----------------------------------------------------------------------------
(* Lemmas about one run state.                                             *)

\* The parents of a set of ids are top-level calls.
LEMMA ParentsAreCalls ==
  ASSUME NEW S \in SUBSET Ids
  PROVE  Parents(S) \subseteq Calls
BY CallsAssumption DEF Parents, Ids

\* A set of top-level calls is its own set of parents.
LEMMA ParentsOfCalls ==
  ASSUME NEW S \in SUBSET Calls
  PROVE  Parents(S) = S
BY CallsAssumption DEF Parents, Ids

\* When every inner id on the pending list is known to be nested, flattening
\* the list replaces each id by the call it belongs to.
LEMMA FlattenedIsParents ==
  ASSUME NEW r \in RunStates, NestedKnown(r)
  PROVE  Flattened(r) = Parents(r.pending)
<1>1. r.pending \subseteq Ids
  BY DEF RunStates
<1>2. ASSUME NEW id \in r.pending
      PROVE  (IF id \in r.nested THEN parent[id] ELSE id) = parent[id]
  BY <1>1, CallsAssumption DEF NestedKnown, Ids
<1>. QED
  BY <1>2 DEF Flattened, Parents

\* A run state stays sound as users approve more and models emit more.
LEMMA RunInvStable ==
  ASSUME NEW r \in RunStates, NEW c1 \in Clients, NEW c2 \in Clients,
         RunInv(r, c1),
         c1.granted \subseteq c2.granted, c1.emitted \subseteq c2.emitted
  PROVE  RunInv(r, c2)
BY DEF RunInv, ApprovalsExplained, AwaitingIsOpen, AutoApproved, RunStates, Clients

\* Draining input extends the approval list, and starts a paused run on its
\* tools; it leaves the lists of calls alone.
LEMMA IncomingFields ==
  ASSUME NEW r \in RunStates, NEW b \in Inputs, NEW q \in BOOLEAN
  PROVE  /\ processIncoming(r, b, q) \in RunStates
         /\ processIncoming(r, b, q).pending = r.pending
         /\ processIncoming(r, b, q).awaiting = r.awaiting
         /\ processIncoming(r, b, q).nested = r.nested
         /\ processIncoming(r, b, q).approvals = r.approvals \cup b.approve
         /\ \/ processIncoming(r, b, q).step = r.step
            \/ r.step = "await_approval" /\ processIncoming(r, b, q).step = "execute_tools"
BY DEF processIncoming, RunStates, Inputs, Steps

\* When every approval drained was given by a user, the run state stays sound
\* and no gated call is let through.
LEMMA IncomingInv ==
  ASSUME NEW r \in RunStates, NEW n \in RunStates, NEW cl \in Clients, NEW given,
         RunInv(r, cl), given \subseteq cl.granted,
         n.pending = r.pending, n.awaiting = r.awaiting, n.nested = r.nested,
         n.approvals = r.approvals \cup given,
         n.step = r.step \/ (r.step = "await_approval" /\ n.step = "execute_tools")
  PROVE  RunInv(n, cl) /\ AutoApproved(n, cl) = AutoApproved(r, cl)
<1>1. AutoApproved(n, cl) = AutoApproved(r, cl)
  BY DEF AutoApproved
<1>. QED
  BY <1>1 DEF RunInv, NestedKnown, ApprovalsExplained, AwaitingIsOpen, IdleListsEmpty

\* A fresh run state is sound.
LEMMA NewRunInv ==
  ASSUME NEW a \in Agents, NEW cl \in Clients
  PROVE  NewRunState(a) \in RunStates /\ RunInv(NewRunState(a), cl)
BY DEF NewRunState, RunStates, Steps, RunInv, NestedKnown, ApprovalsExplained,
       AwaitingIsOpen, AutoApproved, IdleListsEmpty, Parents

\* Opening a run on a saved row gives a sound run state that is about to call
\* the model or awaits the user, as the row did.
LEMMA NewRunStateInv ==
  ASSUME NEW r \in RunStates, NEW cl \in Clients, RunInv(r, cl),
         r.step \in {"await_approval", "complete"}
  PROVE  /\ NewRun(r) \in RunStates
         /\ RunInv(NewRun(r), cl)
         /\ NewRun(r).step \in {"call_llm", "await_approval"}
<1>1. CASE IsComplete(r)
  <2>1. NewRun(r) = NewRunState(r.last) /\ r.last \in Agents
    BY <1>1 DEF NewRun, RunStates
  <2>. QED
    BY <2>1, NewRunInv DEF NewRunState
<1>2. CASE ~IsComplete(r)
  BY <1>2 DEF NewRun, IsComplete
<1>. QED
  BY <1>1, <1>2

\* Completing a run, with or without cancelling what awaits, keeps it sound.
LEMMA CompleteInv ==
  ASSUME NEW r \in RunStates, NEW cl \in Clients, RunInv(r, cl)
  PROVE  LET n == TransitionToComplete([r EXCEPT !.awaiting = {}]) IN
         /\ n \in RunStates
         /\ RunInv(n, cl)
         /\ n.step = "complete"
<1>. DEFINE n == TransitionToComplete([r EXCEPT !.awaiting = {}])
<1>1. n \in RunStates
  BY DEF TransitionToComplete, RunStates, Steps
<1>2. n.step = "complete" /\ n.pending = {} /\ n.awaiting = {} /\ n.approvals = r.approvals
  BY DEF TransitionToComplete, RunStates
<1>3. RunInv(n, cl)
  BY <1>2 DEF RunInv, NestedKnown, ApprovalsExplained, AwaitingIsOpen, AutoApproved,
              IdleListsEmpty, Parents
<1>. QED
  BY <1>1, <1>2, <1>3

\* A reply that asks for fresh calls sorts them soundly: what it lets through
\* without a user's approval has its tool in another agent.
LEMMA RequestToolsInv ==
  ASSUME NEW r \in RunStates, NEW cl \in Clients, NEW a \in Agents,
         NEW calls \in SUBSET Calls, calls # {},
         RunInv(r, cl), r.step = "call_llm", calls \cap cl.emitted = {},
         NEW n, n = RequestTools(r, a, calls),
         NEW cn, cn = [cl EXCEPT !.emitted = @ \cup calls]
  PROVE  /\ n \in RunStates
         /\ RunInv(n, cn)
         /\ n.step = "execute_tools" =>
              \A c \in Parents(n.pending) \cap AutoApproved(n, cn) : owner[c] # a
<1>. DEFINE needs == {c \in calls : findTool(a, c) /\ c \in Gated}
            now == calls \ needs
<1>1. /\ cn.emitted = cl.emitted \cup calls
      /\ cn.granted = cl.granted
  BY DEF Clients
<1>2. /\ r.pending = {} /\ r.awaiting = {}
      /\ r.approvals \subseteq Ids
  BY DEF RunInv, IdleListsEmpty, RunStates
<1>3. \A c \in calls : c \in r.approvals => c \in cl.granted
  BY DEF RunInv, ApprovalsExplained
<1>4. Parents(needs) = needs /\ Parents(now) = now /\ Parents({}) = {}
  BY ParentsOfCalls
<1>5. CASE now # {}
  <2>1. /\ n.step = "execute_tools"
        /\ n.pending = now
        /\ n.approvals = r.approvals \cup now
        /\ n.awaiting = needs
        /\ n.nested = r.nested
    BY <1>2, <1>5 DEF RequestTools, partitionByApproval, TransitionToExecuteTools, RunStates
  <2>2. n \in RunStates
    BY <1>5 DEF RequestTools, partitionByApproval, TransitionToExecuteTools, RunStates, Steps, Ids
  <2>3. \A c \in now : c \in Gated => owner[c] # a
    BY DEF findTool
  <2>4. NestedKnown(n)
    BY <2>1, CallsAssumption DEF NestedKnown
  <2>5. ApprovalsExplained(n, cn)
    BY <2>1, <1>1 DEF RunInv, ApprovalsExplained
  <2>6. AwaitingIsOpen(n, cn)
    BY <2>1, <1>1, <1>3, <1>4 DEF AwaitingIsOpen, AutoApproved
  <2>7. IdleListsEmpty(n)
    BY <2>1 DEF IdleListsEmpty
  <2>8. \A c \in Parents(n.pending) \cap AutoApproved(n, cn) : owner[c] # a
    BY <2>1, <2>3, <1>4 DEF AutoApproved
  <2>. QED
    BY <2>1, <2>2, <2>4, <2>5, <2>6, <2>7, <2>8 DEF RunInv
<1>6. CASE now = {}
  <2>1. /\ n.step = "await_approval"
        /\ n.pending = needs
        /\ n.approvals = r.approvals
        /\ n.awaiting = {}
        /\ n.nested = r.nested
    BY <1>2, <1>6 DEF RequestTools, partitionByApproval, TransitionToAwaitApproval, RunStates
  <2>2. n \in RunStates
    BY <1>6 DEF RequestTools, partitionByApproval, TransitionToAwaitApproval, RunStates, Steps, Ids
  <2>3. NestedKnown(n)
    BY <2>1, CallsAssumption DEF NestedKnown
  <2>4. ApprovalsExplained(n, cn)
    BY <2>1, <1>1 DEF RunInv, ApprovalsExplained
  <2>5. AwaitingIsOpen(n, cn)
    BY <2>1, <1>1, <1>3, <1>4 DEF AwaitingIsOpen, AutoApproved
  <2>6. IdleListsEmpty(n)
    BY <2>1 DEF IdleListsEmpty
  <2>. QED
    BY <2>1, <2>2, <2>3, <2>4, <2>5, <2>6 DEF RunInv
<1>. QED
  BY <1>5, <1>6

\* Going back to the model changes the step and the loop count only.
LEMMA TransitionToLLMType ==
  ASSUME NEW r \in RunStates
  PROVE  LET n == TransitionToLLM(r) IN
         /\ n \in RunStates
         /\ n.step = "call_llm"
         /\ n.pending = r.pending /\ n.awaiting = r.awaiting
         /\ n.approvals = r.approvals /\ n.nested = r.nested
<1>1. r.iter + 1 \in Nat /\ "call_llm" \in Steps
  BY DEF RunStates, Steps
<1>. QED
  BY <1>1 DEF TransitionToLLM, RunStates

\* Adding outputs gives a history.
LEMMA AddOutputsType ==
  ASSUME NEW h \in Histories, NEW ids
  PROVE  AddOutputs(h, ids) \in Histories
BY DEF AddOutputs, Histories

\* After a tools step nothing on the lists has been let through: what pauses
\* was neither approved nor rejected, or interrupted a call that had run.
LEMMA AfterToolsInv ==
  ASSUME IInv, rs.step = "execute_tools"
  PROVE  /\ AfterTools(rs) \in RunStates
         /\ RunInv(AfterTools(rs), client)
         /\ AfterTools(rs).step \in {"call_llm", "await_approval"}
<1>. DEFINE n == AfterTools(rs)
            waits == (rs.awaiting \cup Undecided(rs)) \cup raised
<1>1. /\ rs \in RunStates /\ raised \subseteq Ids /\ batch \subseteq Calls
      /\ client \in Clients
      /\ RunInv(rs, client)
      /\ batch \cap Gated \subseteq client.granted
      /\ Parents(raised) \subseteq batch
  BY DEF IInv, TypeOK, BatchInv, GatedNeedsGrant
<1>2. Flattened(rs) = Parents(rs.pending) /\ Flattened(rs) \subseteq Calls
  BY <1>1, FlattenedIsParents, ParentsAreCalls DEF RunInv, RunStates
<1>3. /\ Undecided(rs) \subseteq Calls
      /\ Undecided(rs) \cap rs.approvals = {}
  BY <1>2 DEF Undecided
<1>4. waits \subseteq Ids
  BY <1>1, <1>3 DEF RunStates, Ids
<1>5. /\ n \in RunStates
      /\ n.approvals = rs.approvals
      /\ n.nested = rs.nested \cup raised
      /\ waits # {} => n.step = "await_approval" /\ n.pending = waits /\ n.awaiting = {}
      /\ waits = {} => n.step = "call_llm" /\ n.pending = {} /\ n.awaiting = {}
  <2>. DEFINE r2 == ClearPendingTools(ProcessInterrupts(
                      [rs EXCEPT !.awaiting = @ \cup Undecided(rs)], raised))
  <2>1. Parents(raised) \subseteq Calls
    BY <1>1, ParentsAreCalls
  <2>2. /\ r2 \in RunStates
        /\ r2.approvals = rs.approvals
        /\ r2.nested = rs.nested \cup raised
        /\ r2.pending = {}
        /\ r2.awaiting = waits
    BY <1>1, <1>4, <2>1 DEF ProcessInterrupts, ClearPendingTools, RunStates, Parents
  <2>3. n = IF r2.awaiting # {} THEN PromoteAwaitingToApproval(r2) ELSE TransitionToLLM(r2)
    BY DEF AfterTools
  <2>. HIDE DEF r2, n
  <2>4. CASE waits # {}
    BY <2>2, <2>3, <2>4 DEF PromoteAwaitingToApproval, RunStates, Steps
  <2>5. CASE waits = {}
    BY <2>2, <2>3, <2>5, TransitionToLLMType
  <2>. QED
    BY <2>4, <2>5
<1>6. AutoApproved(n, client) = AutoApproved(rs, client)
  BY <1>5 DEF AutoApproved
<1>7. Parents(waits) \cap AutoApproved(rs, client) = {}
  <2>1. Parents(waits) = (Parents(rs.awaiting) \cup Undecided(rs)) \cup Parents(raised)
    BY <1>3, ParentsOfCalls DEF Parents
  <2>2. Parents(rs.awaiting) \cap AutoApproved(rs, client) = {}
    BY <1>1 DEF RunInv, AwaitingIsOpen
  <2>3. Undecided(rs) \cap AutoApproved(rs, client) = {}
    BY <1>3 DEF AutoApproved
  <2>4. Parents(raised) \cap AutoApproved(rs, client) = {}
    BY <1>1 DEF AutoApproved
  <2>. QED
    BY <2>1, <2>2, <2>3, <2>4
<1>8. waits \cap Inner \subseteq n.nested
  BY <1>1, <1>3, <1>5, CallsAssumption DEF RunInv, NestedKnown
<1>9. RunInv(n, client)
  <2>1. NestedKnown(n)
    BY <1>5, <1>8 DEF NestedKnown
  <2>2. ApprovalsExplained(n, client)
    BY <1>1, <1>5 DEF RunInv, ApprovalsExplained
  <2>3. AwaitingIsOpen(n, client)
    BY <1>5, <1>6, <1>7 DEF AwaitingIsOpen, Parents
  <2>4. IdleListsEmpty(n)
    BY <1>5 DEF IdleListsEmpty
  <2>. QED
    BY <2>1, <2>2, <2>3, <2>4 DEF RunInv
<1>. QED
  BY <1>5, <1>9

-----------------------------------------------------------------------------
(* The inductive invariant holds initially.                                *)

LEMMA InitIInv == Init => IInv
<1>. SUFFICES ASSUME Init PROVE IInv
  OBVIOUS
<1>1. client \in Clients
  BY DEF Init, Clients
<1>2. /\ NewRunState(Root) \in RunStates
      /\ RunInv(NewRunState(Root), client)
  BY <1>1, NewRunInv, HandoffAssumption
<1>a. [NewRunState(Root) EXCEPT !.awaiting = {}] = NewRunState(Root)
  BY DEF NewRunState
<1>3. /\ rs \in RunStates /\ RunInv(rs, client) /\ rs.step = "complete"
      /\ disk.rs = rs
  BY <1>1, <1>2, <1>a, CompleteInv DEF Init
<1>4. TypeOK
  <2>1. EmptyHistory \in Histories
    BY DEF EmptyHistory, Histories
  <2>2. NoInput \in Inputs
    BY DEF NoInput, Inputs
  <2>. QED
    BY <1>1, <1>3, <2>1, <2>2, HandoffAssumption DEF Init, TypeOK
<1>5. LetThroughIsForeign /\ StepMatchesPc
  BY <1>3 DEF Init, LetThroughIsForeign, StepMatchesPc
<1>6. BatchInv
  BY DEF Init, BatchInv, GatedNeedsGrant, Parents, NoInput
<1>. QED
  BY <1>3, <1>4, <1>5, <1>6 DEF IInv

-----------------------------------------------------------------------------
(* Every step keeps it.                                                    *)

\* What a client sends is an input, and only adds to what was sent and granted.
LEMMA SubmitStep ==
  ASSUME client \in Clients, NEW b \in Sendable, Submit(b)
  PROVE  /\ b \in Inputs
         /\ client' \in Clients
         /\ client'.granted = client.granted \cup b.approve
         /\ client'.emitted = client.emitted
<1>1. b \in Inputs
  BY DEF Sendable, Inputs, Clients
<1>. QED
  BY <1>1 DEF Submit, Inputs, Clients

\* Starting or resuming a run.
LEMMA ExecuteStep ==
  ASSUME IInv, NEW b \in Sendable, Execute(b)
  PROVE  IInv'
<1>1. /\ TypeOK
      /\ RunInv(disk.rs, client)
      /\ disk.rs \in RunStates /\ disk.hist \in Histories
      /\ disk.rs.step \in {"await_approval", "complete"}
      /\ client \in Clients
      /\ BatchInv
  BY DEF IInv, TypeOK, StepMatchesPc
<1>2. /\ b \in Inputs
      /\ client' \in Clients
      /\ client'.granted = client.granted \cup b.approve
      /\ client'.emitted = client.emitted
  BY <1>1, SubmitStep DEF Execute
<1>. DEFINE r == NewRun(disk.rs)
<1>3. RunInv(disk.rs, client')
  BY <1>1, <1>2, RunInvStable
<1>4. /\ r \in RunStates
      /\ RunInv(r, client')
      /\ r.step \in {"call_llm", "await_approval"}
  BY <1>1, <1>2, <1>3, NewRunStateInv
<1>5. rs' = processIncoming(r, b, FALSE)
  BY DEF Execute
<1>. HIDE DEF r
<1>a. /\ rs' \in RunStates
      /\ rs'.pending = r.pending /\ rs'.awaiting = r.awaiting /\ rs'.nested = r.nested
      /\ rs'.approvals = r.approvals \cup b.approve
      /\ rs'.step = r.step \/ (r.step = "await_approval" /\ rs'.step = "execute_tools")
  BY <1>2, <1>4, <1>5, IncomingFields, FALSE \in BOOLEAN
<1>6. RunInv(rs', client') /\ AutoApproved(rs', client') = AutoApproved(r, client')
  BY <1>2, <1>4, <1>a, b.approve \subseteq client'.granted, IncomingInv
<1>7. TypeOK'
  <2>1. mem' \in Histories
    BY <1>1, <1>2 DEF Execute, Histories, Inputs
  <2>2. agent' \in Agents
    BY <1>1, HandoffAssumption DEF Execute, EntryAgent, RunStates
  <2>3. NoInput \in Inputs
    BY DEF NoInput, Inputs
  <2>. QED
    BY <1>1, <1>2, <1>a, <2>1, <2>2, <2>3 DEF Execute, execVars, TypeOK
<1>8. LetThroughIsForeign'
  BY <1>4, <1>6, <1>a DEF LetThroughIsForeign, RunInv, AwaitingIsOpen
<1>9. StepMatchesPc'
  BY <1>1 DEF Execute, StepMatchesPc
<1>10. BatchInv'
  BY <1>1, <1>2 DEF Execute, execVars, BatchInv, GatedNeedsGrant, Parents, NoInput
<1>11. RunInv(disk.rs, client)'
  BY <1>3 DEF Execute
<1>. QED
  BY <1>6, <1>7, <1>8, <1>9, <1>10, <1>11 DEF IInv

\* Steering a run.
LEMMA EnqueueStep ==
  ASSUME IInv, NEW b \in Sendable, EnqueueMessage(b)
  PROVE  IInv'
<1>1. /\ TypeOK
      /\ RunInv(rs, client) /\ RunInv(disk.rs, client)
      /\ rs \in RunStates /\ disk.rs \in RunStates
      /\ client \in Clients
      /\ queue \in Inputs
  BY DEF IInv, TypeOK
<1>2. /\ b \in Inputs
      /\ client' \in Clients
      /\ client'.granted = client.granted \cup b.approve
      /\ client'.emitted = client.emitted
  BY <1>1, SubmitStep DEF EnqueueMessage
<1>3. UNCHANGED <<pc, agent, rs, mem, disk, batch, running, raised, stopped>>
  BY DEF EnqueueMessage, execVars
<1>4. queue' \in Inputs /\ queue'.approve = queue.approve \cup b.approve
  BY <1>1, <1>2 DEF EnqueueMessage, Inputs
<1>5. RunInv(rs, client) ' /\ RunInv(disk.rs, client)'
  BY <1>1, <1>2, <1>3, RunInvStable
<1>6. TypeOK'
  BY <1>1, <1>2, <1>3, <1>4 DEF TypeOK
<1>7. LetThroughIsForeign'
  BY <1>2, <1>3 DEF IInv, LetThroughIsForeign, AutoApproved
<1>8. StepMatchesPc'
  BY <1>3 DEF IInv, StepMatchesPc
<1>9. BatchInv'
  BY <1>2, <1>3, <1>4 DEF IInv, BatchInv, GatedNeedsGrant, Parents
<1>. QED
  BY <1>5, <1>6, <1>7, <1>8, <1>9 DEF IInv

\* Folding the queue into the run.
LEMMA DrainStep ==
  ASSUME IInv, DrainMessages
  PROVE  IInv'
<1>1. /\ TypeOK
      /\ RunInv(rs, client) /\ RunInv(disk.rs, client)
      /\ rs \in RunStates
      /\ client \in Clients
      /\ queue \in Inputs /\ queue.approve \subseteq client.granted
  BY DEF IInv, TypeOK, BatchInv
<1>2. /\ UNCHANGED <<agent, mem, disk, batch, running, raised, stopped, client>>
      /\ pc' = "stop_check"
  BY DEF DrainMessages, execVars
<1>3. \/ rs' = processIncoming(rs, queue, TRUE) /\ queue' = NoInput
      \/ rs' = rs /\ queue' = queue
  BY DEF DrainMessages
<1>4. /\ rs' \in RunStates
      /\ RunInv(rs', client)
      /\ AutoApproved(rs', client) = AutoApproved(rs, client)
      /\ rs'.pending = rs.pending
      /\ rs'.step # rs.step => rs.step = "await_approval"
  <2>1. CASE rs' = processIncoming(rs, queue, TRUE)
    <3>1. /\ rs' \in RunStates
          /\ rs'.pending = rs.pending /\ rs'.awaiting = rs.awaiting /\ rs'.nested = rs.nested
          /\ rs'.approvals = rs.approvals \cup queue.approve
          /\ rs'.step = rs.step \/ (rs.step = "await_approval" /\ rs'.step = "execute_tools")
      BY <1>1, <2>1, IncomingFields, TRUE \in BOOLEAN
    <3>. QED
      BY <1>1, <3>1, IncomingInv
  <2>2. CASE rs' = rs
    BY <1>1, <2>2
  <2>. QED
    BY <1>3, <2>1, <2>2
<1>5. queue' \in Inputs /\ queue'.approve \subseteq client.granted
  <2>1. NoInput \in Inputs /\ NoInput.approve = {}
    BY DEF NoInput, Inputs
  <2>. QED
    BY <1>1, <1>3, <2>1
<1>6. TypeOK'
  BY <1>1, <1>2, <1>4, <1>5 DEF TypeOK
<1>7. LetThroughIsForeign'
  <2>1. CASE rs.step = "await_approval"
    BY <1>1, <1>2, <1>4, <2>1 DEF LetThroughIsForeign, RunInv, AwaitingIsOpen
  <2>2. CASE rs.step # "await_approval"
    BY <1>2, <1>4, <2>2 DEF IInv, LetThroughIsForeign
  <2>. QED
    BY <2>1, <2>2
<1>8. StepMatchesPc'
  BY <1>2 DEF IInv, StepMatchesPc
<1>9. BatchInv'
  BY <1>2, <1>5 DEF IInv, BatchInv, GatedNeedsGrant, Parents
<1>. QED
  BY <1>1, <1>2, <1>4, <1>6, <1>7, <1>8, <1>9 DEF IInv

\* Cancelling the run.
LEMMA CancelStep ==
  ASSUME IInv, CancelRun
  PROVE  IInv'
<1>1. /\ UNCHANGED <<agent, disk, batch, running, raised, queue, stopped, client>>
      /\ pc' = "dispatch"
      /\ rs' = TransitionToComplete([rs EXCEPT !.awaiting = {}])
  BY DEF CancelRun, execVars
<1>2. rs' \in RunStates /\ RunInv(rs', client) /\ rs'.step = "complete"
  BY <1>1, CompleteInv DEF IInv, TypeOK
<1>3. mem' \in Histories
  BY AddOutputsType DEF CancelRun, IInv, TypeOK
<1>4. TypeOK'
  BY <1>1, <1>2, <1>3 DEF IInv, TypeOK
<1>5. LetThroughIsForeign' /\ StepMatchesPc'
  BY <1>1, <1>2 DEF IInv, LetThroughIsForeign, StepMatchesPc
<1>6. BatchInv'
  BY <1>1 DEF IInv, BatchInv, GatedNeedsGrant, Parents
<1>. QED
  BY <1>1, <1>2, <1>4, <1>5, <1>6 DEF IInv

\* Steps that leave the run state, the batch, the queue and the clients alone,
\* and go neither into a model call nor into a tools step.
LEMMA QuietStep ==
  ASSUME IInv,
         UNCHANGED <<agent, rs, mem, disk, batch, running, raised, queue, client>>,
         stopped' \in BOOLEAN,
         pc' = pc \/ pc' \in {"top", "dispatch", "off"}
  PROVE  IInv'
<1>1. TypeOK'
  BY DEF IInv, TypeOK
<1>2. LetThroughIsForeign' /\ StepMatchesPc'
  BY DEF IInv, LetThroughIsForeign, StepMatchesPc
<1>3. BatchInv'
  BY DEF IInv, BatchInv, GatedNeedsGrant, Parents
<1>4. RunInv(rs, client)' /\ RunInv(disk.rs, client)'
  BY DEF IInv
<1>. QED
  BY <1>1, <1>2, <1>3, <1>4 DEF IInv

\* Calling the model.
LEMMA CallModelStep ==
  ASSUME IInv, CallModel
  PROVE  IInv'
<1>1. /\ UNCHANGED <<agent, disk, batch, running, raised, queue, stopped, client>>
      /\ pc' = "model"
      /\ rs.step = "call_llm"
      /\ rs' = GetMessages(rs, agent)
  BY DEF CallModel, execVars
<1>2. /\ rs' \in RunStates
      /\ rs'.step = "call_llm"
      /\ rs'.pending = rs.pending /\ rs'.awaiting = rs.awaiting
      /\ rs'.approvals = rs.approvals /\ rs'.nested = rs.nested
  BY <1>1 DEF IInv, TypeOK, GetMessages, RunStates
<1>3. RunInv(rs', client)
  BY <1>1, <1>2 DEF IInv, RunInv, NestedKnown, ApprovalsExplained, AwaitingIsOpen,
                    AutoApproved, IdleListsEmpty
<1>4. mem' \in Histories
  BY DEF CallModel, IInv, TypeOK, Histories, RunStates
<1>5. TypeOK'
  BY <1>1, <1>2, <1>4 DEF IInv, TypeOK
<1>6. LetThroughIsForeign' /\ StepMatchesPc'
  BY <1>1, <1>2 DEF IInv, LetThroughIsForeign, StepMatchesPc
<1>7. BatchInv'
  BY <1>1 DEF IInv, BatchInv, GatedNeedsGrant, Parents
<1>. QED
  BY <1>1, <1>3, <1>5, <1>6, <1>7 DEF IInv

\* The model's reply.
LEMMA ModelRepliesStep ==
  ASSUME IInv, NEW calls \in SUBSET Calls, ModelReplies(calls)
  PROVE  IInv'
<1>1. /\ UNCHANGED <<agent, disk, batch, running, raised, queue, stopped>>
      /\ pc = "model" /\ pc' = "top"
      /\ calls \cap client.emitted = {}
      /\ client' = [client EXCEPT !.emitted = @ \cup calls]
      /\ rs' = IF SingleTurn \/ calls = {} THEN TransitionToComplete(rs)
               ELSE RequestTools(rs, agent, calls)
  BY DEF ModelReplies, execVars
<1>2. /\ rs \in RunStates /\ disk.rs \in RunStates
      /\ client \in Clients /\ agent \in Agents
      /\ RunInv(rs, client) /\ RunInv(disk.rs, client)
      /\ rs.step = "call_llm"
  BY <1>1 DEF IInv, TypeOK, StepMatchesPc
<1>3. /\ client' \in Clients
      /\ client'.granted = client.granted
      /\ client'.emitted = client.emitted \cup calls
  BY <1>1, <1>2 DEF Clients
<1>4. RunInv(rs, client') /\ RunInv(disk.rs, client')
  BY <1>2, <1>3, RunInvStable
<1>5. /\ rs' \in RunStates
      /\ RunInv(rs', client')
      /\ rs'.step = "execute_tools" =>
           \A c \in Parents(rs'.pending) \cap AutoApproved(rs', client') : owner[c] # agent
  <2>1. CASE SingleTurn \/ calls = {}
    <3>1. [rs EXCEPT !.awaiting = {}] = rs
      BY <1>2 DEF RunInv, IdleListsEmpty, RunStates
    <3>2. rs' = TransitionToComplete(rs)
      BY <1>1, <2>1
    <3>. QED
      BY <1>2, <1>3, <1>4, <3>1, <3>2, CompleteInv
  <2>2. CASE ~SingleTurn /\ calls # {}
    <3>1. rs' = RequestTools(rs, agent, calls)
      BY <1>1, <2>2
    <3>. QED
      BY <1>1, <1>2, <2>2, <3>1, RequestToolsInv
  <2>. QED
    BY <2>1, <2>2
<1>6. mem' \in Histories
  BY DEF ModelReplies, IInv, TypeOK, Histories
<1>7. TypeOK'
  BY <1>1, <1>3, <1>5, <1>6 DEF IInv, TypeOK
<1>8. LetThroughIsForeign' /\ StepMatchesPc'
  BY <1>1, <1>5 DEF IInv, LetThroughIsForeign, StepMatchesPc
<1>9. BatchInv'
  BY <1>1, <1>3 DEF IInv, BatchInv, GatedNeedsGrant, Parents
<1>10. RunInv(disk.rs, client)'
  BY <1>1, <1>4
<1>. QED
  BY <1>5, <1>7, <1>8, <1>9, <1>10 DEF IInv

\* Starting the tools: whatever is gated among them was approved by a user,
\* because what was let through without one has its tool in another agent.
LEMMA RunToolsStep ==
  ASSUME IInv, RunTools
  PROVE  IInv'
<1>1. /\ UNCHANGED <<agent, rs, mem, disk, queue, stopped>>
      /\ pc' = "tools" /\ rs.step = "execute_tools"
      /\ batch' = Executable(rs, agent) /\ running' = batch' /\ raised' = {}
      /\ client' = [client EXCEPT !.ran = @ \cup batch']
  BY DEF RunTools
<1>2. /\ rs \in RunStates /\ disk.rs \in RunStates /\ client \in Clients
      /\ RunInv(rs, client) /\ RunInv(disk.rs, client)
      /\ LetThroughIsForeign
  BY DEF IInv, TypeOK
<1>3. Flattened(rs) = Parents(rs.pending) /\ Flattened(rs) \subseteq Calls
  BY <1>2, FlattenedIsParents, ParentsAreCalls DEF RunInv, RunStates
<1>4. batch' \subseteq Calls
  BY <1>1, <1>3 DEF Executable, Cleared
<1>5. batch' \cap Gated \subseteq client.granted
  BY <1>1, <1>2, <1>3
     DEF Executable, Cleared, findTool, LetThroughIsForeign, AutoApproved
<1>6. /\ client' \in Clients
      /\ client'.granted = client.granted /\ client'.emitted = client.emitted
  BY <1>1, <1>2, <1>4 DEF Clients
<1>7. RunInv(rs, client)' /\ RunInv(disk.rs, client)'
  BY <1>1, <1>2, <1>6, RunInvStable
<1>8. TypeOK'
  BY <1>1, <1>4, <1>6 DEF IInv, TypeOK
<1>9. LetThroughIsForeign' /\ StepMatchesPc'
  BY <1>1, <1>2, <1>6 DEF IInv, LetThroughIsForeign, StepMatchesPc, AutoApproved
<1>10. BatchInv'
  BY <1>1, <1>5, <1>6 DEF IInv, BatchInv, GatedNeedsGrant, Parents
<1>. QED
  BY <1>7, <1>8, <1>9, <1>10 DEF IInv

\* A tool's report raises interrupts of the call it belongs to.
LEMMA ToolReturnsStep ==
  ASSUME IInv, NEW c \in Calls, NEW ids \in SUBSET Raises(c), ToolReturns(c, ids)
  PROVE  IInv'
<1>1. /\ UNCHANGED <<pc, agent, rs, mem, disk, batch, queue, stopped, client>>
      /\ c \in running /\ running' = running \ {c} /\ raised' = raised \cup ids
  BY DEF ToolReturns
<1>2. ids \subseteq Ids /\ Parents(ids) \subseteq {c}
  BY CallsAssumption DEF Raises, Parents, Ids
<1>3. Parents(raised') = Parents(raised) \cup Parents(ids)
  BY <1>1 DEF Parents
<1>4. TypeOK'
  BY <1>1, <1>2 DEF IInv, TypeOK
<1>5. LetThroughIsForeign' /\ StepMatchesPc'
  BY <1>1 DEF IInv, LetThroughIsForeign, StepMatchesPc
<1>6. BatchInv'
  BY <1>1, <1>2, <1>3 DEF IInv, TypeOK, BatchInv, GatedNeedsGrant
<1>7. RunInv(rs, client)' /\ RunInv(disk.rs, client)'
  BY <1>1 DEF IInv
<1>. QED
  BY <1>4, <1>5, <1>6, <1>7 DEF IInv

\* Recording what the tools gave.
LEMMA RecordResultsStep ==
  ASSUME IInv, RecordResults
  PROVE  IInv'
<1>1. /\ UNCHANGED <<disk, running, queue, stopped, client>>
      /\ pc = "tools" /\ pc' = "top" /\ running = {}
      /\ rs' = AfterTools(rs)
      /\ batch' = {} /\ raised' = {}
  BY DEF RecordResults
<1>2. /\ rs' \in RunStates /\ RunInv(rs', client)
      /\ rs'.step \in {"call_llm", "await_approval"}
  BY <1>1, AfterToolsInv DEF IInv, StepMatchesPc
<1>3. mem' \in Histories
  BY AddOutputsType DEF RecordResults, IInv, TypeOK
<1>4. agent' \in Agents
  BY HandoffAssumption DEF RecordResults, TransferTargets, Transferring, IInv, TypeOK
<1>5. TypeOK'
  BY <1>1, <1>2, <1>3, <1>4 DEF IInv, TypeOK
<1>6. LetThroughIsForeign' /\ StepMatchesPc'
  BY <1>1, <1>2 DEF IInv, LetThroughIsForeign, StepMatchesPc
<1>7. BatchInv'
  BY <1>1 DEF IInv, BatchInv, GatedNeedsGrant, Parents
<1>. QED
  BY <1>1, <1>2, <1>5, <1>6, <1>7 DEF IInv

\* Saving the row of a paused or a completed run.
LEMMA SaveStep ==
  ASSUME IInv, Pause \/ Complete
  PROVE  IInv'
<1>1. /\ UNCHANGED <<agent, rs, mem, batch, running, raised, queue, stopped>>
      /\ pc' = "closing"
      /\ disk' = [hist |-> mem, rs |-> rs]
      /\ rs.step \in {"await_approval", "complete"}
  BY DEF Pause, Complete, SaveMessages, IsComplete, execVars
<1>2. /\ client' \in Clients
      /\ client'.granted = client.granted /\ client'.emitted = client.emitted
  BY DEF Pause, Complete, IInv, TypeOK, Clients, RunStates
<1>3. rs \in RunStates /\ client \in Clients /\ RunInv(rs, client)
  BY DEF IInv, TypeOK
<1>4. RunInv(rs, client)' /\ RunInv(disk.rs, client)'
  BY <1>1, <1>2, <1>3, RunInvStable
<1>5. TypeOK'
  BY <1>1, <1>2 DEF IInv, TypeOK
<1>6. LetThroughIsForeign' /\ StepMatchesPc'
  BY <1>1 DEF LetThroughIsForeign, StepMatchesPc
<1>7. BatchInv'
  BY <1>1, <1>2 DEF IInv, BatchInv, GatedNeedsGrant, Parents
<1>. QED
  BY <1>4, <1>5, <1>6, <1>7 DEF IInv

\* Going back to the saved row.
LEMMA AbandonStep ==
  ASSUME IInv, Abandon
  PROVE  IInv'
<1>1. /\ UNCHANGED <<agent, disk, queue, stopped, client>>
      /\ pc' = "off" /\ rs' = disk.rs /\ mem' = disk.hist
      /\ batch' = {} /\ running' = {} /\ raised' = {}
  BY DEF Abandon
<1>2. TypeOK'
  BY <1>1 DEF IInv, TypeOK
<1>3. LetThroughIsForeign' /\ StepMatchesPc'
  BY <1>1 DEF IInv, LetThroughIsForeign, StepMatchesPc
<1>4. BatchInv'
  BY <1>1 DEF IInv, BatchInv, GatedNeedsGrant, Parents
<1>5. RunInv(rs, client)' /\ RunInv(disk.rs, client)'
  BY <1>1 DEF IInv
<1>. QED
  BY <1>2, <1>3, <1>4, <1>5 DEF IInv

-----------------------------------------------------------------------------

\* The invariant is inductive.
LEMMA NextIInv == IInv /\ [Next]_vars => IInv'
<1>. SUFFICES ASSUME IInv, [Next]_vars PROVE IInv'
  OBVIOUS
<1>0. stopped \in BOOLEAN
  BY DEF IInv, TypeOK
<1>1. CASE Client
  <2>1. ASSUME NEW b \in Sendable, Execute(b) PROVE IInv'
    BY <2>1, ExecuteStep
  <2>2. ASSUME NEW b \in Sendable, EnqueueMessage(b) PROVE IInv'
    BY <2>2, EnqueueStep
  <2>3. CASE Stop
    BY <2>3, QuietStep DEF Stop, execVars
  <2>. QED
    BY <1>1, <2>1, <2>2, <2>3 DEF Client
<1>2. CASE Loop
  <2>1. CASE DrainMessages
    BY <2>1, DrainStep
  <2>2. CASE CancelRun
    BY <2>2, CancelStep
  <2>3. CASE KeepRunning
    BY <1>0, <2>3, QuietStep DEF KeepRunning, execVars
  <2>4. CASE CallModel
    BY <2>4, CallModelStep
  <2>5. CASE ModelCallStopped
    BY <1>0, <2>5, QuietStep DEF ModelCallStopped, execVars
  <2>6. ASSUME NEW calls \in SUBSET Calls, ModelReplies(calls) PROVE IInv'
    BY <2>6, ModelRepliesStep
  <2>7. CASE RunTools
    BY <2>7, RunToolsStep
  <2>8. ASSUME NEW c \in Calls, NEW ids \in SUBSET Raises(c), ToolReturns(c, ids)
        PROVE  IInv'
    BY <2>8, ToolReturnsStep
  <2>9. CASE RecordResults
    BY <2>9, RecordResultsStep
  <2>10. CASE Pause \/ Complete
    BY <2>10, SaveStep
  <2>11. CASE Close
    BY <1>0, <2>11, QuietStep DEF Close, execVars
  <2>12. CASE MaxLoopsExceeded
    BY <2>12, AbandonStep DEF MaxLoopsExceeded
  <2>. QED
    BY <1>2, <2>1, <2>2, <2>3, <2>4, <2>5, <2>6, <2>7, <2>8, <2>9, <2>10, <2>11, <2>12
       DEF Loop
<1>3. CASE FailRun
  BY <1>3, AbandonStep DEF FailRun
<1>4. CASE UNCHANGED vars
  BY <1>0, <1>4, QuietStep DEF vars
<1>. QED
  BY <1>1, <1>2, <1>3, <1>4 DEF Next

\* The inductive invariant holds in every reachable state: a gated call on the
\* approval list that no user approved was let through by an agent without its
\* tool, is not waiting for the user, and is not in a step an agent that has its
\* tool will take (agent.go, StepCallLLM, StepAwaitApproval and StepExecuteTools).
THEOREM Invariance == Spec => []IInv
BY InitIInv, NextIInv, PTL DEF Spec

\* Every variable keeps the type the code gives it (agentstate.RunState and the
\* conversation), for any agents, calls and budgets.
THEOREM TypeCorrect == Spec => []TypeOK
<1>1. IInv => TypeOK
  BY DEF IInv
<1>. QED
  BY <1>1, Invariance, PTL

\* A tool that needs approval is handed to the executor only if a user approved
\* that very call (agent.go, StepCallLLM and StepExecuteTools), although calls
\* let through share the approval list with it, across pauses, handoffs,
\* sub-agents, late resolutions and abandoned runs.
THEOREM ApprovalRequired == Spec => []GatedNeedsGrant
<1>1. IInv => GatedNeedsGrant
  BY DEF IInv, BatchInv
<1>. QED
  BY <1>1, Invariance, PTL

\* A call that resumes is told of an approval inside it, or of its own where it
\* is gated, only if a user gave it (agentstate, CollectNestedApprovalsForParent):
\* the rest of the approval list holds calls that were let through.
THEOREM OnlyGrantsAreTold == Spec => []ToldOnlyGranted
<1>1. IInv => ToldOnlyGranted
  <2>. SUFFICES ASSUME IInv, NEW c \in batch,
                       NEW id \in CollectNestedApprovalsForParent(rs, c).approved,
                       id \in Inner \cup Gated
                PROVE  id \in client.granted
    BY DEF ToldOnlyGranted
  <2>1. id \in rs.approvals /\ parent[id] = c
    BY DEF CollectNestedApprovalsForParent
  <2>2. CASE id \in Inner
    <3>1. id \notin client.emitted
      BY <2>2, CallsAssumption DEF IInv, TypeOK, Clients
    <3>. QED
      BY <2>1, <3>1 DEF IInv, RunInv, ApprovalsExplained
  <2>3. CASE id \in Gated
    BY <2>1, <2>3, CallsAssumption DEF IInv, BatchInv, GatedNeedsGrant
  <2>. QED
    BY <2>2, <2>3
<1>. QED
  BY <1>1, Invariance, PTL

-----------------------------------------------------------------------------
(***************************************************************************)
(* Function calls and their outputs.  One invariant relates a run state to *)
(* the conversation it belongs to, in memory and in the saved row: a call  *)
(* on the lists of the run state has no output, any other call of the      *)
(* conversation has exactly one, unless a stop gave it up.  From it follow *)
(* that a saved pause can be continued, that a call with an output never   *)
(* runs again, and, without sub-agents, that whatever is shown to a        *)
(* provider or completed is paired.  While no run is abandoned, a call     *)
(* that is started again is one that had paused.                           *)
(*                                                                         *)
(* SingleTurn leaves the calls to the caller and is excluded.              *)
(***************************************************************************)

\* The calls the run has still to answer.
Open(r) == Parents(r.pending \cup r.awaiting)

\* A call is open, has one output, or was given up.
Balanced(r, h) ==
  /\ Open(r) \cup GivenUp(h) \subseteq h.calls
  /\ Open(r) \cap GivenUp(h) = {}
  /\ \A c \in Calls : h.outs[c] = 0 \/ (h.outs[c] = 1 /\ c \in h.calls \ Open(r))
  /\ \A c \in h.calls \ Open(r) : h.outs[c] = 1 \/ c \in GivenUp(h)

\* No call is on both lists of a run about to use its tools, and a paused run
\* has all that waits on one list.
ListsApart(r) ==
  /\ r.step = "execute_tools" => Parents(r.pending) \cap Parents(r.awaiting) = {}
  /\ r.step = "await_approval" => r.awaiting = {} /\ r.pending # {}

\* The calls under way are those the tools step chose, and what they have
\* raised is theirs.
BatchIsPending ==
  /\ batch = IF pc = "tools" THEN Executable(rs, agent) ELSE {}
  /\ \A id \in raised : parent[id] \in batch /\ id \in Raises(parent[id])

\* What the saved row has answered is answered in memory.
SavedStays ==
  /\ mem.calls \cup disk.hist.calls \subseteq client.emitted
  /\ \A c \in Calls : disk.hist.outs[c] = 1 => mem.outs[c] = 1

PairInv ==
  /\ Balanced(rs, mem) /\ Balanced(disk.rs, disk.hist)
  /\ ListsApart(rs) /\ ListsApart(disk.rs)
  /\ SavedStays
  /\ BatchIsPending

-----------------------------------------------------------------------------
(* Lemmas about run states and conversations.                              *)

\* The open calls are those of the two lists.
LEMMA OpenLists ==
  ASSUME NEW r
  PROVE  Open(r) = Parents(r.pending) \cup Parents(r.awaiting)
BY DEF Open, Parents

\* A list without ids has no parents.
LEMMA NoParents == Parents({}) = {} /\ (\A S : S # {} => Parents(S) # {})
BY DEF Parents

\* What was given up depends on the outputs of inner ids only.
LEMMA GivenUpStays ==
  ASSUME NEW h1, NEW h2, \A i \in Inner : h1.outs[i] = h2.outs[i]
  PROVE  GivenUp(h1) = GivenUp(h2)
BY DEF GivenUp

\* Draining input and opening a run change none of the lists.
LEMMA BalancedStays ==
  ASSUME NEW r1, NEW r2, NEW h1, NEW h2,
         Balanced(r1, h1), Open(r2) = Open(r1),
         h2.calls = h1.calls, h2.outs = h1.outs
  PROVE  Balanced(r2, h2)
BY DEF Balanced, GivenUp

\* A new message or a new call leaves the outputs alone.
LEMMA HistoryFields ==
  ASSUME NEW h \in Histories, NEW S
  PROVE  /\ [h EXCEPT !.msgs = @ \cup S].calls = h.calls
         /\ [h EXCEPT !.msgs = @ \cup S].outs = h.outs
         /\ [h EXCEPT !.calls = @ \cup S].calls = h.calls \cup S
         /\ [h EXCEPT !.calls = @ \cup S].outs = h.outs
BY DEF Histories

\* AddOutputs appends one output for each id.
LEMMA AddOutputsFields ==
  ASSUME NEW h \in Histories, NEW ids
  PROVE  /\ AddOutputs(h, ids).calls = h.calls
         /\ \A id \in Ids : AddOutputs(h, ids).outs[id]
                              = h.outs[id] + (IF id \in ids THEN 1 ELSE 0)
BY DEF AddOutputs, Histories

\* Draining input keeps the lists apart.
LEMMA IncomingApart ==
  ASSUME NEW r, NEW n, ListsApart(r),
         n.pending = r.pending, n.awaiting = r.awaiting,
         n.step = r.step \/ (r.step = "await_approval" /\ n.step = "execute_tools")
  PROVE  ListsApart(n)
<1>1. CASE n.step = r.step
  BY <1>1 DEF ListsApart
<1>2. CASE r.step = "await_approval" /\ n.step = "execute_tools"
  BY <1>2, NoParents DEF ListsApart
<1>. QED
  BY <1>1, <1>2

\* A run about to call the model, and a completed run, have no open calls.
LEMMA IdleIsClosed ==
  ASSUME NEW r, NEW cl, RunInv(r, cl), r.step \in {"call_llm", "complete"}
  PROVE  Open(r) = {} /\ ListsApart(r)
<1>1. r.pending = {} /\ r.awaiting = {}
  BY DEF RunInv, IdleListsEmpty
<1>2. Open(r) = {}
  BY <1>1, NoParents, OpenLists
<1>. QED
  BY <1>2 DEF ListsApart

\* Opening a run on a saved row leaves the open calls as they are.
LEMMA NewRunApart ==
  ASSUME NEW r \in RunStates, NEW cl, RunInv(r, cl), ListsApart(r)
  PROVE  Open(NewRun(r)) = Open(r) /\ ListsApart(NewRun(r))
<1>1. CASE IsComplete(r)
  <2>1. NewRun(r) = NewRunState(r.last)
    BY <1>1 DEF NewRun
  <2>2. /\ NewRun(r).pending = {} /\ NewRun(r).awaiting = {}
        /\ NewRun(r).step = "call_llm"
    BY <2>1 DEF NewRunState
  <2>3. Open(NewRun(r)) = {}
    BY <2>2, OpenLists, NoParents
  <2>4. Open(r) = {}
    BY <1>1, IdleIsClosed DEF IsComplete
  <2>. QED
    BY <2>2, <2>3, <2>4 DEF ListsApart
<1>2. CASE ~IsComplete(r)
  BY <1>2 DEF NewRun
<1>. QED
  BY <1>1, <1>2

\* A reply's calls become the open ones, on two lists that share none.
LEMMA RequestToolsOpens ==
  ASSUME NEW r \in RunStates, NEW cl, NEW a, NEW calls \in SUBSET Calls, calls # {},
         RunInv(r, cl), r.step = "call_llm",
         NEW n, n = RequestTools(r, a, calls)
  PROVE  Open(n) = calls /\ ListsApart(n)
<1>. DEFINE needs == {c \in calls : findTool(a, c) /\ c \in Gated}
            now == calls \ needs
<1>1. r.pending = {} /\ r.awaiting = {}
  BY DEF RunInv, IdleListsEmpty
<1>2. Parents(needs) = needs /\ Parents(now) = now /\ Parents({}) = {}
  BY ParentsOfCalls
<1>3. Open(n) = Parents(n.pending) \cup Parents(n.awaiting)
  BY OpenLists
<1>4. CASE now # {}
  <2>1. n.step = "execute_tools" /\ n.pending = now /\ n.awaiting = needs
    BY <1>1, <1>4 DEF RequestTools, partitionByApproval, TransitionToExecuteTools, RunStates
  <2>. QED
    BY <1>2, <1>3, <2>1 DEF ListsApart
<1>5. CASE now = {}
  <2>1. n.step = "await_approval" /\ n.pending = needs /\ n.awaiting = {}
    BY <1>1, <1>5 DEF RequestTools, partitionByApproval, TransitionToAwaitApproval, RunStates
  <2>. QED
    BY <1>2, <1>3, <1>5, <2>1 DEF ListsApart
<1>. QED
  BY <1>4, <1>5

-----------------------------------------------------------------------------
(* The tools step.                                                         *)

\* After a tools step the open calls are those that wait already, those nobody
\* has decided and those a tool interrupted.
LEMMA AfterToolsOpens ==
  ASSUME IInv, BatchIsPending
  PROVE  /\ Open(AfterTools(rs))
              = (Parents(rs.awaiting) \cup Undecided(rs)) \cup Parents(raised)
         /\ ListsApart(AfterTools(rs))
<1>. DEFINE n == AfterTools(rs)
            waits == (rs.awaiting \cup Undecided(rs)) \cup raised
<1>1. /\ rs \in RunStates /\ raised \subseteq Ids /\ batch \subseteq Calls
      /\ RunInv(rs, client)
      /\ Parents(raised) \subseteq Calls
  BY DEF IInv, TypeOK, BatchInv
<1>2. Flattened(rs) = Parents(rs.pending) /\ Flattened(rs) \subseteq Calls
  BY <1>1, FlattenedIsParents, ParentsAreCalls DEF RunInv, RunStates
<1>3. Undecided(rs) \subseteq Calls
  BY <1>2 DEF Undecided
<1>4. waits \subseteq Ids
  BY <1>1, <1>3 DEF RunStates, Ids
<1>5. Parents(waits) = (Parents(rs.awaiting) \cup Undecided(rs)) \cup Parents(raised)
  BY <1>3, ParentsOfCalls DEF Parents
<1>6. /\ waits # {} => n.step = "await_approval" /\ n.pending = waits /\ n.awaiting = {}
      /\ waits = {} => n.step = "call_llm" /\ n.pending = {} /\ n.awaiting = {}
  <2>. DEFINE r2 == ClearPendingTools(ProcessInterrupts(
                      [rs EXCEPT !.awaiting = @ \cup Undecided(rs)], raised))
  <2>1. r2 \in RunStates /\ r2.pending = {} /\ r2.awaiting = waits
    BY <1>1, <1>4 DEF ProcessInterrupts, ClearPendingTools, RunStates, Parents
  <2>2. n = IF r2.awaiting # {} THEN PromoteAwaitingToApproval(r2) ELSE TransitionToLLM(r2)
    BY DEF AfterTools
  <2>. HIDE DEF r2, n
  <2>3. CASE waits # {}
    BY <2>1, <2>2, <2>3 DEF PromoteAwaitingToApproval, RunStates
  <2>4. CASE waits = {}
    BY <2>1, <2>2, <2>4, TransitionToLLMType
  <2>. QED
    BY <2>3, <2>4
<1>7. Open(n) = Parents(n.pending) \cup Parents(n.awaiting)
  BY OpenLists
<1>. HIDE DEF n, waits
<1>8. Open(n) = Parents(waits)
  BY <1>6, <1>7, NoParents
<1>9. ListsApart(n)
  BY <1>6 DEF ListsApart
<1>. QED
  BY <1>5, <1>8, <1>9 DEF n

\* Each pending call is answered, undecided or interrupted, and no two of these.
LEMMA PendingSplits ==
  ASSUME IInv, BatchIsPending, pc = "tools"
  PROVE  /\ Parents(rs.pending)
              = (Answered(rs, agent) \cup Undecided(rs)) \cup Parents(raised)
         /\ Answered(rs, agent) \cap (Undecided(rs) \cup Parents(raised)) = {}
         /\ Answered(rs, agent) \subseteq Calls
<1>1. /\ rs \in RunStates /\ RunInv(rs, client)
      /\ batch = Executable(rs, agent)
  BY DEF IInv, TypeOK, BatchIsPending
<1>2. Flattened(rs) = Parents(rs.pending) /\ Flattened(rs) \subseteq Calls
  BY <1>1, FlattenedIsParents, ParentsAreCalls DEF RunInv, RunStates
<1>3. batch = {c \in Cleared(rs) \ Transfers : findTool(agent, c)}
  BY <1>1 DEF Executable
<1>4. Parents(raised) = {c \in batch : Raises(c) \cap raised # {}}
  <2>1. ASSUME NEW c \in batch, NEW id \in Raises(c) PROVE parent[id] = c
    BY <1>2, <1>3, CallsAssumption DEF Raises, Cleared
  <2>. QED
    BY <2>1 DEF BatchIsPending, Parents
<1>5. Answered(rs, agent) = ((Declined(rs) \cup NotFound(rs, agent)) \cup Transferring(rs))
                              \cup (batch \ Parents(raised))
  BY <1>4 DEF Answered
<1>6. Flattened(rs) = (Declined(rs) \cup Cleared(rs)) \cup Undecided(rs)
  BY DEF Declined, Cleared, Undecided
<1>7. Cleared(rs) = (NotFound(rs, agent) \cup Transferring(rs)) \cup batch
  BY <1>3 DEF NotFound, Transferring
<1>8. /\ Declined(rs) \cap Cleared(rs) = {} /\ Undecided(rs) \cap Cleared(rs) = {}
      /\ Declined(rs) \cap Undecided(rs) = {}
  BY DEF Declined, Cleared, Undecided
<1>9. (NotFound(rs, agent) \cup Transferring(rs)) \cap batch = {}
  BY <1>3 DEF NotFound, Transferring
<1>10. Parents(raised) \subseteq batch
  BY <1>4
<1>. QED
  BY <1>2, <1>5, <1>6, <1>7, <1>8, <1>9, <1>10

\* What the tools step records keeps the conversation balanced.
LEMMA RecordBalanced ==
  ASSUME IInv, PairInv, pc = "tools"
  PROVE  Balanced(AfterTools(rs), AddOutputs(mem, Answered(rs, agent)))
<1>. DEFINE n == AfterTools(rs)
            A == Answered(rs, agent)
            h == AddOutputs(mem, A)
<1>1. mem \in Histories /\ rs.step = "execute_tools"
  BY DEF IInv, TypeOK, StepMatchesPc
<1>2. Open(rs) = Parents(rs.pending) \cup Parents(rs.awaiting)
  BY OpenLists
<1>3. Parents(rs.pending) \cap Parents(rs.awaiting) = {}
  BY <1>1 DEF PairInv, ListsApart
<1>4. Open(n) = (Parents(rs.awaiting) \cup Undecided(rs)) \cup Parents(raised)
  BY AfterToolsOpens DEF PairInv
<1>5. /\ Parents(rs.pending) = (A \cup Undecided(rs)) \cup Parents(raised)
      /\ A \cap (Undecided(rs) \cup Parents(raised)) = {}
      /\ A \subseteq Calls
  BY PendingSplits DEF PairInv
<1>6. Open(n) = Open(rs) \ A /\ A \subseteq Open(rs)
  BY <1>2, <1>3, <1>4, <1>5
<1>7. /\ h.calls = mem.calls
      /\ \A id \in Ids : h.outs[id] = mem.outs[id] + (IF id \in A THEN 1 ELSE 0)
  BY <1>1, AddOutputsFields
<1>8. \A id \in Ids : mem.outs[id] \in Nat
  BY <1>1 DEF Histories
<1>9. GivenUp(h) = GivenUp(mem)
  <2>1. \A i \in Inner : h.outs[i] = mem.outs[i]
    BY <1>5, <1>7, <1>8, CallsAssumption DEF Ids
  <2>. QED
    BY <2>1, GivenUpStays
<1>10. Balanced(rs, mem)
  BY DEF PairInv
<1>. HIDE DEF n, A, h
<1>11. \A c \in Calls : h.outs[c] = IF c \in A THEN 1 ELSE mem.outs[c]
  BY <1>6, <1>7, <1>8, <1>10 DEF Balanced, Ids
<1>12. Balanced(n, h)
  <2>1. Open(n) \cup GivenUp(h) \subseteq h.calls /\ Open(n) \cap GivenUp(h) = {}
    BY <1>6, <1>7, <1>9, <1>10 DEF Balanced
  <2>2. ASSUME NEW c \in Calls
        PROVE  h.outs[c] = 0 \/ (h.outs[c] = 1 /\ c \in h.calls \ Open(n))
    BY <1>6, <1>7, <1>10, <1>11 DEF Balanced
  <2>3. ASSUME NEW c \in h.calls \ Open(n)
        PROVE  h.outs[c] = 1 \/ c \in GivenUp(h)
    <3>1. c \in Calls
      BY <1>1, <1>7 DEF Histories
    <3>. QED
      BY <1>6, <1>7, <1>9, <1>10, <1>11, <3>1 DEF Balanced
  <2>. QED
    BY <2>1, <2>2, <2>3 DEF Balanced
<1>. QED
  BY <1>12 DEF n, A, h

\* A stop leaves nothing open: what it does not answer it gives up.
LEMMA CancelBalanced ==
  ASSUME NEW r \in RunStates, NEW h \in Histories, NEW n,
         Balanced(r, h), Open(n) = {}
  PROVE  Balanced(n, AddOutputs(h, CancelledCalls(r)))
<1>. DEFINE X == CancelledCalls(r)
            g == AddOutputs(h, X)
<1>1. X = r.pending \cup r.awaiting /\ X \subseteq Ids
  BY DEF CancelledCalls, RunStates
<1>2. /\ g.calls = h.calls
      /\ \A id \in Ids : g.outs[id] = h.outs[id] + (IF id \in X THEN 1 ELSE 0)
  BY AddOutputsFields
<1>3. h.calls \subseteq Calls /\ \A id \in Ids : h.outs[id] \in Nat
  BY DEF Histories
<1>4. \A c \in X \cap Calls : c \in Open(r)
  BY <1>1, CallsAssumption DEF Open, Parents
<1>. HIDE DEF X, g
<1>5. ASSUME NEW c \in Calls
      PROVE  g.outs[c] = 0 \/ (g.outs[c] = 1 /\ c \in g.calls)
  <2>1. c \in Ids /\ h.outs[c] \in Nat
    BY <1>3 DEF Ids
  <2>2. CASE c \in X
    BY <1>2, <1>4, <2>1, <2>2 DEF Balanced
  <2>3. CASE c \notin X
    BY <1>2, <2>1, <2>3 DEF Balanced
  <2>. QED
    BY <2>2, <2>3
<1>6. ASSUME NEW c \in Open(r)
      PROVE  g.outs[c] = 1 \/ c \in GivenUp(g)
  <2>1. PICK id \in X : c = parent[id]
    BY <1>1 DEF Open, Parents
  <2>2. id \in Ids /\ g.outs[id] = h.outs[id] + 1 /\ h.outs[id] \in Nat
    BY <1>1, <1>2, <1>3, <2>1
  <2>3. CASE id \in Inner
    <3>1. g.outs[id] > 0
      BY <2>2
    <3>. QED
      BY <2>1, <2>3, <3>1 DEF GivenUp
  <2>4. CASE id \in Calls
    <3>1. c = id /\ h.outs[c] = 0
      BY <2>1, <2>4, CallsAssumption DEF Balanced
    <3>. QED
      BY <2>2, <3>1
  <2>. QED
    BY <2>2, <2>3, <2>4 DEF Ids
<1>7. ASSUME NEW c \in h.calls \ Open(r)
      PROVE  g.outs[c] = 1 \/ c \in GivenUp(g)
  <2>1. c \in Calls /\ c \in Ids /\ c \notin X
    BY <1>3, <1>4 DEF Ids
  <2>2. g.outs[c] = h.outs[c]
    BY <1>2, <1>3, <2>1
  <2>3. GivenUp(h) \subseteq GivenUp(g)
    <3>1. ASSUME NEW i \in Inner, h.outs[i] > 0 PROVE g.outs[i] > 0
      BY <1>2, <1>3, <3>1 DEF Ids
    <3>. QED
      BY <3>1 DEF GivenUp
  <2>. QED
    BY <2>2, <2>3 DEF Balanced
<1>8. GivenUp(g) \subseteq h.calls
  <2>1. ASSUME NEW i \in Inner, g.outs[i] > 0 PROVE h.outs[i] > 0 \/ parent[i] \in Open(r)
    BY <1>1, <1>2, <1>3, <2>1 DEF Ids, Open, Parents
  <2>. QED
    BY <2>1 DEF GivenUp, Balanced
<1>. QED
  BY <1>2, <1>5, <1>6, <1>7, <1>8 DEF Balanced, X, g

-----------------------------------------------------------------------------
(* Every step keeps the invariant.                                         *)

\* No call is open at the start.
LEMMA InitPairInv == Init => PairInv
<1>. SUFFICES ASSUME Init PROVE PairInv
  OBVIOUS
<1>1. /\ rs.pending = {} /\ rs.awaiting = {} /\ rs.step = "complete"
      /\ disk.rs = rs
      /\ mem = EmptyHistory /\ disk.hist = EmptyHistory
  BY DEF Init, TransitionToComplete, NewRunState
<1>2. Open(rs) = {}
  BY <1>1, OpenLists, NoParents
<1>3. /\ EmptyHistory.calls = {}
      /\ \A id \in Ids : EmptyHistory.outs[id] = 0
  BY DEF EmptyHistory
<1>a. GivenUp(EmptyHistory) = {}
  BY <1>3 DEF GivenUp, Ids
<1>4. Balanced(rs, EmptyHistory)
  BY <1>2, <1>3, <1>a DEF Balanced, Ids
<1>5. ListsApart(rs)
  BY <1>1 DEF ListsApart
<1>6. SavedStays
  BY <1>1, <1>3 DEF SavedStays, Ids
<1>7. BatchIsPending
  BY DEF Init, BatchIsPending
<1>. QED
  BY <1>1, <1>4, <1>5, <1>6, <1>7 DEF PairInv

\* Steps that leave the calls, the lists and the tools alone.
LEMMA PairQuietStep ==
  ASSUME PairInv,
         UNCHANGED <<agent, rs, mem, disk, batch, raised>>,
         pc' = "tools" <=> pc = "tools",
         client'.emitted = client.emitted
  PROVE  PairInv'
<1>1. BatchIsPending'
  BY DEF PairInv, BatchIsPending, Executable, Cleared, Flattened
<1>2. SavedStays'
  BY DEF PairInv, SavedStays
<1>. QED
  BY <1>1, <1>2 DEF PairInv, Balanced, GivenUp, Open, Parents, ListsApart

\* Starting or resuming a run.
LEMMA PairExecuteStep ==
  ASSUME IInv, PairInv, NEW b \in Sendable, Execute(b), pc = "off"
  PROVE  PairInv'
<1>. DEFINE r == NewRun(disk.rs)
<1>1. /\ disk.rs \in RunStates /\ disk.hist \in Histories
      /\ RunInv(disk.rs, client) /\ client \in Clients
      /\ disk.rs.step \in {"await_approval", "complete"}
  BY DEF IInv, TypeOK, StepMatchesPc
<1>2. /\ UNCHANGED <<disk, batch, raised>> /\ pc' = "top"
      /\ rs' = processIncoming(r, b, FALSE)
      /\ mem' = [disk.hist EXCEPT !.msgs = @ \cup b.msgs]
      /\ b \in Inputs
      /\ client'.emitted = client.emitted
  BY <1>1, SubmitStep DEF Execute, execVars
<1>3. r \in RunStates
  BY <1>1, NewRunStateInv
<1>4. Open(r) = Open(disk.rs) /\ ListsApart(r)
  BY <1>1, NewRunApart DEF PairInv
<1>. HIDE DEF r
<1>5. /\ rs'.pending = r.pending /\ rs'.awaiting = r.awaiting
      /\ rs'.step = r.step \/ (r.step = "await_approval" /\ rs'.step = "execute_tools")
  BY <1>2, <1>3, IncomingFields, FALSE \in BOOLEAN
<1>6. ListsApart(rs')
  BY <1>4, <1>5, IncomingApart
<1>7. Open(rs') = Open(disk.rs)
  BY <1>4, <1>5 DEF Open
<1>8. mem'.calls = disk.hist.calls /\ mem'.outs = disk.hist.outs
  BY <1>1, <1>2, HistoryFields
<1>9. Balanced(rs', mem')
  BY <1>7, <1>8, BalancedStays DEF PairInv
<1>10. SavedStays'
  BY <1>2, <1>8 DEF PairInv, SavedStays
<1>11. BatchIsPending'
  BY <1>2 DEF PairInv, BatchIsPending
<1>12. Balanced(disk.rs, disk.hist)' /\ ListsApart(disk.rs)'
  BY <1>2 DEF PairInv
<1>. QED
  BY <1>6, <1>9, <1>10, <1>11, <1>12 DEF PairInv

\* Folding the queue into the run.
LEMMA PairDrainStep ==
  ASSUME IInv, PairInv, DrainMessages
  PROVE  PairInv'
<1>1. /\ rs \in RunStates /\ queue \in Inputs
      /\ UNCHANGED <<agent, mem, disk, batch, raised, client>>
      /\ pc = "top" /\ pc' = "stop_check"
      /\ rs' = processIncoming(rs, queue, TRUE) \/ rs' = rs
  BY DEF IInv, TypeOK, DrainMessages, execVars
<1>2. /\ rs'.pending = rs.pending /\ rs'.awaiting = rs.awaiting
      /\ rs'.step = rs.step \/ (rs.step = "await_approval" /\ rs'.step = "execute_tools")
  <2>1. CASE rs' = processIncoming(rs, queue, TRUE)
    BY <1>1, <2>1, IncomingFields, TRUE \in BOOLEAN
  <2>2. CASE rs' = rs
    BY <2>2
  <2>. QED
    BY <1>1, <2>1, <2>2
<1>3. ListsApart(rs')
  BY <1>2, IncomingApart DEF PairInv
<1>4. Balanced(rs', mem')
  BY <1>1, <1>2, BalancedStays DEF PairInv, Open
<1>5. SavedStays' /\ BatchIsPending'
  BY <1>1 DEF PairInv, SavedStays, BatchIsPending
<1>6. Balanced(disk.rs, disk.hist)' /\ ListsApart(disk.rs)'
  BY <1>1 DEF PairInv
<1>. QED
  BY <1>3, <1>4, <1>5, <1>6 DEF PairInv

\* Adding outputs keeps what the saved row has answered, as no call has more
\* than one output.
LEMMA SavedStaysAdding ==
  ASSUME PairInv, mem \in Histories, NEW ids,
         mem' = AddOutputs(mem, ids), UNCHANGED <<disk, client>>,
         \A c \in Calls : mem'.outs[c] \in {0, 1}
  PROVE  SavedStays'
<1>1. /\ mem'.calls = mem.calls
      /\ \A id \in Ids : mem'.outs[id] = mem.outs[id] + (IF id \in ids THEN 1 ELSE 0)
  BY AddOutputsFields
<1>2. ASSUME NEW c \in Calls, disk.hist.outs[c] = 1 PROVE mem'.outs[c] = 1
  <2>1. mem.outs[c] = 1 /\ c \in Ids
    BY <1>2 DEF PairInv, SavedStays, Ids
  <2>. QED
    BY <1>1, <2>1
<1>. QED
  BY <1>1, <1>2 DEF PairInv, SavedStays

\* Cancelling the run.
LEMMA PairCancelStep ==
  ASSUME IInv, PairInv, CancelRun
  PROVE  PairInv'
<1>1. /\ rs \in RunStates /\ mem \in Histories
      /\ UNCHANGED <<agent, disk, batch, raised, client>>
      /\ pc = "stop_check" /\ pc' = "dispatch"
      /\ mem' = AddOutputs(mem, CancelledCalls(rs))
      /\ rs' = TransitionToComplete([rs EXCEPT !.awaiting = {}])
  BY DEF IInv, TypeOK, CancelRun, execVars
<1>2. rs'.step = "complete" /\ rs'.pending = {} /\ rs'.awaiting = {}
  BY <1>1 DEF TransitionToComplete, RunStates
<1>3. Open(rs') = {} /\ ListsApart(rs')
  BY <1>2, OpenLists, NoParents DEF ListsApart
<1>4. Balanced(rs', mem')
  BY <1>1, <1>3, CancelBalanced DEF PairInv
<1>5. SavedStays'
  BY <1>1, <1>4, SavedStaysAdding DEF Balanced
<1>6. BatchIsPending'
  BY <1>1 DEF PairInv, BatchIsPending
<1>7. Balanced(disk.rs, disk.hist)' /\ ListsApart(disk.rs)'
  BY <1>1 DEF PairInv
<1>. QED
  BY <1>3, <1>4, <1>5, <1>6, <1>7 DEF PairInv

\* Calling the model.
LEMMA PairCallModelStep ==
  ASSUME IInv, PairInv, CallModel
  PROVE  PairInv'
<1>1. /\ rs \in RunStates /\ mem \in Histories
      /\ UNCHANGED <<agent, disk, batch, raised, client>>
      /\ pc = "dispatch" /\ pc' = "model"
      /\ rs' = GetMessages(rs, agent)
      /\ mem' = [mem EXCEPT !.msgs = @ \cup rs.queued]
  BY DEF IInv, TypeOK, CallModel, execVars
<1>2. rs'.pending = rs.pending /\ rs'.awaiting = rs.awaiting /\ rs'.step = rs.step
  BY <1>1 DEF GetMessages, RunStates
<1>3. mem'.calls = mem.calls /\ mem'.outs = mem.outs
  BY <1>1, HistoryFields
<1>4. ListsApart(rs')
  BY <1>2 DEF PairInv, ListsApart
<1>5. Balanced(rs', mem')
  BY <1>2, <1>3, BalancedStays DEF PairInv, Open
<1>6. SavedStays' /\ BatchIsPending'
  BY <1>1, <1>3 DEF PairInv, SavedStays, BatchIsPending
<1>7. Balanced(disk.rs, disk.hist)' /\ ListsApart(disk.rs)'
  BY <1>1 DEF PairInv
<1>. QED
  BY <1>4, <1>5, <1>6, <1>7 DEF PairInv

\* The model's reply opens fresh calls, and nothing else was open.
LEMMA PairModelRepliesStep ==
  ASSUME ~SingleTurn, IInv, PairInv, NEW calls \in SUBSET Calls, ModelReplies(calls)
  PROVE  PairInv'
<1>1. /\ UNCHANGED <<agent, disk, batch, raised>>
      /\ pc = "model" /\ pc' = "top"
      /\ calls \cap client.emitted = {}
      /\ client' = [client EXCEPT !.emitted = @ \cup calls]
      /\ mem' = [mem EXCEPT !.calls = @ \cup calls]
      /\ rs' = IF calls = {} THEN TransitionToComplete(rs) ELSE RequestTools(rs, agent, calls)
  BY DEF ModelReplies, execVars
<1>2. /\ rs \in RunStates /\ mem \in Histories /\ client \in Clients
      /\ RunInv(rs, client) /\ rs.step = "call_llm"
      /\ rs.pending = {} /\ rs.awaiting = {}
  BY <1>1 DEF IInv, TypeOK, StepMatchesPc, RunInv, IdleListsEmpty
<1>3. Open(rs) = {}
  BY <1>2, IdleIsClosed
<1>4. Open(rs') = calls /\ ListsApart(rs')
  <2>1. CASE calls = {}
    <3>1. rs'.step = "complete" /\ rs'.pending = {} /\ rs'.awaiting = {}
      BY <1>1, <1>2, <2>1 DEF TransitionToComplete, RunStates
    <3>. QED
      BY <2>1, <3>1, OpenLists, NoParents DEF ListsApart
  <2>2. CASE calls # {}
    <3>1. rs' = RequestTools(rs, agent, calls)
      BY <1>1, <2>2
    <3>. QED
      BY <1>2, <2>2, <3>1, RequestToolsOpens
  <2>. QED
    BY <2>1, <2>2
<1>5. /\ mem'.calls = mem.calls \cup calls /\ mem'.outs = mem.outs
      /\ client'.emitted = client.emitted \cup calls
      /\ mem.calls \cap calls = {} /\ mem.calls \subseteq Calls
  BY <1>1, <1>2, HistoryFields DEF PairInv, SavedStays, Clients, Histories
<1>6. GivenUp(mem') = GivenUp(mem)
  BY <1>5 DEF GivenUp
<1>7. GivenUp(mem) \cap calls = {}
  BY <1>5 DEF PairInv, Balanced
<1>8. Balanced(rs', mem')
  BY <1>3, <1>4, <1>5, <1>6, <1>7 DEF PairInv, Balanced
<1>9. SavedStays' /\ BatchIsPending'
  BY <1>1, <1>5 DEF PairInv, SavedStays, BatchIsPending
<1>10. Balanced(disk.rs, disk.hist)' /\ ListsApart(disk.rs)'
  BY <1>1 DEF PairInv
<1>. QED
  BY <1>4, <1>8, <1>9, <1>10 DEF PairInv

\* Starting the tools hands out pending calls only.
LEMMA PairRunToolsStep ==
  ASSUME IInv, PairInv, RunTools
  PROVE  PairInv'
<1>1. /\ UNCHANGED <<agent, rs, mem, disk>>
      /\ pc' = "tools"
      /\ batch' = Executable(rs, agent) /\ raised' = {}
      /\ client'.emitted = client.emitted
  BY DEF RunTools, IInv, TypeOK, Clients
<1>2. Executable(rs, agent)' = Executable(rs, agent)
  BY <1>1 DEF Executable, Cleared, Flattened
<1>3. SavedStays' /\ BatchIsPending'
  BY <1>1, <1>2 DEF PairInv, SavedStays, BatchIsPending
<1>. QED
  BY <1>1, <1>3 DEF PairInv, Balanced, GivenUp, Open, Parents, ListsApart

\* A tool's report raises interrupts of the call it belongs to.
LEMMA PairToolReturnsStep ==
  ASSUME IInv, PairInv, NEW c \in Calls, NEW ids \in SUBSET Raises(c), ToolReturns(c, ids)
  PROVE  PairInv'
<1>1. /\ UNCHANGED <<pc, agent, rs, mem, disk, batch, client>>
      /\ c \in running /\ raised' = raised \cup ids
  BY DEF ToolReturns
<1>2. c \in batch
  BY <1>1 DEF IInv, TypeOK
<1>3. \A id \in ids : parent[id] = c
  BY CallsAssumption DEF Raises
<1>4. \A id \in raised' : parent[id] \in batch /\ id \in Raises(parent[id])
  BY <1>1, <1>2, <1>3 DEF PairInv, BatchIsPending
<1>5. Executable(rs, agent)' = Executable(rs, agent)
  BY <1>1 DEF Executable, Cleared, Flattened
<1>6. SavedStays' /\ BatchIsPending'
  BY <1>1, <1>4, <1>5 DEF PairInv, SavedStays, BatchIsPending
<1>. QED
  BY <1>1, <1>6 DEF PairInv, Balanced, GivenUp, Open, Parents, ListsApart

\* Recording what the tools gave.
LEMMA PairRecordStep ==
  ASSUME IInv, PairInv, RecordResults
  PROVE  PairInv'
<1>1. /\ UNCHANGED <<disk, client>>
      /\ pc = "tools" /\ pc' = "top"
      /\ mem' = AddOutputs(mem, Answered(rs, agent))
      /\ rs' = AfterTools(rs)
      /\ batch' = {} /\ raised' = {}
  BY DEF RecordResults
<1>2. Balanced(rs', mem')
  BY <1>1, RecordBalanced
<1>3. ListsApart(rs')
  BY <1>1, AfterToolsOpens DEF PairInv
<1>4. mem \in Histories
  BY DEF IInv, TypeOK
<1>5. SavedStays'
  BY <1>1, <1>2, <1>4, SavedStaysAdding DEF Balanced
<1>6. BatchIsPending'
  BY <1>1 DEF BatchIsPending
<1>7. Balanced(disk.rs, disk.hist)' /\ ListsApart(disk.rs)'
  BY <1>1 DEF PairInv
<1>. QED
  BY <1>2, <1>3, <1>5, <1>6, <1>7 DEF PairInv

\* Saving the row makes it equal to what is in memory.
LEMMA PairSaveStep ==
  ASSUME IInv, PairInv, Pause \/ Complete
  PROVE  PairInv'
<1>1. /\ UNCHANGED <<agent, rs, mem, batch, raised>>
      /\ pc = "dispatch" /\ pc' = "closing"
      /\ disk' = [hist |-> mem, rs |-> rs]
      /\ client'.emitted = client.emitted
  BY DEF Pause, Complete, SaveMessages, execVars, IInv, TypeOK, Clients
<1>2. disk'.rs = rs /\ disk'.hist = mem
  BY <1>1
<1>3. Balanced(rs, mem)' /\ ListsApart(rs)'
  BY <1>1 DEF PairInv, Balanced, GivenUp, Open, Parents, ListsApart
<1>4. Balanced(disk.rs, disk.hist)' /\ ListsApart(disk.rs)'
  BY <1>1, <1>2, <1>3
<1>5. SavedStays' /\ BatchIsPending'
  BY <1>1, <1>2 DEF PairInv, SavedStays, BatchIsPending
<1>. QED
  BY <1>3, <1>4, <1>5 DEF PairInv

\* Going back to the saved row.
LEMMA PairAbandonStep ==
  ASSUME PairInv, Abandon
  PROVE  PairInv'
<1>1. /\ UNCHANGED <<disk, client>>
      /\ pc' = "off" /\ rs' = disk.rs /\ mem' = disk.hist
      /\ batch' = {} /\ raised' = {}
  BY DEF Abandon
<1>2. SavedStays' /\ BatchIsPending'
  BY <1>1 DEF PairInv, SavedStays, BatchIsPending
<1>3. Balanced(disk.rs, disk.hist)' /\ ListsApart(disk.rs)'
  BY <1>1 DEF PairInv
<1>4. Balanced(rs, mem)' /\ ListsApart(rs)'
  BY <1>1, <1>3
<1>. QED
  BY <1>2, <1>3, <1>4 DEF PairInv

\* The invariant is inductive, relative to IInv.
LEMMA NextPairInv == ~SingleTurn /\ IInv /\ PairInv /\ [Next]_vars => PairInv'
<1>. SUFFICES ASSUME ~SingleTurn, IInv, PairInv, [Next]_vars PROVE PairInv'
  OBVIOUS
<1>1. CASE Client
  <2>1. ASSUME NEW b \in Sendable, Execute(b) PROVE PairInv'
    BY <2>1, PairExecuteStep DEF Execute
  <2>2. ASSUME NEW b \in Sendable, EnqueueMessage(b) PROVE PairInv'
    <3>1. client'.emitted = client.emitted
      BY <2>2, SubmitStep DEF EnqueueMessage, IInv, TypeOK
    <3>. QED
      BY <2>2, <3>1, PairQuietStep DEF EnqueueMessage, execVars
  <2>3. CASE Stop
    BY <2>3, PairQuietStep DEF Stop, execVars
  <2>. QED
    BY <1>1, <2>1, <2>2, <2>3 DEF Client
<1>2. CASE Loop
  <2>1. CASE DrainMessages
    BY <2>1, PairDrainStep
  <2>2. CASE CancelRun
    BY <2>2, PairCancelStep
  <2>3. CASE KeepRunning
    BY <2>3, PairQuietStep DEF KeepRunning, execVars
  <2>4. CASE CallModel
    BY <2>4, PairCallModelStep
  <2>5. CASE ModelCallStopped
    BY <2>5, PairQuietStep DEF ModelCallStopped, execVars
  <2>6. ASSUME NEW calls \in SUBSET Calls, ModelReplies(calls) PROVE PairInv'
    BY <2>6, PairModelRepliesStep
  <2>7. CASE RunTools
    BY <2>7, PairRunToolsStep
  <2>8. ASSUME NEW c \in Calls, NEW ids \in SUBSET Raises(c), ToolReturns(c, ids)
        PROVE  PairInv'
    BY <2>8, PairToolReturnsStep
  <2>9. CASE RecordResults
    BY <2>9, PairRecordStep
  <2>10. CASE Pause \/ Complete
    BY <2>10, PairSaveStep
  <2>11. CASE Close
    BY <2>11, PairQuietStep DEF Close, execVars
  <2>12. CASE MaxLoopsExceeded
    BY <2>12, PairAbandonStep DEF MaxLoopsExceeded
  <2>. QED
    BY <1>2, <2>1, <2>2, <2>3, <2>4, <2>5, <2>6, <2>7, <2>8, <2>9, <2>10, <2>11, <2>12
       DEF Loop
<1>3. CASE FailRun
  BY <1>3, PairAbandonStep DEF FailRun
<1>4. CASE UNCHANGED vars
  BY <1>4, PairQuietStep DEF vars
<1>. QED
  BY <1>1, <1>2, <1>3, <1>4 DEF Next

\* Every reachable run state, in memory and saved, is in balance with its
\* conversation.
LEMMA PairInvariance == ASSUME ~SingleTurn PROVE Spec => [](IInv /\ PairInv)
BY InitIInv, NextIInv, InitPairInv, NextPairInv, PTL DEF Spec

-----------------------------------------------------------------------------
(* What follows from it.                                                   *)

\* Without ids inside sub-agents every call outside the lists has its output,
\* and every output has its call.
LEMMA ClosedIsPaired ==
  ASSUME Inner = {}, NEW r, NEW h \in Histories, Balanced(r, h), Open(r) = {}
  PROVE  Paired(h)
<1>1. Ids = Calls /\ GivenUp(h) = {} /\ h.calls \subseteq Calls
  BY DEF Ids, GivenUp, Histories
<1>2. ASSUME NEW c \in Calls PROVE h.outs[c] = IF c \in h.calls THEN 1 ELSE 0
  BY <1>1 DEF Balanced
<1>. QED
  BY <1>1, <1>2 DEF Paired

\* Whatever approvals arrive late or twice, a call that has its output, in
\* memory or in the saved row, is never handed to a tool again (agent.go,
\* StepExecuteTools), sub-agents, handoffs, stops and abandoned runs included.
THEOREM NoRerun == ASSUME ~SingleTurn PROVE Spec => []AnsweredNeverRerun
<1>1. IInv /\ PairInv => AnsweredNeverRerun
  <2>. SUFFICES ASSUME IInv, PairInv, NEW c \in batch
                PROVE  c \in mem.calls /\ mem.outs[c] = 0 /\ disk.hist.outs[c] = 0
    BY DEF AnsweredNeverRerun
  <2>1. c \in Executable(rs, agent)
    BY DEF PairInv, BatchIsPending
  <2>2. rs \in RunStates /\ RunInv(rs, client) /\ batch \subseteq Calls
    BY DEF IInv, TypeOK
  <2>3. c \in Parents(rs.pending)
    BY <2>1, <2>2, FlattenedIsParents DEF Executable, Cleared, RunInv
  <2>4. c \in Open(rs) /\ c \in Calls
    BY <2>2, <2>3, OpenLists
  <2>5. c \in mem.calls /\ mem.outs[c] = 0
    BY <2>4 DEF PairInv, Balanced
  <2>6. disk.hist.outs[c] = 0
    BY <2>4, <2>5 DEF PairInv, Balanced, SavedStays
  <2>. QED
    BY <2>5, <2>6
<1>. QED
  BY <1>1, PairInvariance, PTL

\* A row saved by a pause (agent.go, StepAwaitApproval) leaves unanswered, of
\* the calls no stop gave up, exactly those its pending list leads back to.
THEOREM PauseResumable == ASSUME ~SingleTurn PROVE Spec => []PausedRowResumable
<1>1. IInv /\ PairInv => PausedRowResumable
  <2>. SUFFICES ASSUME IInv, PairInv, ~IsComplete(disk.rs)
                PROVE  /\ disk.rs.step = "await_approval"
                       /\ Flattened(disk.rs) = Unanswered(disk.hist) \ GivenUp(disk.hist)
                       /\ Flattened(disk.rs) # {}
    BY DEF PausedRowResumable
  <2>1. disk.rs.step = "await_approval"
    BY DEF IInv, StepMatchesPc, IsComplete
  <2>2. disk.rs.awaiting = {} /\ disk.rs.pending # {}
    BY <2>1 DEF PairInv, ListsApart
  <2>3. Flattened(disk.rs) = Parents(disk.rs.pending)
    BY FlattenedIsParents DEF IInv, TypeOK, RunInv
  <2>4. Open(disk.rs) = Flattened(disk.rs)
    BY <2>2, <2>3, OpenLists, NoParents
  <2>5. Flattened(disk.rs) # {}
    BY <2>2, <2>3, NoParents
  <2>6. disk.hist.calls \subseteq Calls
    BY DEF IInv, TypeOK, Histories
  <2>7. Open(disk.rs) = Unanswered(disk.hist) \ GivenUp(disk.hist)
    BY <2>6 DEF PairInv, Balanced, Unanswered
  <2>. QED
    BY <2>1, <2>4, <2>5, <2>7
<1>. QED
  BY <1>1, PairInvariance, PTL

\* Without sub-agents, a run that completes, stopped or not, leaves every call
\* of its conversation with one output (agent.go, the stop check).
THEOREM CompletionPairs == ASSUME ~SingleTurn, Inner = {} PROVE Spec => []CompletedRowPaired
<1>1. IInv /\ PairInv => CompletedRowPaired
  <2>. SUFFICES ASSUME IInv, PairInv, IsComplete(disk.rs) PROVE Paired(disk.hist)
    BY DEF CompletedRowPaired
  <2>1. Open(disk.rs) = {}
    BY IdleIsClosed DEF IInv, IsComplete
  <2>. QED
    BY <2>1, ClosedIsPaired DEF IInv, TypeOK, PairInv
<1>. QED
  BY <1>1, PairInvariance, PTL

\* Without sub-agents, every prompt a provider is sent has one output for each
\* function call, and none without its call (agent.go, StepCallLLM).
THEOREM PromptsPair == ASSUME ~SingleTurn, Inner = {} PROVE Spec => []PromptPaired
<1>1. IInv /\ PairInv => PromptPaired
  <2>. SUFFICES ASSUME IInv, PairInv, pc = "model" PROVE Paired(mem)
    BY DEF PromptPaired
  <2>1. Open(rs) = {}
    BY IdleIsClosed DEF IInv, StepMatchesPc
  <2>. QED
    BY <2>1, ClosedIsPaired DEF IInv, TypeOK, PairInv
<1>. QED
  BY <1>1, PairInvariance, PTL
-----------------------------------------------------------------------------
(* Calls that run more than once.                                          *)

\* A call that is still open though its tool has been started is one that
\* paused or one under way; and a run that is over is the row it saved.
ResumeInv ==
  /\ client.ran \subseteq client.emitted
  /\ Open(rs) \cap client.ran \subseteq rs.paused \cup batch
  /\ pc \in {"off", "closing"} => disk.rs = rs

\* No run is abandoned by an error, a crash or a spent loop budget: going back
\* to the row saved last forgets which calls have been started since.
NoRunAbandoned == [][~(MaxLoopsExceeded \/ FailRun)]_vars

\* Draining input, and opening a run, leave what is paused, or leave nothing
\* open.
LEMMA ResumeFields ==
  ASSUME NEW r \in RunStates, NEW cl, RunInv(r, cl), NEW b \in Inputs, NEW q \in BOOLEAN
  PROVE  /\ Open(processIncoming(r, b, q)) = Open(r)
         /\ processIncoming(r, b, q).paused = r.paused
         /\ Open(NewRun(r)) = {} \/ NewRun(r) = r
<1>1. processIncoming(r, b, q).paused = r.paused
  BY DEF processIncoming, RunStates
<1>2. Open(processIncoming(r, b, q)) = Open(r)
  BY IncomingFields DEF Open
<1>3. CASE IsComplete(r)
  <2>1. NewRun(r).pending = {} /\ NewRun(r).awaiting = {}
    BY <1>3 DEF NewRun, NewRunState
  <2>. QED
    BY <1>1, <1>2, <2>1, OpenLists, NoParents
<1>4. CASE ~IsComplete(r)
  BY <1>1, <1>2, <1>4 DEF NewRun
<1>. QED
  BY <1>3, <1>4

\* What a tools step leaves open of the calls that have run has paused.
LEMMA AfterToolsPaused ==
  ASSUME IInv, PairInv, ResumeInv, pc = "tools"
  PROVE  Open(AfterTools(rs)) \cap client.ran \subseteq AfterTools(rs).paused
<1>1. /\ rs \in RunStates /\ raised \subseteq Ids /\ Parents(raised) \subseteq Calls
      /\ rs.step = "execute_tools" /\ RunInv(rs, client)
  BY ParentsAreCalls DEF IInv, TypeOK, StepMatchesPc
<1>2. AfterTools(rs).paused = rs.paused \cup Parents(raised)
  <2>. DEFINE r2 == ClearPendingTools(ProcessInterrupts(
                      [rs EXCEPT !.awaiting = @ \cup Undecided(rs)], raised))
  <2>1. Undecided(rs) \subseteq Ids
    <3>1. Flattened(rs) \subseteq Calls
      BY <1>1, FlattenedIsParents, ParentsAreCalls DEF RunInv, RunStates
    <3>. QED
      BY <3>1 DEF Undecided, Ids
  <2>2. r2 \in RunStates /\ r2.paused = rs.paused \cup Parents(raised)
    BY <1>1, <2>1 DEF ProcessInterrupts, ClearPendingTools, RunStates, Parents
  <2>3. AfterTools(rs) = IF r2.awaiting # {} THEN PromoteAwaitingToApproval(r2)
                                             ELSE TransitionToLLM(r2)
    BY DEF AfterTools
  <2>. HIDE DEF r2
  <2>4. PromoteAwaitingToApproval(r2).paused = r2.paused /\ TransitionToLLM(r2).paused = r2.paused
    BY <2>2 DEF PromoteAwaitingToApproval, TransitionToLLM, RunStates
  <2>. QED
    BY <2>2, <2>3, <2>4
<1>3. Open(AfterTools(rs)) = (Parents(rs.awaiting) \cup Undecided(rs)) \cup Parents(raised)
  BY AfterToolsOpens DEF PairInv
<1>4. Open(rs) = Parents(rs.pending) \cup Parents(rs.awaiting)
  BY OpenLists
<1>5. Flattened(rs) = Parents(rs.pending)
  BY <1>1, FlattenedIsParents DEF RunInv
<1>6. batch \subseteq Parents(rs.pending) /\ batch \cap Undecided(rs) = {}
  BY <1>5 DEF PairInv, BatchIsPending, Executable, Cleared, Undecided
<1>7. Parents(rs.awaiting) \cap batch = {}
  BY <1>1, <1>6 DEF PairInv, ListsApart
<1>8. Undecided(rs) \subseteq Open(rs)
  BY <1>4, <1>5 DEF Undecided
<1>. QED
  BY <1>2, <1>3, <1>4, <1>6, <1>7, <1>8 DEF ResumeInv

\* Nothing has run at the start.
LEMMA InitResumeInv == Init => ResumeInv
BY DEF Init, ResumeInv

\* Steps that leave the run state, the tools and what has run alone.
LEMMA ResumeQuietStep ==
  ASSUME ResumeInv, UNCHANGED <<rs, disk, batch>>,
         client'.ran = client.ran, client'.emitted = client.emitted,
         pc' \in {"off", "closing"} => pc \in {"off", "closing"}
  PROVE  ResumeInv'
BY DEF ResumeInv, Open, Parents

\* Steps after which the calls still open have paused.
LEMMA ResumeOpenStep ==
  ASSUME ResumeInv,
         client'.ran = client.ran, client.emitted \subseteq client'.emitted,
         Open(rs') \cap client.ran \subseteq rs'.paused,
         pc' \notin {"off", "closing"}
  PROVE  ResumeInv'
BY DEF ResumeInv, Open, Parents

\* A call the model's reply opens has never run.
LEMMA ResumeModelRepliesStep ==
  ASSUME ~SingleTurn, IInv, PairInv, ResumeInv,
         NEW calls \in SUBSET Calls, ModelReplies(calls)
  PROVE  ResumeInv'
<1>1. /\ pc = "model" /\ pc' = "top"
      /\ calls \cap client.emitted = {}
      /\ client' = [client EXCEPT !.emitted = @ \cup calls]
      /\ rs' = IF calls = {} THEN TransitionToComplete(rs) ELSE RequestTools(rs, agent, calls)
  BY DEF ModelReplies
<1>2. /\ rs \in RunStates /\ client \in Clients
      /\ RunInv(rs, client) /\ rs.step = "call_llm"
      /\ rs.pending = {} /\ rs.awaiting = {}
  BY <1>1 DEF IInv, TypeOK, StepMatchesPc, RunInv, IdleListsEmpty
<1>3. client'.ran = client.ran /\ client.emitted \subseteq client'.emitted
  BY <1>1, <1>2 DEF Clients
<1>4. Open(rs') = calls
  <2>1. CASE calls = {}
    <3>1. rs'.pending = {} /\ rs'.awaiting = {}
      BY <1>1, <1>2, <2>1 DEF TransitionToComplete, RunStates
    <3>. QED
      BY <2>1, <3>1, OpenLists, NoParents
  <2>2. CASE calls # {}
    <3>1. rs' = RequestTools(rs, agent, calls)
      BY <1>1, <2>2
    <3>. QED
      BY <1>2, <2>2, <3>1, RequestToolsOpens
  <2>. QED
    BY <2>1, <2>2
<1>5. Open(rs') \cap client.ran = {}
  BY <1>1, <1>4 DEF ResumeInv
<1>6. pc' \notin {"off", "closing"}
  BY <1>1
<1>. QED
  BY <1>3, <1>5, <1>6, ResumeOpenStep

\* The calls started are open ones, and no others become open.
LEMMA ResumeRunToolsStep ==
  ASSUME IInv, PairInv, ResumeInv, RunTools
  PROVE  ResumeInv'
<1>1. /\ UNCHANGED <<rs, disk>> /\ pc = "dispatch" /\ pc' = "tools"
      /\ batch' = Executable(rs, agent)
      /\ client'.emitted = client.emitted
      /\ client'.ran = client.ran \cup batch'
      /\ rs \in RunStates /\ RunInv(rs, client)
  BY DEF RunTools, IInv, TypeOK, Clients
<1>2. batch' \subseteq Parents(rs.pending)
  BY <1>1, FlattenedIsParents DEF Executable, Cleared, RunInv
<1>3. batch' \subseteq client.emitted
  BY <1>2, OpenLists DEF PairInv, Balanced, SavedStays
<1>4. batch = {}
  BY <1>1 DEF PairInv, BatchIsPending
<1>5. Open(rs') = Open(rs)
  BY <1>1
<1>6. /\ client'.ran \subseteq client'.emitted
      /\ Open(rs') \cap client'.ran \subseteq rs'.paused \cup batch'
  BY <1>1, <1>3, <1>4, <1>5 DEF ResumeInv
<1>. QED
  BY <1>1, <1>6 DEF ResumeInv, Open, Parents

\* The invariant is inductive for the steps that abandon no run.
LEMMA NextResumeInv ==
  ASSUME ~SingleTurn, IInv, PairInv, ResumeInv, [Next]_vars,
         [~(MaxLoopsExceeded \/ FailRun)]_vars
  PROVE  ResumeInv'
<1>0. /\ rs \in RunStates /\ disk.rs \in RunStates /\ queue \in Inputs
      /\ client \in Clients /\ RunInv(rs, client) /\ RunInv(disk.rs, client)
  BY DEF IInv, TypeOK
<1>1. CASE Client
  <2>1. ASSUME NEW b \in Sendable, Execute(b) PROVE ResumeInv'
    <3>1. /\ pc = "off" /\ pc' = "top"
          /\ rs' = processIncoming(NewRun(disk.rs), b, FALSE)
          /\ b \in Inputs /\ client'.emitted = client.emitted
          /\ client'.ran = client.ran
      BY <1>0, <2>1, SubmitStep DEF Execute, Submit, Clients
    <3>2. disk.rs = rs /\ batch = {}
      BY <3>1 DEF ResumeInv, PairInv, BatchIsPending
    <3>3. NewRun(rs) \in RunStates /\ RunInv(NewRun(rs), client)
      BY <1>0, <3>2, NewRunStateInv DEF IInv, StepMatchesPc
    <3>4. /\ Open(rs') = Open(NewRun(rs))
          /\ rs'.paused = NewRun(rs).paused
      BY <3>1, <3>2, <3>3, ResumeFields, FALSE \in BOOLEAN
    <3>5. Open(NewRun(rs)) = {} \/ NewRun(rs) = rs
      BY <1>0, <3>1, ResumeFields, FALSE \in BOOLEAN
    <3>6. Open(rs') \cap client.ran \subseteq rs'.paused
      BY <3>2, <3>4, <3>5 DEF ResumeInv
    <3>. QED
      BY <3>1, <3>6, ResumeOpenStep
  <2>2. ASSUME NEW b \in Sendable, EnqueueMessage(b) PROVE ResumeInv'
    <3>1. client'.emitted = client.emitted /\ client'.ran = client.ran
      BY <1>0, <2>2, SubmitStep DEF EnqueueMessage, Submit, Clients
    <3>. QED
      BY <2>2, <3>1, ResumeQuietStep DEF EnqueueMessage, execVars
  <2>3. CASE Stop
    BY <2>3, ResumeQuietStep DEF Stop, execVars
  <2>. QED
    BY <1>1, <2>1, <2>2, <2>3 DEF Client
<1>2. CASE Loop
  <2>1. CASE DrainMessages
    <3>1. /\ pc = "top" /\ pc' = "stop_check" /\ UNCHANGED <<batch, client, disk>>
          /\ rs' = processIncoming(rs, queue, TRUE) \/ rs' = rs
      BY <2>1 DEF DrainMessages, execVars
    <3>2. Open(rs') = Open(rs) /\ rs'.paused = rs.paused
      BY <1>0, <3>1, ResumeFields, TRUE \in BOOLEAN
    <3>3. batch = {}
      BY <3>1 DEF PairInv, BatchIsPending
    <3>. QED
      BY <3>1, <3>2, <3>3, ResumeOpenStep DEF ResumeInv
  <2>2. CASE CancelRun
    <3>1. /\ pc' = "dispatch" /\ UNCHANGED client
          /\ rs' = TransitionToComplete([rs EXCEPT !.awaiting = {}])
      BY <2>2 DEF CancelRun
    <3>2. rs'.pending = {} /\ rs'.awaiting = {}
      BY <1>0, <3>1 DEF TransitionToComplete, RunStates
    <3>3. Open(rs') = {}
      BY <3>2, OpenLists, NoParents
    <3>. QED
      BY <3>1, <3>3, ResumeOpenStep
  <2>3. CASE KeepRunning
    BY <2>3, ResumeQuietStep DEF KeepRunning, execVars
  <2>4. CASE CallModel
    <3>1. /\ pc = "dispatch" /\ pc' = "model" /\ UNCHANGED client
          /\ rs' = GetMessages(rs, agent)
      BY <2>4 DEF CallModel
    <3>2. rs'.pending = rs.pending /\ rs'.awaiting = rs.awaiting /\ rs'.paused = rs.paused
      BY <1>0, <3>1 DEF GetMessages, RunStates
    <3>3. batch = {}
      BY <3>1 DEF PairInv, BatchIsPending
    <3>. QED
      BY <3>1, <3>2, <3>3, ResumeOpenStep DEF ResumeInv, Open
  <2>5. CASE ModelCallStopped
    BY <2>5, ResumeQuietStep DEF ModelCallStopped, execVars
  <2>6. ASSUME NEW calls \in SUBSET Calls, ModelReplies(calls) PROVE ResumeInv'
    BY <2>6, ResumeModelRepliesStep
  <2>7. CASE RunTools
    BY <2>7, ResumeRunToolsStep
  <2>8. ASSUME NEW c \in Calls, NEW ids \in SUBSET Raises(c), ToolReturns(c, ids)
        PROVE  ResumeInv'
    BY <2>8, ResumeQuietStep DEF ToolReturns
  <2>9. CASE RecordResults
    <3>1. /\ pc = "tools" /\ pc' = "top" /\ UNCHANGED client
          /\ rs' = AfterTools(rs)
      BY <2>9 DEF RecordResults
    <3>2. Open(rs') \cap client.ran \subseteq rs'.paused
      BY <3>1, AfterToolsPaused
    <3>. QED
      BY <3>1, <3>2, ResumeOpenStep
  <2>10. CASE Pause \/ Complete
    <3>1. /\ UNCHANGED <<rs, batch>> /\ disk' = [hist |-> mem, rs |-> rs]
          /\ client'.emitted = client.emitted /\ client'.ran = client.ran
      BY <1>0, <2>10 DEF Pause, Complete, SaveMessages, execVars, Clients
    <3>2. disk'.rs = rs'
      BY <3>1
    <3>. QED
      BY <3>1, <3>2 DEF ResumeInv, Open, Parents
  <2>11. CASE Close
    BY <2>11, ResumeQuietStep DEF Close, execVars
  <2>12. CASE MaxLoopsExceeded
    <3>1. UNCHANGED vars
      BY <2>12
    <3>. QED
      BY <3>1, ResumeQuietStep DEF vars
  <2>. QED
    BY <1>2, <2>1, <2>2, <2>3, <2>4, <2>5, <2>6, <2>7, <2>8, <2>9, <2>10, <2>11, <2>12
       DEF Loop
<1>3. CASE FailRun
  <2>1. UNCHANGED vars
    BY <1>3
  <2>. QED
    BY <2>1, ResumeQuietStep DEF vars
<1>4. CASE UNCHANGED vars
  BY <1>4, ResumeQuietStep DEF vars
<1>. QED
  BY <1>1, <1>2, <1>3, <1>4 DEF Next

\* As long as no run is abandoned, a tool that is started a second time is one
\* that paused and is being resumed (agent.go, StepExecuteTools): neither late
\* approvals, nor a stop, a handoff, a sub-agent's interrupts or the row saved
\* by a pause make an ordinary call run twice.
THEOREM OnlyPausedRunAgain ==
  ASSUME ~SingleTurn
  PROVE  Spec /\ NoRunAbandoned => RestartIsResume
<1>. DEFINE Quiet == [~(MaxLoopsExceeded \/ FailRun)]_vars
            Resumed == pc = "dispatch" /\ pc' = "tools" => batch' \cap client.ran \subseteq rs.paused
<1>1. IInv /\ PairInv /\ ResumeInv /\ [Next]_vars /\ Quiet => ResumeInv'
  BY NextResumeInv
<1>2. IInv /\ PairInv /\ ResumeInv /\ [Next]_vars => [Resumed]_vars
  <2>. SUFFICES ASSUME IInv, PairInv, ResumeInv, [Next]_vars, pc = "dispatch", pc' = "tools"
                PROVE  batch' \cap client.ran \subseteq rs.paused
    OBVIOUS
  <2>1. RunTools
    BY DEF Next, Client, Execute, EnqueueMessage, Stop, Loop, DrainMessages, CancelRun,
           KeepRunning, CallModel, ModelCallStopped, ModelReplies, RecordResults,
           ToolReturns, Pause, Complete, Close, MaxLoopsExceeded, FailRun, Abandon, vars
  <2>2. /\ batch' = Executable(rs, agent) /\ rs \in RunStates /\ RunInv(rs, client)
        /\ batch = {}
    BY <2>1 DEF RunTools, IInv, TypeOK, PairInv, BatchIsPending
  <2>3. batch' \subseteq Parents(rs.pending)
    BY <2>2, FlattenedIsParents DEF Executable, Cleared, RunInv
  <2>4. batch' \subseteq Open(rs)
    BY <2>3, OpenLists
  <2>. QED
    BY <2>2, <2>4 DEF ResumeInv
<1>3. Spec => [](IInv /\ PairInv)
  BY PairInvariance
<1>. HIDE DEF Quiet, Resumed
<1>4. Spec /\ [][~(MaxLoopsExceeded \/ FailRun)]_vars => [][Resumed]_vars
  BY <1>1, <1>2, <1>3, InitResumeInv, PTL DEF Spec, Quiet
<1>. QED
  BY <1>4 DEF NoRunAbandoned, RestartIsResume, Resumed

=============================================================================
