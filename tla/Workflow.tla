------------------------------ MODULE Workflow ------------------------------
(***************************************************************************)
(* The workflow engine (src/pkg/workflow): a compiled graph is walked in    *)
(* waves, the nodes of a wave run concurrently, their results are merged   *)
(* into the run's Input one after the other, and a node may suspend the    *)
(* run until the host stages a decision and walks again.                   *)
(*                                                                         *)
(* A node id is a natural, ordered as the code orders the strings.  What a *)
(* node computes is abstracted to the port it leaves by and to a value it   *)
(* writes under each of its keys of the run context.  A router is          *)
(* abstracted to the key whose value it returns as its label.              *)
(***************************************************************************)
EXTENDS Integers, FiniteSets

CONSTANTS
  Nodes,      \* the node ids
  Ports,      \* the ports a node may leave by
  Keys,       \* the keys of the run context
  Values,     \* the values nodes write there, and the labels of routers
  Writes,     \* for each node, the keys its output holds
  Gates,      \* the nodes that suspend the run until a decision is staged
  Graphs,     \* the graphs handed to Compile
  MaxSteps,   \* RuntimeOptions.MaxSteps
  MaxWalks    \* how often the host executes the run (bound)

Start == -1
End == -2
NoNode == 0
Unset == "unset"    \* no value yet

ASSUME NodesAreOrdered == Nodes \subseteq Nat \ {NoNode} /\ IsFiniteSet(Nodes)
ASSUME WritesAssumption == Writes \in [Nodes -> SUBSET Keys]
ASSUME BoundsAssumption == MaxSteps \in Nat /\ MaxWalks \in Nat
ASSUME ValuesAssumption == Unset \notin Values

-----------------------------------------------------------------------------
(* Compile *)

\* A graph: the nodes added, the static edges on ports, and for the nodes
\* with a conditional edge the key their router reads and its targets.
IsGraph(g) ==
  /\ g.nodes \subseteq Nodes
  /\ \A e \in g.edges : e.port \in Ports
  /\ \A s \in DOMAIN g.reads : g.reads[s] \in Keys
  /\ DOMAIN g.targets = DOMAIN g.reads

\* The edges detectCycle follows, static and conditional.
Adjacent(g, m, n) ==
  \/ \E e \in g.edges : e.from = m /\ e.to = n
  \/ m \in DOMAIN g.targets /\ \E l \in DOMAIN g.targets[m] : g.targets[m][l] = n

\* Every edge joins known nodes, and a node has either static edges or a
\* conditional one.
WellFormed(g) ==
  /\ g.nodes # {}
  /\ \A e \in g.edges : e.from \in g.nodes \cup {Start} /\ e.to \in g.nodes \cup {End}
  /\ \A s \in DOMAIN g.targets :
       /\ s \in g.nodes
       /\ DOMAIN g.targets[s] # {}
       /\ \A l \in DOMAIN g.targets[s] : g.targets[s][l] \in g.nodes \cup {End}
       /\ \A e \in g.edges : e.from # s

\* The targets of START, or the nodes nothing leads to.
Roots(g) ==
  LET started == {n \in g.nodes : \E e \in g.edges : e.from = Start /\ e.to = n}
  IN IF started # {} THEN started
     ELSE {n \in g.nodes : \A m \in g.nodes : ~Adjacent(g, m, n)}

\* No set of nodes closes on itself: what the depth-first search accepts.
Acyclic(g) ==
  \A S \in SUBSET g.nodes :
    S # {} => \E n \in S : \A m \in S : ~Adjacent(g, m, n)

Compile(g) == IsGraph(g) /\ WellFormed(g) /\ Acyclic(g)

-----------------------------------------------------------------------------
VARIABLES
  graph,      \* the compiled graph
  \* the Input, which outlives a walk
  status, ports, runContext, pause, resumes,
  \* the walk
  pc,         \* idle, wave (about to dispatch), run (nodes out or being merged)
  visited, wave, steps,
  running,    \* dispatched nodes that have not returned
  replayed,   \* nodes of the wave that were completed before this walk
  result,     \* what a node of this wave returned
  pending,    \* nodes of the wave whose result is not merged yet
  next,       \* nextCandidates
  failed, suspended,   \* waveErrs is not empty; a result of the wave was a pause
  \* the host
  returned,   \* what the last walk returned
  walks       \* how many walks the host has begun

input == <<status, ports, runContext, pause, resumes>>
walkVars == <<pc, visited, wave, steps, running, replayed, result, pending, next, failed, suspended>>
vars == <<graph, input, walkVars, returned, walks>>

Statuses == {"none", "running", "completed", "failed", "skipped", "paused"}
Outcomes == [kind : {"done"}, port : Ports, value : Values] \cup [kind : {"pause", "fail"}]

\* The target a completed node leads to: by its router where it has one, else
\* by its static edges on the port it left by.
Leads(g, c, p, m, n) ==
  IF m \in DOMAIN g.targets
  THEN c[g.reads[m]].value \in DOMAIN g.targets[m] /\ g.targets[m][c[g.reads[m]].value] = n
  ELSE [from |-> m, port |-> p, to |-> n] \in g.edges

Successors(g, c, p, m) == {n \in g.nodes : Leads(g, c, p, m, n)}

\* The context after node n's output is merged: the last writer wins.
MergeContext(c, n, v) ==
  [k \in Keys |-> IF k \in Writes[n] THEN [value |-> v, by |-> n] ELSE c[k]]

\* Short-circuited nodes come before the executed ones, each in id order.
Before(m, n) ==
  \/ m \in replayed /\ n \notin replayed
  \/ (m \in replayed <=> n \in replayed) /\ m < n

First(n) == n \in pending /\ \A m \in pending \ {n} : Before(n, m)

Init ==
  /\ graph \in {g \in Graphs : Compile(g)}
  /\ status = [n \in Nodes |-> "none"]
  /\ ports = [n \in Nodes |-> CHOOSE p \in Ports : TRUE]
  /\ runContext = [k \in Keys |-> [value |-> Unset, by |-> NoNode]]
  /\ pause = NoNode
  /\ resumes = {}
  /\ pc = "idle"
  /\ visited = {} /\ wave = {} /\ steps = 0
  /\ running = {} /\ replayed = {} /\ pending = {} /\ next = {}
  /\ result = [n \in Nodes |-> [kind |-> "fail"]]
  /\ failed = FALSE /\ suspended = FALSE
  /\ returned = "none" /\ walks = 0

-----------------------------------------------------------------------------
(* The host *)

\* Execute: a walk starts from the roots and clears any pause.
Execute ==
  /\ pc = "idle" /\ walks < MaxWalks
  /\ pc' = "wave"
  /\ wave' = Roots(graph) /\ visited' = {} /\ steps' = 0
  /\ pause' = NoNode
  /\ walks' = walks + 1 /\ returned' = "none"
  /\ UNCHANGED <<graph, status, ports, runContext, resumes, running, replayed, result, pending,
                 next, failed, suspended>>

\* SetResume: the host stages a decision for a suspended node.
SetResume(n) ==
  /\ pc = "idle" /\ status[n] = "paused"
  /\ resumes' = resumes \cup {n}
  /\ pause' = NoNode
  /\ returned' = "none"
  /\ UNCHANGED <<graph, status, ports, runContext, walkVars, walks>>

-----------------------------------------------------------------------------
(* The walk *)

Return(outcome) == pc' = "idle" /\ returned' = outcome

\* Mutant: completed nodes are dispatched again.
Dispatch_Again ==
  /\ pc = "wave" /\ wave \ visited # {}
  /\ LET unique == wave \ visited
     IN /\ visited' = visited \cup unique
        /\ status' = [n \in Nodes |-> IF n \in unique THEN "running" ELSE status[n]]
        /\ steps' = steps + Cardinality(unique)
        /\ IF steps' > MaxSteps
           THEN Return("error") /\ UNCHANGED <<running, replayed, pending>>
           ELSE /\ pc' = "run"
                /\ running' = unique /\ replayed' = {} /\ pending' = unique
                /\ UNCHANGED returned
  /\ next' = {} /\ failed' = FALSE /\ suspended' = FALSE
  /\ UNCHANGED <<graph, ports, runContext, pause, resumes, wave, result, walks>>

\* A wave: the nodes completed before are not executed again.
Dispatch ==
  /\ pc = "wave" /\ wave \ visited # {}
  /\ LET unique == wave \ visited
         cached == {n \in unique : status[n] = "completed"}
         fresh == unique \ cached
     IN /\ visited' = visited \cup unique
        /\ status' = [n \in Nodes |-> IF n \in fresh THEN "running" ELSE status[n]]
        /\ steps' = steps + Cardinality(fresh)
        /\ IF steps' > MaxSteps
           THEN /\ Return("error")
                /\ UNCHANGED <<running, replayed, pending>>
           ELSE /\ pc' = "run"
                /\ running' = fresh /\ replayed' = cached /\ pending' = unique
                /\ UNCHANGED returned
  /\ next' = {} /\ failed' = FALSE /\ suspended' = FALSE
  /\ UNCHANGED <<graph, ports, runContext, pause, resumes, wave, result, walks>>

\* A node returns.  A gate pauses until a decision is staged for it; any node
\* may fail, the siblings of a failed one because their context is cancelled.
Finish(n, o) ==
  /\ n \in running
  /\ (o.kind = "pause") => n \in Gates \ resumes
  /\ (o.kind = "done") => n \notin Gates \ resumes
  /\ running' = running \ {n}
  /\ result' = [result EXCEPT ![n] = o]
  /\ UNCHANGED <<graph, input, pc, visited, wave, steps, replayed, pending, next, failed,
                 suspended, returned, walks>>

\* Mutant: the pause is not recorded on the input.
MergePause_Unrecorded(n) ==
  /\ pc = "run" /\ running = {} /\ First(n)
  /\ n \notin replayed /\ result[n].kind = "pause"
  /\ status' = [status EXCEPT ![n] = "paused"]
  /\ suspended' = TRUE
  /\ pending' = pending \ {n}
  /\ UNCHANGED <<graph, ports, runContext, pause, resumes, pc, visited, wave, steps, running,
                 replayed, result, next, failed, returned, walks>>

\* The loop over the results, one step per result.
MergePause(n) ==
  /\ pc = "run" /\ running = {} /\ First(n)
  /\ n \notin replayed /\ result[n].kind = "pause"
  /\ status' = [status EXCEPT ![n] = "paused"]
  /\ pause' = n /\ suspended' = TRUE
  /\ pending' = pending \ {n}
  /\ UNCHANGED <<graph, ports, runContext, resumes, pc, visited, wave, steps, running, replayed,
                 result, next, failed, returned, walks>>

MergeFailure(n) ==
  /\ pc = "run" /\ running = {} /\ First(n)
  /\ n \notin replayed /\ result[n].kind = "fail"
  /\ status' = [status EXCEPT ![n] = "failed"]
  /\ failed' = TRUE
  /\ pending' = pending \ {n}
  /\ UNCHANGED <<graph, ports, runContext, pause, resumes, pc, visited, wave, steps, running,
                 replayed, result, next, suspended, returned, walks>>

\* A completed node: its output is merged and its edges are followed, the
\* router reading the context as merged so far.
MergeOutput(n) ==
  /\ pc = "run" /\ running = {} /\ First(n)
  /\ n \notin replayed /\ result[n].kind = "done"
  /\ runContext' = MergeContext(runContext, n, result[n].value)
  /\ status' = [status EXCEPT ![n] = "completed"]
  /\ ports' = [ports EXCEPT ![n] = result[n].port]
  /\ next' = next \cup (Successors(graph, runContext', result[n].port, n) \ visited)
  /\ pending' = pending \ {n}
  /\ UNCHANGED <<graph, pause, resumes, pc, visited, wave, steps, running, replayed, result,
                 failed, suspended, returned, walks>>

\* Mutant: the cached port is ignored.
Replay_DefaultPort(n) ==
  /\ pc = "run" /\ running = {} /\ First(n)
  /\ n \in replayed
  /\ status' = [status EXCEPT ![n] = "completed"]
  /\ next' = next \cup (Successors(graph, runContext, CHOOSE p \in Ports : TRUE, n) \ visited)
  /\ pending' = pending \ {n}
  /\ UNCHANGED <<graph, ports, runContext, pause, resumes, pc, visited, wave, steps, running,
                 replayed, result, failed, suspended, returned, walks>>

\* A node completed by an earlier walk: no output, the port it left by then,
\* and its router asked again.
Replay(n) ==
  /\ pc = "run" /\ running = {} /\ First(n)
  /\ n \in replayed
  /\ status' = [status EXCEPT ![n] = "completed"]
  /\ next' = next \cup (Successors(graph, runContext, ports[n], n) \ visited)
  /\ pending' = pending \ {n}
  /\ UNCHANGED <<graph, ports, runContext, pause, resumes, pc, visited, wave, steps, running,
                 replayed, result, failed, suspended, returned, walks>>

\* Mutant: a pause does not end the walk when siblings of the node have completed.
EndWave_GoesOn ==
  /\ pc = "run" /\ running = {} /\ pending = {}
  /\ IF failed THEN Return("error") /\ UNCHANGED wave
     ELSE IF suspended /\ next = {} THEN Return("ok") /\ UNCHANGED wave
     ELSE pc' = "wave" /\ wave' = next /\ UNCHANGED returned
  /\ UNCHANGED <<graph, input, visited, steps, running, replayed, result, pending, next, failed,
                 suspended, walks>>

\* After the results: errors end the walk, then a pause does, else the next wave.
EndWave ==
  /\ pc = "run" /\ running = {} /\ pending = {}
  /\ IF failed THEN Return("error") /\ UNCHANGED wave
     ELSE IF suspended THEN Return("ok") /\ UNCHANGED wave
     ELSE pc' = "wave" /\ wave' = next /\ UNCHANGED returned
  /\ UNCHANGED <<graph, input, visited, steps, running, replayed, result, pending, next, failed,
                 suspended, walks>>

\* Nothing is left to visit: the nodes the walk did not reach are skipped.
Finalise ==
  /\ pc = "wave" /\ wave \subseteq visited
  /\ status' = [n \in Nodes |->
       IF n \in graph.nodes \ visited /\ status[n] # "paused" THEN "skipped" ELSE status[n]]
  /\ Return("ok")
  /\ UNCHANGED <<graph, ports, runContext, pause, resumes, visited, wave, steps, running, replayed,
                 result, pending, next, failed, suspended, walks>>

Walk ==
  \/ Dispatch \/ EndWave \/ Finalise
  \/ \E n \in Nodes : MergePause(n) \/ MergeFailure(n) \/ MergeOutput(n) \/ Replay(n)
  \/ \E n \in Nodes, o \in Outcomes : Finish(n, o)

Next == Execute \/ (\E n \in Nodes : SetResume(n)) \/ Walk

Spec == Init /\ [][Next]_vars

-----------------------------------------------------------------------------
(* Properties *)

\* A router is stable when only its own node writes what it reads.
StableRouters ==
  \A s \in DOMAIN graph.reads : \A n \in Nodes : graph.reads[s] \in Writes[n] <=> n = s

\* Input: "resumes are idempotent and side-effect-free for already-finished
\* nodes".  Whatever pauses, failures and walks follow, a node recorded as
\* completed is never run again nor marked skipped, as long as the routers
\* are stable.
CompletedIsFinal ==
  [][StableRouters => \A n \in Nodes : status[n] = "completed" => status'[n] = "completed"]_vars

\* What a walk that returned without error leaves: each node completed,
\* skipped or paused, and a pause to resume from whenever a node is paused.
ReturnAccountsForAll ==
  StableRouters /\ pc = "idle" /\ returned = "ok" =>
    /\ pause # NoNode => status[pause] = "paused"
    /\ pause = NoNode => \A n \in graph.nodes : status[n] \in {"completed", "skipped"}

\* A node that was ever reached is a root or follows from the edges a completed
\* node chose: no walk, resumed or repeated, takes a branch that was not taken.
Chosen(m, n) == Leads(graph, runContext, ports[m], m, n)

Supported(n) ==
  n \in Roots(graph) \/ \E m \in graph.nodes : status[m] = "completed" /\ Chosen(m, n)

Caused ==
  StableRouters =>
    \A n \in graph.nodes : status[n] \notin {"none", "skipped"} => Supported(n)

\* A decision staged for a suspended node is reached: a walk that returns
\* without error has not left that node waiting.
DecisionConsumed ==
  StableRouters /\ pc = "idle" /\ returned = "ok" =>
    \A n \in resumes : status[n] # "paused"

\* The nodes that the first k waves of a walk visit.
FirstWaves[k \in 0..(Cardinality(Nodes) + 1)] ==
  IF k = 0 THEN {}
  ELSE Roots(graph) \cup FirstWaves[k - 1]
         \cup {n \in graph.nodes : \E m \in FirstWaves[k - 1] : status[m] = "completed" /\ Chosen(m, n)}

\* "Completed siblings have already been recorded above, so a later resume walk
\* replays them and re-derives the frontier" (walker.go:181-183): the run has
\* one front.  Whatever pauses, failures and walks it took, what has been
\* started lies in a number of waves of which all but the last are complete, so
\* no node, a join in particular, has run past one of an earlier wave that
\* waits for its decision or has failed, in this walk or in another.
OneFront ==
  StableRouters =>
    \E k \in 0..Cardinality(Nodes) :
      /\ \A n \in FirstWaves[k] : status[n] = "completed"
      /\ \A n \in graph.nodes : status[n] \notin {"none", "skipped"} => n \in FirstWaves[k + 1]

=============================================================================
