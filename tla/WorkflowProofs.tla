--------------------------- MODULE WorkflowProofs ---------------------------
(***************************************************************************)
(* CompletedIsFinal, Caused, ReturnAccountsForAll and DecisionConsumed for *)
(* every graph the compiler accepts, every set of gates, every cap on      *)
(* steps and any number of walks.                                          *)
(*                                                                         *)
(* The invariant: a node that was reached is a root, or a completed node   *)
(* leads to it; and what a walk has visited is closed under the edges      *)
(* chosen, up to the wave it has still to run.  At the end of a walk       *)
(* nothing is left to run, so a completed node the walk missed would need  *)
(* a completed predecessor it missed as well; the set of such nodes would  *)
(* close on itself, which Compile excludes.                                *)
(*                                                                         *)
(* For decisions, the sets of nodes that walks have visited before a wave  *)
(* are the least family that grows by one wave at a time once all of it    *)
(* has completed.  Its members are ordered by inclusion, which is what     *)
(* makes walks of one run comparable.                                      *)
(***************************************************************************)
EXTENDS Workflow, TLAPS

\* Every value has its shape; only nodes of the graph are ever visited.
Typed ==
  /\ Compile(graph) /\ graph.nodes \subseteq Nodes
  /\ status \in [Nodes -> Statuses]
  /\ DOMAIN ports = Nodes
  /\ DOMAIN runContext = Keys
  /\ wave \subseteq graph.nodes /\ visited \subseteq graph.nodes
  /\ next \subseteq graph.nodes /\ pending \subseteq graph.nodes /\ replayed \subseteq Nodes
  /\ \A n \in Nodes : status[n] = "completed" => n \in graph.nodes

\* A node that was reached has what led to it.
ReachedSupported ==
  \A n \in graph.nodes : status[n] \notin {"none", "skipped"} => Supported(n)

\* Between two waves: everything visited has completed, and the wave holds
\* all it leads to.
BetweenWaves ==
  pc = "wave" =>
    /\ Roots(graph) \subseteq visited \cup wave
    /\ \A n \in wave : Supported(n)
    /\ \A m \in visited : status[m] = "completed"
    /\ \A m \in visited, n \in graph.nodes : Chosen(m, n) => n \in visited \cup wave

\* Within a wave: the same of the results merged so far and the next wave.
WithinWave ==
  pc = "run" =>
    /\ Roots(graph) \subseteq visited
    /\ \A n \in pending : Supported(n)
    /\ \A n \in next : Supported(n)
    /\ \A n \in pending :
         status[n] = IF n \in replayed THEN "completed" ELSE "running"
    /\ \A m \in visited \ pending : status[m] = "completed" \/ failed \/ suspended
    /\ \A m \in visited \ pending : status[m] = "completed" =>
         \A n \in graph.nodes : Chosen(m, n) => n \in visited \cup next

WInv ==
  /\ Typed
  /\ StableRouters => ReachedSupported /\ BetweenWaves /\ WithinWave

-----------------------------------------------------------------------------
(* Lemmas about the operators. *)

\* The roots are nodes of the graph.
LEMMA RootsAreNodes == \A g : Roots(g) \subseteq g.nodes
BY DEF Roots

\* An edge that is chosen is an edge the compiler saw.
LEMMA LeadsIsAdjacent ==
  ASSUME NEW g, NEW c, NEW p, NEW m, NEW n, Leads(g, c, p, m, n)
  PROVE  Adjacent(g, m, n)
<1>1. CASE m \in DOMAIN g.targets
  BY <1>1 DEF Leads, Adjacent
<1>2. CASE m \notin DOMAIN g.targets
  <2>1. [from |-> m, port |-> p, to |-> n] \in g.edges
    BY <1>2 DEF Leads
  <2> QED BY <2>1 DEF Adjacent
<1> QED BY <1>1, <1>2

\* Two contexts that agree on what a node's router reads choose the same edges.
LEMMA LeadsAgrees ==
  ASSUME NEW g, NEW c, NEW d, NEW p, NEW m, NEW n,
         m \in DOMAIN g.targets => c[g.reads[m]] = d[g.reads[m]]
  PROVE  Leads(g, c, p, m, n) <=> Leads(g, d, p, m, n)
BY DEF Leads

\* Completed nodes outside a set that is closed under chosen edges and holds
\* the roots cannot exist.
LEMMA ClosedHoldsCompleted ==
  ASSUME Compile(graph), ReachedSupported, NEW V \in SUBSET graph.nodes,
         Roots(graph) \subseteq V,
         \A m \in V, n \in graph.nodes : Chosen(m, n) => n \in V
  PROVE  \A n \in graph.nodes : status[n] = "completed" => n \in V
<1> DEFINE B == {n \in graph.nodes : status[n] = "completed" /\ n \notin V}
<1>1. SUFFICES ASSUME B # {} PROVE FALSE
  OBVIOUS
<1>2. PICK n \in B : \A m \in B : ~Adjacent(graph, m, n)
  BY <1>1 DEF Compile, Acyclic
<1>3. Supported(n) /\ n \notin Roots(graph)
  BY <1>2 DEF ReachedSupported
<1>4. PICK m \in graph.nodes : status[m] = "completed" /\ Chosen(m, n)
  BY <1>3 DEF Supported
<1>5. Adjacent(graph, m, n)
  BY <1>4, LeadsIsAdjacent DEF Chosen
<1>6. m \in V
  BY <1>2, <1>4, <1>5
<1> QED BY <1>2, <1>4, <1>6

-----------------------------------------------------------------------------
(* The steps of the walk. *)

\* Whether a node is supported only depends on who has completed and on what
\* was chosen.
LEMMA SupportedFrame ==
  ASSUME UNCHANGED <<graph, runContext, ports>>,
         \A m \in graph.nodes : status[m] = "completed" => status'[m] = "completed"
  PROVE  /\ \A m, n : Chosen(m, n)' <=> Chosen(m, n)
         /\ \A n : Supported(n) => Supported(n)'
<1>1. \A m, n : Chosen(m, n)' <=> Chosen(m, n)
  BY DEF Chosen
<1> QED BY <1>1 DEF Supported

LEMMA InitW == Init => WInv
<1> SUFFICES ASSUME Init PROVE WInv
  OBVIOUS
<1>1. Compile(graph) /\ graph.nodes \subseteq Nodes
  BY DEF Init, Compile, IsGraph
<1>2. Typed
  BY <1>1 DEF Init, Typed, Statuses
<1>3. ReachedSupported /\ BetweenWaves /\ WithinWave
  BY <1>1 DEF Init, ReachedSupported, BetweenWaves, WithinWave
<1> QED BY <1>2, <1>3 DEF WInv

\* The walk starts: the roots are supported.
LEMMA ExecuteW == WInv /\ Execute => WInv'
<1> SUFFICES ASSUME WInv, Execute PROVE WInv'
  OBVIOUS
<1>1. Typed'
  BY RootsAreNodes DEF WInv, Typed, Execute
<1>2. SUFFICES ASSUME StableRouters PROVE (ReachedSupported /\ BetweenWaves /\ WithinWave)'
  BY <1>1 DEF WInv, StableRouters, Execute
<1>3. ReachedSupported'
  BY <1>2, SupportedFrame DEF WInv, ReachedSupported, Execute
<1>4. BetweenWaves'
  BY DEF BetweenWaves, Supported, Execute
<1>5. WithinWave'
  BY DEF WithinWave, Execute
<1> QED BY <1>3, <1>4, <1>5

\* A wave starts: what completed stays so.
LEMMA DispatchW ==
  ASSUME WInv, Dispatch
  PROVE  WInv' /\ \A n \in Nodes : status[n] = "completed" => status'[n] = "completed"
<1> DEFINE unique == wave \ visited
           fresh == {n \in unique : status[n] # "completed"}
<1>1. /\ pc = "wave" /\ visited' = visited \cup unique
      /\ status' = [n \in Nodes |-> IF n \in fresh THEN "running" ELSE status[n]]
      /\ next' = {} /\ UNCHANGED <<graph, ports, runContext, wave>>
      /\ \/ pc' = "idle" /\ UNCHANGED <<replayed, pending>>
         \/ pc' = "run" /\ pending' = unique /\ replayed' = unique \ fresh
  BY Zenon DEF Dispatch, Return
<1>2. /\ \A n \in Nodes : status[n] = "completed" <=> status'[n] = "completed"
      /\ \A n \in Nodes \ wave : status'[n] = status[n]
  BY <1>1 DEF WInv, Typed, Statuses
<1>3. Typed'
  BY <1>1, <1>2 DEF WInv, Typed, Statuses
<1>4. ASSUME StableRouters PROVE (ReachedSupported /\ BetweenWaves /\ WithinWave)'
  <2>1. /\ \A m, n : Chosen(m, n)' <=> Chosen(m, n)
        /\ \A n : Supported(n) => Supported(n)'
    BY <1>1, <1>2, SupportedFrame DEF WInv, Typed
  <2>2. ReachedSupported'
    BY <1>1, <1>2, <1>4, <2>1 DEF WInv, ReachedSupported, BetweenWaves, Typed
  <2>3. BetweenWaves'
    BY <1>1 DEF BetweenWaves
  <2>4. BetweenWaves /\ Typed
    BY <1>4 DEF WInv
  <2>5. WithinWave'
    <3>1. SUFFICES ASSUME pc' = "run" PROVE WithinWave'
      BY DEF WithinWave
    <3>2. Roots(graph)' \subseteq visited' /\ \A n \in pending' : Supported(n)'
      BY <1>1, <2>1, <2>4, <3>1 DEF BetweenWaves
    <3>3. \A n \in pending' :
            status'[n] = IF n \in replayed' THEN "completed" ELSE "running"
      BY <1>1, <2>4, <3>1 DEF Typed
    <3>4. \A m \in visited' \ pending' : status'[m] = "completed"
      BY <1>1, <1>2, <2>4, <3>1 DEF BetweenWaves, Typed
    <3>5. \A m \in visited' \ pending' : \A n \in graph'.nodes :
            Chosen(m, n)' => n \in visited'
      BY <1>1, <2>1, <2>4, <3>1 DEF BetweenWaves
    <3> QED BY <1>1, <3>2, <3>3, <3>4, <3>5 DEF WithinWave
  <2> QED BY <2>2, <2>3, <2>5
<1>5. StableRouters' => StableRouters
  BY <1>1 DEF StableRouters
<1> QED BY <1>2, <1>3, <1>4, <1>5 DEF WInv


\* A pausing or failing node was running, so nothing completed is touched.
LEMMA MergeBadW ==
  ASSUME WInv, NEW n \in Nodes, MergePause(n) \/ MergeFailure(n)
  PROVE  /\ StableRouters => WInv' /\ \A m \in Nodes : status[m] = "completed" => status'[m] = "completed"
         /\ Typed'
<1>1. /\ pc = "run" /\ pc' = "run" /\ n \in pending /\ n \notin replayed
      /\ pending' = pending \ {n} /\ (failed' \/ suspended')
      /\ UNCHANGED <<graph, ports, runContext, visited, wave, replayed, next>>
      /\ (failed => failed') /\ (suspended => suspended')
  BY DEF MergePause, MergeFailure, First
<1>2. PICK s \in {"paused", "failed"} : status' = [status EXCEPT ![n] = s]
  BY DEF MergePause, MergeFailure
<1>3. Typed /\ Typed'
  BY <1>1, <1>2 DEF WInv, Typed, Statuses
<1>4. SUFFICES ASSUME StableRouters
               PROVE  /\ (ReachedSupported /\ BetweenWaves /\ WithinWave)'
                      /\ \A m \in Nodes : status[m] = "completed" => status'[m] = "completed"
  BY <1>3 DEF WInv
<1>5. WithinWave /\ ReachedSupported
  BY <1>4 DEF WInv
<1>6. status[n] = "running"
  BY <1>1, <1>5 DEF WithinWave
<1>7. \A m \in Nodes : status[m] = "completed" <=> status'[m] = "completed"
  BY <1>2, <1>3, <1>6 DEF Typed
<1>8. /\ \A m, k : Chosen(m, k)' <=> Chosen(m, k)
      /\ \A k : Supported(k) => Supported(k)'
  BY <1>1, <1>3, <1>7, SupportedFrame DEF Typed
<1>9. ReachedSupported'
  BY <1>1, <1>2, <1>3, <1>5, <1>8 DEF ReachedSupported, WithinWave, Typed
<1>10. BetweenWaves'
  BY <1>1 DEF BetweenWaves
<1>11. WithinWave'
  <2>1. Roots(graph)' \subseteq visited' /\ (\A k \in pending' : Supported(k)')
        /\ (\A k \in next' : Supported(k)')
    BY <1>1, <1>5, <1>8 DEF WithinWave
  <2>2. \A k \in pending' :
          status'[k] = IF k \in replayed' THEN "completed" ELSE "running"
    BY <1>1, <1>2, <1>3, <1>5 DEF WithinWave, Typed
  <2>3. \A m \in visited' \ pending' : status'[m] = "completed" =>
          \A k \in graph'.nodes : Chosen(m, k)' => k \in visited' \cup next'
    <3>1. SUFFICES ASSUME NEW m \in visited' \ pending', status'[m] = "completed"
                   PROVE  \A k \in graph'.nodes : Chosen(m, k)' => k \in visited' \cup next'
      OBVIOUS
    <3>2. m \in visited \ pending /\ status[m] = "completed"
      BY <1>1, <1>2, <1>3, <1>6, <1>7, <3>1 DEF Typed
    <3> QED BY <1>1, <1>5, <1>8, <3>2 DEF WithinWave
  <2> QED BY <1>1, <2>1, <2>2, <2>3 DEF WithinWave
<1> QED BY <1>7, <1>9, <1>10, <1>11

\* What a result merged or replayed leaves of the choices made before.
LEMMA ChoicesKept ==
  ASSUME WInv, StableRouters, NEW n \in Nodes, MergeOutput(n) \/ Replay(n)
  PROVE  /\ \A m \in graph.nodes \ {n} : \A k : Chosen(m, k)' <=> Chosen(m, k)
         /\ n \in replayed => \A k : Chosen(n, k)' <=> Chosen(n, k)
         /\ next' = next \cup ({k \in graph.nodes : Chosen(n, k)'} \ visited)
         /\ Typed'
<1>1. Typed /\ graph' = graph /\ IsGraph(graph)
  BY DEF WInv, Typed, Compile, MergeOutput, Replay
<1>2. CASE MergeOutput(n)
  <2>1. /\ runContext' = MergeContext(runContext, n, result[n].value)
        /\ ports' = [ports EXCEPT ![n] = result[n].port]
        /\ n \notin replayed
        /\ next' = next \cup (Successors(graph, runContext', result[n].port, n) \ visited)
        /\ status' = [status EXCEPT ![n] = "completed"] /\ n \in pending
        /\ pending' = pending \ {n} /\ UNCHANGED <<wave, visited, replayed>>
    BY <1>2 DEF MergeOutput, First
  <2>2. ports'[n] = result[n].port /\ \A m \in Nodes \ {n} : ports'[m] = ports[m]
    BY <1>1, <2>1 DEF Typed
  <2>3. ASSUME NEW m \in graph.nodes \ {n}, NEW k PROVE Chosen(m, k)' <=> Chosen(m, k)
    <3>1. ASSUME m \in DOMAIN graph.targets
          PROVE  runContext'[graph.reads[m]] = runContext[graph.reads[m]]
      <4>1. graph.reads[m] \in Keys /\ graph.reads[m] \notin Writes[n]
        BY <1>1, <2>3, <3>1 DEF IsGraph, StableRouters
      <4> QED BY <2>1, <4>1 DEF MergeContext
    <3>2. Leads(graph, runContext', ports[m], m, k) <=> Leads(graph, runContext, ports[m], m, k)
      BY <3>1, LeadsAgrees
    <3>3. ports'[m] = ports[m]
      BY <1>1, <2>2, <2>3 DEF Typed
    <3> QED BY <1>1, <3>2, <3>3 DEF Chosen
  <2>4. next' = next \cup ({k \in graph.nodes : Chosen(n, k)'} \ visited)
    BY <1>1, <2>1, <2>2 DEF Successors, Chosen
  <2>5. Typed'
    <3>1. next' \subseteq graph.nodes
      BY <1>1, <2>4 DEF Typed
    <3>2. DOMAIN runContext' = Keys /\ DOMAIN ports' = Nodes
      BY <1>1, <2>1 DEF Typed, MergeContext
    <3> QED BY <1>1, <2>1, <3>1, <3>2 DEF Typed, Statuses
  <2> QED BY <2>1, <2>3, <2>4, <2>5
<1>3. CASE Replay(n)
  <2>1. /\ next' = next \cup (Successors(graph, runContext, ports[n], n) \ visited)
        /\ status' = [status EXCEPT ![n] = "completed"] /\ n \in pending
        /\ pending' = pending \ {n}
        /\ UNCHANGED <<wave, visited, replayed, ports, runContext>>
    BY <1>3 DEF Replay, First
  <2>2. \A m, k : Chosen(m, k)' <=> Chosen(m, k)
    BY <1>1, <2>1 DEF Chosen
  <2>3. next' = next \cup ({k \in graph.nodes : Chosen(n, k)'} \ visited)
    BY <1>1, <2>1, <2>2 DEF Successors, Chosen
  <2>4. Typed'
    <3>1. next' \subseteq graph.nodes
      BY <1>1, <2>3 DEF Typed
    <3> QED BY <1>1, <2>1, <3>1 DEF Typed, Statuses
  <2> QED BY <2>2, <2>3, <2>4
<1> QED BY <1>2, <1>3

\* A result merged or replayed: its node completes and its edges join the next wave.
LEMMA MergeGoodW ==
  ASSUME WInv, StableRouters, NEW n \in Nodes, MergeOutput(n) \/ Replay(n)
  PROVE  WInv' /\ \A m \in Nodes : status[m] = "completed" => status'[m] = "completed"
<1>1. /\ pc = "run" /\ pc' = "run" /\ n \in pending
      /\ pending' = pending \ {n}
      /\ status' = [status EXCEPT ![n] = "completed"]
      /\ UNCHANGED <<graph, visited, wave, replayed, failed, suspended>>
      /\ n \notin replayed \/ n \in replayed
  BY DEF MergeOutput, Replay, First
<1>2. /\ \A m \in graph.nodes \ {n} : \A k : Chosen(m, k)' <=> Chosen(m, k)
      /\ n \in replayed => \A k : Chosen(n, k)' <=> Chosen(n, k)
      /\ next' = next \cup ({k \in graph.nodes : Chosen(n, k)'} \ visited)
      /\ Typed'
  BY ChoicesKept
<1>3. Typed /\ WithinWave /\ ReachedSupported
  BY DEF WInv
<1>4. n \notin replayed => status[n] = "running"
  BY <1>1, <1>3 DEF WithinWave
<1>5. /\ \A m \in Nodes : status[m] = "completed" => status'[m] = "completed"
      /\ \A m \in Nodes \ {n} : status'[m] = status[m]
      /\ status'[n] = "completed" /\ n \in graph.nodes
  BY <1>1, <1>3 DEF Typed
<1>6. \A k : Supported(k) => Supported(k)'
  <2>1. SUFFICES ASSUME NEW k, Supported(k), k \notin Roots(graph) PROVE Supported(k)'
    BY <1>1 DEF Supported
  <2>2. PICK m \in graph.nodes : status[m] = "completed" /\ Chosen(m, k)
    BY <2>1 DEF Supported
  <2>3. status'[m] = "completed" /\ Chosen(m, k)'
    BY <1>2, <1>3, <1>4, <1>5, <2>2 DEF Typed
  <2> QED BY <1>1, <2>3 DEF Supported
<1>7. ReachedSupported'
  BY <1>1, <1>3, <1>5, <1>6 DEF ReachedSupported, WithinWave, Typed
<1>8. BetweenWaves'
  BY <1>1 DEF BetweenWaves
<1>9. WithinWave'
  <2>1. Roots(graph)' \subseteq visited' /\ (\A k \in pending' : Supported(k)')
    BY <1>1, <1>3, <1>6 DEF WithinWave
  <2>2. \A k \in next' : Supported(k)'
    BY <1>1, <1>2, <1>3, <1>5, <1>6 DEF WithinWave, Supported
  <2>3. \A k \in pending' :
          status'[k] = IF k \in replayed' THEN "completed" ELSE "running"
    BY <1>1, <1>3, <1>5 DEF WithinWave, Typed
  <2>4. \A m \in visited' \ pending' : status'[m] = "completed" \/ failed' \/ suspended'
    BY <1>1, <1>3, <1>5 DEF WithinWave, Typed
  <2>5. \A m \in visited' \ pending' : status'[m] = "completed" =>
          \A k \in graph'.nodes : Chosen(m, k)' => k \in visited' \cup next'
    <3>1. SUFFICES ASSUME NEW m \in visited' \ pending', status'[m] = "completed",
                          NEW k \in graph.nodes, Chosen(m, k)'
                   PROVE  k \in visited' \cup next'
      BY <1>1
    <3>2. CASE m = n
      BY <1>1, <1>2, <3>1, <3>2
    <3>3. CASE m # n
      <4>1. m \in visited \ pending /\ status[m] = "completed" /\ Chosen(m, k)
        BY <1>1, <1>2, <1>3, <1>5, <3>1, <3>3 DEF Typed
      <4> QED BY <1>1, <1>2, <1>3, <3>1, <4>1 DEF WithinWave
    <3> QED BY <3>2, <3>3
  <2> QED BY <1>1, <2>1, <2>2, <2>3, <2>4, <2>5 DEF WithinWave
<1> QED BY <1>2, <1>5, <1>7, <1>8, <1>9 DEF WInv

\* The end of a wave without errors and pauses: all of it has completed.
LEMMA EndWaveW == WInv /\ EndWave => WInv'
<1> SUFFICES ASSUME WInv, EndWave PROVE WInv'
  OBVIOUS
<1>1. /\ pc = "run" /\ pending = {}
      /\ UNCHANGED <<graph, status, ports, runContext, visited, replayed, pending, next>>
      /\ \/ pc' = "idle" /\ wave' = wave
         \/ pc' = "wave" /\ wave' = next /\ ~failed /\ ~suspended
  BY Zenon DEF EndWave, Return, input
<1>2. Typed'
  BY <1>1 DEF WInv, Typed
<1>3. SUFFICES ASSUME StableRouters PROVE (ReachedSupported /\ BetweenWaves /\ WithinWave)'
  BY <1>1, <1>2 DEF WInv, StableRouters
<1>4. /\ \A m, k : Chosen(m, k)' <=> Chosen(m, k)
      /\ \A k : Supported(k) => Supported(k)'
  BY <1>1, SupportedFrame
<1>5. ReachedSupported /\ WithinWave
  BY <1>3 DEF WInv
<1>6. ReachedSupported'
  BY <1>1, <1>4, <1>5 DEF ReachedSupported
<1>7. BetweenWaves'
  BY <1>1, <1>4, <1>5 DEF WithinWave, BetweenWaves
<1>8. WithinWave'
  BY <1>1 DEF WithinWave
<1> QED BY <1>6, <1>7, <1>8

\* The end of a walk: every completed node was visited, so none is skipped.
LEMMA FinaliseW ==
  ASSUME WInv, StableRouters, Finalise
  PROVE  WInv' /\ \A n \in Nodes : status[n] = "completed" => status'[n] = "completed"
<1>1. /\ pc = "wave" /\ wave \subseteq visited /\ pc' = "idle"
      /\ status' = [n \in Nodes |->
           IF n \in graph.nodes \ visited /\ status[n] # "paused" THEN "skipped" ELSE status[n]]
      /\ UNCHANGED <<graph, ports, runContext, visited, wave, replayed, pending, next>>
  BY DEF Finalise, Return
<1>2. Typed /\ BetweenWaves /\ ReachedSupported
  BY DEF WInv
<1>3. \A n \in graph.nodes : status[n] = "completed" => n \in visited
  <2>1. Roots(graph) \subseteq visited
    BY <1>1, <1>2 DEF BetweenWaves
  <2>2. \A m \in visited, n \in graph.nodes : Chosen(m, n) => n \in visited
    BY <1>1, <1>2 DEF BetweenWaves
  <2>3. visited \in SUBSET graph.nodes /\ Compile(graph)
    BY <1>2 DEF Typed
  <2> QED BY <1>2, <2>1, <2>2, <2>3, ClosedHoldsCompleted
<1>4. \A n \in Nodes : status[n] = "completed" <=> status'[n] = "completed"
  BY <1>1, <1>2, <1>3 DEF Typed
<1>5. Typed'
  BY <1>1, <1>2, <1>4 DEF Typed, Statuses
<1>6. ReachedSupported'
  <2>1. \A k : Supported(k) => Supported(k)'
    BY <1>1, <1>2, <1>4, SupportedFrame DEF Typed
  <2> QED BY <1>1, <1>2, <1>4, <2>1 DEF ReachedSupported, Typed
<1>7. BetweenWaves' /\ WithinWave'
  BY <1>1 DEF BetweenWaves, WithinWave
<1> QED BY <1>4, <1>5, <1>6, <1>7 DEF WInv

\* Staging a decision, and a node returning, leave all of it alone.
LEMMA QuietW ==
  ASSUME WInv,
         UNCHANGED <<graph, status, ports, runContext, pc, visited, wave, replayed, pending,
                     next, failed, suspended>>
  PROVE  WInv' /\ status' = status
<1>1. /\ \A m, k : Chosen(m, k)' <=> Chosen(m, k)
      /\ \A k : Supported(k)' <=> Supported(k)
  BY DEF Chosen, Supported
<1>2. Typed'
  BY DEF WInv, Typed
<1>3. StableRouters' => StableRouters
  BY DEF StableRouters
<1>4. ReachedSupported => ReachedSupported'
  BY <1>1 DEF ReachedSupported
<1>5. BetweenWaves => BetweenWaves'
  BY <1>1 DEF BetweenWaves
<1>6. WithinWave => WithinWave'
  BY <1>1 DEF WithinWave
<1> QED BY <1>2, <1>3, <1>4, <1>5, <1>6 DEF WInv

\* Every step.
LEMMA NextW ==
  ASSUME StableRouters, WInv, [Next]_vars
  PROVE  WInv' /\ \A n \in Nodes : status[n] = "completed" => status'[n] = "completed"
<1>1. CASE Execute
  BY <1>1, ExecuteW DEF Execute
<1>2. CASE \E n \in Nodes : SetResume(n)
  BY <1>2, QuietW DEF SetResume, walkVars
<1>3. CASE Dispatch
  BY <1>3, DispatchW
<1>4. CASE EndWave
  <2>1. status' = status
    BY <1>4 DEF EndWave, input
  <2> QED BY <1>4, <2>1, EndWaveW
<1>5. CASE Finalise
  BY <1>5, FinaliseW
<1>6. CASE \E n \in Nodes : MergePause(n) \/ MergeFailure(n)
  BY <1>6, MergeBadW
<1>7. CASE \E n \in Nodes : MergeOutput(n) \/ Replay(n)
  BY <1>7, MergeGoodW
<1>8. CASE \E n \in Nodes, o \in Outcomes : Finish(n, o)
  BY <1>8, QuietW DEF Finish, input
<1>9. CASE UNCHANGED vars
  BY <1>9, QuietW DEF vars, input, walkVars
<1> QED BY <1>1, <1>2, <1>3, <1>4, <1>5, <1>6, <1>7, <1>8, <1>9 DEF Next, Walk

\* The graph is compiled once, so stable routers stay stable.
LEMMA GraphStays == [Next]_vars => graph' = graph /\ (StableRouters' <=> StableRouters)
<1> SUFFICES ASSUME [Next]_vars PROVE graph' = graph
  BY DEF StableRouters
<1> QED
  BY DEF Next, Walk, Execute, SetResume, Dispatch, EndWave, Finalise, MergePause,
         MergeFailure, MergeOutput, Replay, Finish, vars

\* A graph whose routers are stable keeps the invariant.
StableInv == StableRouters => WInv

LEMMA StableInvariance == Spec => []StableInv
<1>1. Init => StableInv
  BY InitW DEF StableInv
<1>2. StableInv /\ [Next]_vars => StableInv'
  BY GraphStays, NextW DEF StableInv
<1> QED BY <1>1, <1>2, PTL DEF Spec

\* No walk runs a completed node again or marks it skipped.
THEOREM CompletedStays == Spec => CompletedIsFinal
<1>1. StableInv /\ [Next]_vars =>
        [StableRouters => \A n \in Nodes : status[n] = "completed" => status'[n] = "completed"]_vars
  BY NextW DEF StableInv
<1> QED BY <1>1, StableInvariance, PTL DEF Spec, CompletedIsFinal

\* A node that was reached, now or in an earlier walk, is a root or one a
\* completed node chose: no walk takes a branch that was not taken.
THEOREM NoOtherBranch == Spec => []Caused
<1>1. StableInv => Caused
  BY DEF StableInv, WInv, ReachedSupported, Caused
<1> QED BY <1>1, StableInvariance, PTL

-----------------------------------------------------------------------------
(* What a walk that returns without error leaves. *)

\* The pause names a paused node once a result of the wave was a pause, and a
\* walk that returned without error names one or has dealt with every node.
PauseInv ==
  /\ pc = "wave" => pause = NoNode
  /\ pc = "run" => (suspended <=> pause # NoNode)
  /\ pc = "run" /\ pause # NoNode => pause \in Nodes /\ status[pause] = "paused"
  /\ pc = "idle" /\ returned = "ok" =>
       IF pause = NoNode THEN \A n \in graph.nodes : status[n] \in {"completed", "skipped"}
       ELSE status[pause] = "paused"

\* At the end of a walk what it visited has completed, and what it did not
\* visit was never reached: no node waits.
LEMMA FinaliseAccounts ==
  ASSUME WInv, StableRouters, Finalise
  PROVE  \A n \in graph.nodes : status'[n] \in {"completed", "skipped"}
<1>1. /\ pc = "wave" /\ wave \subseteq visited
      /\ status' = [n \in Nodes |->
           IF n \in graph.nodes \ visited /\ status[n] # "paused" THEN "skipped" ELSE status[n]]
  BY DEF Finalise
<1>2. Typed /\ BetweenWaves /\ ReachedSupported
  BY DEF WInv
<1>3. ASSUME NEW n \in graph.nodes, n \notin visited, status[n] = "paused" PROVE FALSE
  <2>1. Supported(n)
    BY <1>3, <1>2 DEF ReachedSupported
  <2>2. n \notin Roots(graph)
    BY <1>1, <1>2, <1>3 DEF BetweenWaves
  <2>3. PICK m \in graph.nodes : status[m] = "completed" /\ Chosen(m, n)
    BY <2>1, <2>2 DEF Supported
  <2>4. m \in visited
    <3>1. Roots(graph) \subseteq visited /\ visited \in SUBSET graph.nodes /\ Compile(graph)
      BY <1>1, <1>2 DEF BetweenWaves, Typed
    <3>2. \A k \in visited, j \in graph.nodes : Chosen(k, j) => j \in visited
      BY <1>1, <1>2 DEF BetweenWaves
    <3> QED BY <1>2, <2>3, <3>1, <3>2, ClosedHoldsCompleted
  <2> QED BY <1>1, <1>2, <1>3, <2>3, <2>4 DEF BetweenWaves
<1>4. \A n \in visited : status[n] = "completed"
  BY <1>1, <1>2 DEF BetweenWaves
<1> QED BY <1>1, <1>2, <1>3, <1>4 DEF Typed

\* Every step keeps it.
LEMMA PauseStep ==
  ASSUME StableRouters, WInv, PauseInv, [Next]_vars
  PROVE  PauseInv'
<1>1. CASE Execute
  BY <1>1 DEF Execute, PauseInv
<1>2. ASSUME NEW n \in Nodes, SetResume(n) PROVE PauseInv'
  BY <1>2 DEF SetResume, PauseInv, walkVars
<1>3. CASE Dispatch
  <2>1. /\ pc = "wave" /\ suspended' = FALSE /\ pause' = pause
        /\ (pc' = "idle" /\ returned' = "error") \/ pc' = "run"
    BY <1>3, Zenon DEF Dispatch, Return
  <2> QED BY <2>1 DEF PauseInv
<1>4. CASE EndWave
  <2>1. /\ pc = "run" /\ UNCHANGED <<graph, status, pause>>
        /\ \/ pc' = "idle" /\ returned' = "error"
           \/ pc' = "idle" /\ suspended
           \/ pc' = "wave" /\ ~suspended
    BY <1>4, Zenon DEF EndWave, Return, input
  <2> QED BY <2>1 DEF PauseInv
<1>5. CASE Finalise
  <2>1. pc = "wave" /\ pc' = "idle" /\ UNCHANGED <<graph, pause>>
    BY <1>5 DEF Finalise, Return
  <2> QED BY <1>5, <2>1, FinaliseAccounts DEF PauseInv
<1>6. ASSUME NEW n \in Nodes, MergePause(n) PROVE PauseInv'
  <2>1. /\ pc' = "run" /\ pause' = n /\ suspended' = TRUE
        /\ status' = [status EXCEPT ![n] = "paused"]
    BY <1>6 DEF MergePause
  <2>2. n # NoNode
    BY NodesAreOrdered
  <2> QED BY <2>1, <2>2 DEF PauseInv, WInv, Typed
<1>7. ASSUME NEW n \in Nodes, MergeFailure(n) \/ MergeOutput(n) \/ Replay(n) PROVE PauseInv'
  <2>1. /\ pc = "run" /\ pc' = "run" /\ n \in pending /\ UNCHANGED <<pause, suspended>>
        /\ \A k \in Nodes \ {n} : status'[k] = status[k]
    BY <1>7 DEF MergeFailure, MergeOutput, Replay, First, WInv, Typed
  <2>2. status[n] # "paused"
    BY <2>1 DEF WInv, WithinWave
  <2> QED BY <2>1, <2>2 DEF PauseInv
<1>8. ASSUME NEW n \in Nodes, NEW o \in Outcomes, Finish(n, o) PROVE PauseInv'
  BY <1>8 DEF Finish, input, PauseInv
<1>9. CASE UNCHANGED vars
  BY <1>9 DEF vars, input, walkVars, PauseInv
<1> QED BY <1>1, <1>2, <1>3, <1>4, <1>5, <1>6, <1>7, <1>8, <1>9 DEF Next, Walk

\* A walk that returned without error has completed or skipped each node, or
\* names a paused node to resume from.
THEOREM WalkAccounts == Spec => []ReturnAccountsForAll
<1> DEFINE PInv == StableRouters => PauseInv
<1>1. Init => PInv
  BY DEF Init, PauseInv
<1>2. StableInv /\ PInv /\ [Next]_vars => PInv'
  BY GraphStays, PauseStep DEF StableInv
<1>3. PInv => ReturnAccountsForAll
  BY DEF PauseInv, ReturnAccountsForAll
<1> QED BY <1>1, <1>2, <1>3, StableInvariance, PTL DEF Spec

-----------------------------------------------------------------------------
(* What a staged decision meets. *)

\* What has been reached after one more wave than what is in V.
Expand(V) == Roots(graph) \cup V \cup {n \in graph.nodes : \E m \in V : Chosen(m, n)}

Whole(V) == \A m \in V : status[m] = "completed"

\* What the walks of this run have visited or can visit before a wave, as long as
\* no node stands in their way: the least family with the empty set and, for
\* each member that has completed, the member of one more wave.
Closed(F) == {} \in F /\ \A V \in F : Whole(V) => Expand(V) \in F
Families == SUBSET (SUBSET graph.nodes)
Prefix(V) == \A F \in Families : Closed(F) => V \in F

\* A node that waits was reached when everything before it had completed, and
\* what a walk has visited is a prefix; a visited node has used its decision.
WaitsBehindPrefix(n) ==
  n \in graph.nodes /\ \E U \in SUBSET graph.nodes : Prefix(U) /\ Whole(U) /\ n \in Expand(U)

PrefixVisited ==
  /\ pc = "wave" => Prefix(visited) /\ wave \subseteq Expand(visited)
  /\ pc = "run" =>
       /\ \E W \in SUBSET graph.nodes :
            Prefix(W) /\ Whole(W) /\ visited = Expand(W)
       /\ pending \subseteq visited
       /\ \A n \in next : \E m \in visited : status[m] = "completed" /\ Chosen(m, n)
       /\ suspended \/ failed => \E m \in visited \ pending : status[m] # "completed"

DecisionsUsed ==
  /\ resumes \subseteq Nodes /\ DOMAIN result = Nodes
  /\ pc \in {"wave", "run"} => \A n \in visited \cap resumes : status[n] # "paused"
  /\ pc = "run" => \A n \in pending \ (replayed \cup running) :
                     result[n].kind = "pause" => n \notin resumes

DInv ==
  /\ \A n \in Nodes : status[n] = "paused" => WaitsBehindPrefix(n)
  /\ PrefixVisited /\ DecisionsUsed
  /\ DecisionConsumed

\* One more wave of the graph's nodes is a set of the graph's nodes.
LEMMA ExpandNodes ==
  \A V \in SUBSET graph.nodes : Expand(V) \in SUBSET graph.nodes /\ V \subseteq Expand(V)
BY RootsAreNodes DEF Expand

\* The empty set is a prefix, and so is what a completed one leads to.
LEMMA PrefixGrows ==
  /\ Prefix({})
  /\ \A V : Prefix(V) /\ Whole(V) => Prefix(Expand(V))
BY DEF Prefix, Closed

LEMMA PrefixNodes == \A V : Prefix(V) => V \in SUBSET graph.nodes
<1>1. Closed(SUBSET graph.nodes)
  BY ExpandNodes DEF Closed
<1> QED
  BY <1>1 DEF Prefix, Families

\* The set of the prefixes.
Prefixes == {V \in SUBSET graph.nodes : Prefix(V)}

LEMMA PrefixesClosed ==
  /\ Closed(Prefixes)
  /\ \A F \in SUBSET Prefixes : Closed(F) => F = Prefixes
<1>1. Closed(Prefixes)
  <2>1. {} \in Prefixes
    BY PrefixGrows DEF Prefixes
  <2>2. ASSUME NEW V \in Prefixes, Whole(V) PROVE Expand(V) \in Prefixes
    BY <2>2, PrefixGrows, ExpandNodes DEF Prefixes
  <2> QED
    BY <2>1, <2>2 DEF Closed
<1>2. ASSUME NEW F \in SUBSET Prefixes, Closed(F) PROVE Prefixes \subseteq F
  <2>1. F \in Families
    BY DEF Families, Prefixes
  <2> QED
    BY <1>2, <2>1 DEF Prefix, Prefixes
<1> QED
  BY <1>1, <1>2

\* Of two prefixes one is the other, or has all the other leads to and needed it
\* complete.
LEMMA PrefixesOrdered ==
  ASSUME NEW U \in Prefixes, NEW V \in Prefixes
  PROVE  U \subseteq V \/ (Whole(V) /\ Expand(V) \subseteq U)
<1> DEFINE Above(X, Y) == X \subseteq Y \/ (Whole(Y) /\ Expand(Y) \subseteq X)
<1> DEFINE F == {X \in Prefixes : \A Y \in Prefixes : Above(X, Y)}
<1>1. {} \in F
  BY PrefixesClosed DEF Closed
<1>2. ASSUME NEW X \in F, Whole(X) PROVE Expand(X) \in F
  <2> DEFINE G == {Y \in Prefixes : X \subseteq Y => Y = X \/ Expand(X) \subseteq Y}
  <2>1. X \in Prefixes /\ X \subseteq Expand(X) /\ Expand(X) \in Prefixes
    BY <1>2, ExpandNodes, PrefixesClosed DEF Prefixes, Closed
  <2>2. {} \in G
    BY <2>1, PrefixesClosed DEF Closed
  <2>3. ASSUME NEW Y \in G, Whole(Y) PROVE Expand(Y) \in G
    <3>1. Expand(Y) \in Prefixes /\ Y \subseteq Expand(Y)
      BY <2>3, ExpandNodes, PrefixesClosed DEF Prefixes, Closed
    <3>2. SUFFICES ASSUME X \subseteq Expand(Y) PROVE Expand(Y) = X \/ Expand(X) \subseteq Expand(Y)
      BY <3>1
    <3>3. CASE X \subseteq Y
      BY <2>3, <3>1, <3>3
    <3>4. CASE Expand(Y) \subseteq X
      BY <3>2, <3>4
    <3>5. X \subseteq Y \/ Expand(Y) \subseteq X
      BY <1>2, <2>3
    <3> QED
      BY <3>3, <3>4, <3>5
  <2>4. G = Prefixes
    BY <2>2, <2>3, PrefixesClosed DEF Closed
  <2> HIDE DEF G
  <2>5. ASSUME NEW Y \in Prefixes PROVE Above(Expand(X), Y)
    <3>1. CASE Whole(Y) /\ Expand(Y) \subseteq X
      BY <2>1, <3>1
    <3>2. CASE X \subseteq Y
      <4>1. Y = X \/ Expand(X) \subseteq Y
        BY <2>4, <3>2 DEF G
      <4> QED
        BY <1>2, <4>1
    <3>3. Above(X, Y)
      BY <1>2
    <3> QED
      BY <3>1, <3>2, <3>3
  <2> QED
    BY <2>1, <2>5
<1>3. F = Prefixes
  BY <1>1, <1>2, PrefixesClosed DEF Closed
<1> QED
  BY <1>3

\* A step that keeps what has completed and what that chose keeps the prefixes.
LEMMA PrefixKept ==
  ASSUME graph' = graph,
         \A m \in graph.nodes : status[m] = "completed" =>
           status'[m] = "completed" /\ \A n : Chosen(m, n)' <=> Chosen(m, n)
  PROVE  /\ \A V \in SUBSET graph.nodes : Whole(V) => Whole(V)' /\ Expand(V)' = Expand(V)
         /\ \A V : Prefix(V) => Prefix(V)'
<1>1. ASSUME NEW V \in SUBSET graph.nodes, Whole(V) PROVE Whole(V)' /\ Expand(V)' = Expand(V)
  <2>1. Whole(V)'
    BY <1>1 DEF Whole
  <2>2. \A m \in V : \A n : Chosen(m, n)' <=> Chosen(m, n)
    BY <1>1 DEF Whole
  <2> QED
    BY <2>1, <2>2 DEF Expand
<1>2. ASSUME NEW V, Prefix(V) PROVE Prefix(V)'
  <2> SUFFICES ASSUME NEW F \in Families, Closed(F)' PROVE V \in F
    BY DEF Prefix, Families
  <2>1. ASSUME NEW X \in F, Whole(X) PROVE Expand(X) \in F
    <3>1. X \in SUBSET graph.nodes
      BY DEF Families
    <3>2. Whole(X)' /\ Expand(X)' = Expand(X)
      BY <1>1, <2>1, <3>1
    <3> QED
      BY <3>2 DEF Closed
  <2>2. Closed(F)
    BY <2>1 DEF Closed
  <2> QED
    BY <1>2, <2>2 DEF Prefix
<1> QED
  BY <1>1, <1>2

\* Every step of the workflow is such a step.
LEMMA ChosenKept ==
  ASSUME StableRouters, WInv, [Next]_vars
  PROVE  /\ graph' = graph
         /\ \A m \in graph.nodes : status[m] = "completed" =>
              status'[m] = "completed" /\ \A n : Chosen(m, n)' <=> Chosen(m, n)
<1>1. graph' = graph /\ graph.nodes \subseteq Nodes
  BY GraphStays DEF WInv, Typed
<1>2. \A m \in graph.nodes : status[m] = "completed" => status'[m] = "completed"
  BY <1>1, NextW
<1>3. ASSUME NEW m \in graph.nodes, status[m] = "completed" PROVE \A n : Chosen(m, n)' <=> Chosen(m, n)
  <2>1. ASSUME UNCHANGED <<ports, runContext>> PROVE \A n : Chosen(m, n)' <=> Chosen(m, n)
    BY <1>1, <2>1 DEF Chosen
  <2>2. ASSUME NEW k \in Nodes, MergeOutput(k) \/ Replay(k) PROVE \A n : Chosen(m, n)' <=> Chosen(m, n)
    <3>1. k \in pending /\ pc = "run"
      BY <2>2 DEF MergeOutput, Replay, First
    <3>2. k \notin replayed => m # k
      BY <1>3, <3>1 DEF WInv, WithinWave
    <3> QED
      BY <2>2, <3>2, ChoicesKept
  <2>3. ASSUME ~\E k \in Nodes : MergeOutput(k) \/ Replay(k) PROVE UNCHANGED <<ports, runContext>>
    BY <2>3 DEF Next, Walk, Execute, SetResume, Dispatch, EndWave, Finalise, MergePause,
         MergeFailure, Finish, vars, input
  <2> QED
    BY <2>1, <2>2, <2>3
<1> QED
  BY <1>1, <1>2, <1>3

\* Such a step keeps the place of every node that goes on waiting.
LEMMA WaitKept ==
  ASSUME graph' = graph,
         \A m \in graph.nodes : status[m] = "completed" =>
           status'[m] = "completed" /\ \A n : Chosen(m, n)' <=> Chosen(m, n)
  PROVE  \A n : WaitsBehindPrefix(n) => WaitsBehindPrefix(n)'
<1> SUFFICES ASSUME NEW n, WaitsBehindPrefix(n) PROVE WaitsBehindPrefix(n)'
  OBVIOUS
<1>1. PICK U \in SUBSET graph.nodes : Prefix(U) /\ Whole(U) /\ n \in Expand(U)
  BY DEF WaitsBehindPrefix
<1>2. Prefix(U)' /\ Whole(U)' /\ Expand(U)' = Expand(U)
  BY <1>1, PrefixKept
<1> QED
  BY <1>1, <1>2 DEF WaitsBehindPrefix

\* A step that touches neither status nor choices leaves all of it as it is.
LEMMA PrefixFrame ==
  ASSUME UNCHANGED <<graph, status, ports, runContext>>
  PROVE  /\ \A m, n : Chosen(m, n)' <=> Chosen(m, n)
         /\ \A V : (Prefix(V)' <=> Prefix(V)) /\ (Whole(V)' <=> Whole(V)) /\ Expand(V)' = Expand(V)
         /\ \A n : WaitsBehindPrefix(n)' <=> WaitsBehindPrefix(n)
<1>1. \A m, n : Chosen(m, n)' <=> Chosen(m, n)
  BY DEF Chosen
<1>2. \A V : (Whole(V)' <=> Whole(V)) /\ Expand(V)' = Expand(V)
  BY <1>1 DEF Whole, Expand
<1>3. \A F : Closed(F)' <=> Closed(F)
  BY <1>2 DEF Closed
<1>4. \A V : Prefix(V)' <=> Prefix(V)
  BY <1>3 DEF Prefix, Families
<1> QED
  BY <1>1, <1>2, <1>4 DEF WaitsBehindPrefix

\* Before the first walk nothing waits.
LEMMA InitD == Init => DInv
BY DEF Init, DInv, PrefixVisited, DecisionsUsed, DecisionConsumed

\* A walk begins with the empty prefix.
LEMMA ExecuteD == DInv /\ Execute => DInv'
<1> SUFFICES ASSUME DInv, Execute PROVE DInv'
  OBVIOUS
<1>1. /\ pc' = "wave" /\ visited' = {} /\ wave' = Roots(graph)
      /\ UNCHANGED <<graph, status, ports, runContext, resumes, result>>
  BY DEF Execute
<1>2. (\A n \in Nodes : status[n] = "paused" => WaitsBehindPrefix(n))'
  BY <1>1, PrefixFrame DEF DInv
<1>3. Prefix(visited)'
  <2>1. Prefix({})'
    BY <1>1, PrefixFrame, PrefixGrows
  <2> QED
    BY <1>1, <2>1 DEF Prefix
<1>4. Roots(graph)' \subseteq Expand(visited)'
  BY DEF Expand
<1>5. PrefixVisited'
  BY <1>1, <1>3, <1>4 DEF PrefixVisited, Roots
<1> QED
  BY <1>1, <1>2, <1>5 DEF DInv, DecisionsUsed, DecisionConsumed

\* A staged decision comes between two walks.
LEMMA SetResumeD == DInv /\ (\E n \in Nodes : SetResume(n)) => DInv'
<1> SUFFICES ASSUME DInv, NEW n \in Nodes, SetResume(n) PROVE DInv'
  OBVIOUS
<1>1. /\ pc = "idle" /\ pc' = "idle" /\ resumes' = resumes \cup {n} /\ returned' = "none"
      /\ UNCHANGED <<graph, status, ports, runContext, result>>
  BY DEF SetResume, walkVars
<1> QED
  BY <1>1, PrefixFrame DEF DInv, PrefixVisited, DecisionsUsed, DecisionConsumed

\* A node with a decision does not come back with a pause.
LEMMA FinishD == DInv /\ (\E n \in Nodes, o \in Outcomes : Finish(n, o)) => DInv'
<1> SUFFICES ASSUME DInv, NEW n \in Nodes, NEW o \in Outcomes, Finish(n, o) PROVE DInv'
  OBVIOUS
<1>1. /\ running' = running \ {n} /\ result' = [result EXCEPT ![n] = o]
      /\ o.kind = "pause" => n \notin resumes
      /\ UNCHANGED <<graph, status, ports, runContext, resumes, pc, visited, wave, replayed, pending,
                     next, failed, suspended, returned>>
  BY DEF Finish, input
<1>2. (\A m \in Nodes : status[m] = "paused" => WaitsBehindPrefix(m))'
  BY <1>1, PrefixFrame DEF DInv
<1>3. PrefixVisited'
  BY <1>1, PrefixFrame DEF DInv, PrefixVisited, Prefix, Whole, Expand
<1>4. DOMAIN result = Nodes /\ DOMAIN result' = Nodes
  BY <1>1 DEF DInv, DecisionsUsed
<1>5. DecisionsUsed'
  <2>1. ASSUME NEW m \in pending' \ (replayed' \cup running'), pc' = "run", result'[m].kind = "pause"
        PROVE  m \notin resumes'
    <3>1. CASE m = n
      BY <1>1, <1>4, <2>1, <3>1
    <3>2. CASE m # n
      BY <1>1, <1>4, <2>1, <3>2 DEF DInv, DecisionsUsed
    <3> QED
      BY <3>1, <3>2
  <2> QED
    BY <1>1, <1>4, <2>1 DEF DInv, DecisionsUsed
<1>6. DecisionConsumed'
  BY <1>1 DEF DInv, DecisionConsumed, StableRouters
<1> QED
  BY <1>2, <1>3, <1>5, <1>6 DEF DInv
\* Nothing happens.
LEMMA StutterD == DInv /\ UNCHANGED vars => DInv'
<1> SUFFICES ASSUME DInv, UNCHANGED vars PROVE DInv'
  OBVIOUS
<1>1. UNCHANGED <<graph, status, ports, runContext, resumes, result, pc, visited, wave, running,
                  replayed, pending, next, failed, suspended, returned>>
  BY DEF vars, input, walkVars
<1>2. (\A m \in Nodes : status[m] = "paused" => WaitsBehindPrefix(m))'
  BY <1>1, PrefixFrame DEF DInv
<1>3. PrefixVisited'
  BY <1>1, PrefixFrame DEF DInv, PrefixVisited, Prefix, Whole, Expand
<1> QED
  BY <1>1, <1>2, <1>3 DEF DInv, DecisionsUsed, DecisionConsumed, StableRouters

\* A wave starts: what was visited had completed, and is now one wave more.
LEMMA DispatchD ==
  ASSUME StableRouters, WInv, DInv, Dispatch
  PROVE  DInv'
<1>1. /\ graph' = graph
      /\ \A m \in graph.nodes : status[m] = "completed" =>
           status'[m] = "completed" /\ \A n : Chosen(m, n)' <=> Chosen(m, n)
  BY ChosenKept DEF Next, Walk
<1> DEFINE unique == wave \ visited
           fresh == {n \in unique : status[n] # "completed"}
<1>2. /\ pc = "wave" /\ visited' = visited \cup wave
      /\ status' = [n \in Nodes |-> IF n \in fresh THEN "running" ELSE status[n]]
      /\ next' = {} /\ failed' = FALSE /\ suspended' = FALSE
      /\ UNCHANGED <<resumes, result>>
      /\ \/ pc' = "idle" /\ returned' = "error"
         \/ /\ pc' = "run" /\ pending' = unique
            /\ running' = fresh /\ replayed' = unique \ fresh
  BY Zenon DEF Dispatch, Return
<1>3. Typed /\ BetweenWaves /\ PrefixVisited
  BY DEF WInv, DInv
<1>4. PICK W \in SUBSET graph.nodes : W = visited
  BY <1>3 DEF Typed
<1>5. Prefix(W) /\ Whole(W) /\ visited' = Expand(W)
  <2>1. Prefix(visited) /\ Whole(visited) /\ wave \subseteq Expand(visited)
    BY <1>2, <1>3 DEF BetweenWaves, PrefixVisited, Whole
  <2>2. Expand(visited) \subseteq visited \cup wave
    BY <1>2, <1>3 DEF BetweenWaves, Expand
  <2>3. visited \cup wave = Expand(visited)
    BY <1>3, <2>1, <2>2, ExpandNodes DEF Typed
  <2> QED
    BY <1>2, <1>4, <2>1, <2>3
<1>6. Prefix(W)' /\ Whole(W)' /\ visited' = Expand(W)'
  BY <1>1, <1>5, PrefixKept
<1>7. \A n \in Nodes : status'[n] = "paused" => status[n] = "paused"
  BY <1>2
<1>8. (\A n \in Nodes : status[n] = "paused" => WaitsBehindPrefix(n))'
  BY <1>1, <1>7, WaitKept DEF DInv
<1>9. PrefixVisited'
  BY <1>1, <1>2, <1>4, <1>6 DEF PrefixVisited
<1>10. DecisionsUsed'
  <2>1. ASSUME NEW n \in visited' \cap resumes' PROVE status'[n] # "paused"
    BY <1>2, <1>3, <2>1 DEF DInv, DecisionsUsed, Typed
  <2> QED
    BY <1>2, <2>1 DEF DInv, DecisionsUsed
<1> QED
  BY <1>2, <1>8, <1>9, <1>10 DEF DInv, DecisionConsumed

\* A result is merged: what was visited stays a prefix with one wave more, and a
\* node that did not complete stands in the way of the next.
LEMMA MergeD ==
  ASSUME StableRouters, WInv, DInv, NEW n \in Nodes,
         MergePause(n) \/ MergeFailure(n) \/ MergeOutput(n) \/ Replay(n)
  PROVE  DInv'
<1>1. /\ graph' = graph
      /\ \A m \in graph.nodes : status[m] = "completed" =>
           status'[m] = "completed" /\ \A k : Chosen(m, k)' <=> Chosen(m, k)
  BY ChosenKept DEF Next, Walk
<1>2. /\ pc = "run" /\ pc' = "run" /\ running = {} /\ n \in pending /\ pending' = pending \ {n}
      /\ UNCHANGED <<resumes, result, visited, replayed, running>>
  BY DEF MergePause, MergeFailure, MergeOutput, Replay, First
<1>3. PICK s \in {"paused", "failed", "completed"} :
        /\ status' = [status EXCEPT ![n] = s]
        /\ s = "paused" => n \notin replayed /\ result[n].kind = "pause"
        /\ s # "completed" => next' = next
        /\ s = "completed" => MergeOutput(n) \/ Replay(n)
        /\ s = "completed" => UNCHANGED <<failed, suspended>>
  BY DEF MergePause, MergeFailure, MergeOutput, Replay
<1>4. Typed /\ PrefixVisited /\ DecisionsUsed
  BY DEF WInv, DInv
<1>5. PICK W \in SUBSET graph.nodes :
        Prefix(W) /\ Whole(W) /\ visited = Expand(W)
  BY <1>2, <1>4 DEF PrefixVisited
<1>6. Prefix(W)' /\ Whole(W)' /\ visited' = Expand(W)'
  BY <1>1, <1>2, <1>5, PrefixKept
<1>7. n \in graph.nodes /\ n \in visited /\ status'[n] = s
      /\ \A m \in Nodes \ {n} : status'[m] = status[m]
  BY <1>2, <1>3, <1>4 DEF Typed, PrefixVisited
<1>8. (\A m \in Nodes : status[m] = "paused" => WaitsBehindPrefix(m))'
  <2>1. WaitsBehindPrefix(n)
    BY <1>5, <1>7 DEF WaitsBehindPrefix
  <2>2. \A m \in Nodes : status'[m] = "paused" => status[m] = "paused" \/ m = n
    BY <1>7
  <2> QED
    BY <1>1, <2>1, <2>2, WaitKept DEF DInv
<1>9. PrefixVisited'
  <2>1. ASSUME NEW k \in next'
        PROVE  \E m \in visited' : status'[m] = "completed" /\ Chosen(m, k)'
    <3>1. CASE k \in next
      <4>1. PICK m \in visited : status[m] = "completed" /\ Chosen(m, k)
        BY <1>2, <1>4, <3>1 DEF PrefixVisited
      <4>2. m \in graph.nodes
        BY <1>4 DEF Typed
      <4> QED
        BY <1>1, <1>2, <4>1, <4>2
    <3>2. CASE k \notin next
      <4>1. s = "completed" /\ (MergeOutput(n) \/ Replay(n))
        BY <1>3, <2>1, <3>2
      <4>2. Chosen(n, k)'
        BY <2>1, <3>2, <4>1, ChoicesKept
      <4> QED
        BY <1>2, <1>7, <4>1, <4>2
    <3> QED
      BY <3>1, <3>2
  <2>2. ASSUME suspended' \/ failed'
        PROVE  \E m \in visited' \ pending' : status'[m] # "completed"
    <3>1. CASE s = "completed"
      <4>1. PICK m \in visited \ pending : status[m] # "completed"
        BY <1>2, <1>3, <1>4, <2>2, <3>1 DEF PrefixVisited
      <4> QED
        BY <1>2, <1>4, <1>7, <4>1 DEF Typed
    <3>2. CASE s # "completed"
      BY <1>2, <1>7, <3>2
    <3> QED
      BY <3>1, <3>2
  <2>3. \E V \in SUBSET graph'.nodes : Prefix(V)' /\ Whole(V)' /\ visited' = Expand(V)'
    BY <1>1, <1>6
  <2>4. pending' \subseteq visited'
    BY <1>2, <1>4 DEF PrefixVisited
  <2> QED
    BY <1>2, <2>1, <2>2, <2>3, <2>4 DEF PrefixVisited
<1>10. DecisionsUsed'
  <2>1. ASSUME NEW m \in visited' \cap resumes' PROVE status'[m] # "paused"
    <3>1. CASE m = n
      <4>1. s = "paused" => n \notin resumes
        BY <1>2, <1>3, <1>4 DEF DecisionsUsed
      <4> QED
        BY <1>2, <1>7, <2>1, <3>1, <4>1
    <3>2. CASE m # n
      BY <1>2, <1>4, <1>7, <2>1, <3>2 DEF Typed, DecisionsUsed
    <3> QED
      BY <3>1, <3>2
  <2> QED
    BY <1>2, <1>4, <2>1 DEF DecisionsUsed
<1> QED
  BY <1>2, <1>8, <1>9, <1>10 DEF DInv, DecisionConsumed

\* The wave is over: if nothing stood in the way the prefix is complete; if a node
\* of it paused, a node with a decision that waits is in what was visited, and has
\* used it, or would be behind a prefix that holds the node that paused.
LEMMA EndWaveD ==
  ASSUME StableRouters, WInv, DInv, EndWave
  PROVE  DInv'
<1>1. /\ pc = "run" /\ pending = {}
      /\ UNCHANGED <<graph, status, ports, runContext, resumes, result, visited>>
      /\ \/ pc' = "idle" /\ returned' = "error"
         \/ pc' = "idle" /\ suspended
         \/ pc' = "wave" /\ wave' = next /\ ~failed /\ ~suspended
  BY Zenon DEF EndWave, Return, input
<1>2. Typed /\ WithinWave /\ PrefixVisited /\ DecisionsUsed
  BY DEF WInv, DInv
<1>3. PICK W \in SUBSET graph.nodes : Prefix(W) /\ Whole(W) /\ visited = Expand(W)
  BY <1>1, <1>2 DEF PrefixVisited
<1>4. (\A m \in Nodes : status[m] = "paused" => WaitsBehindPrefix(m))'
  BY <1>1, PrefixFrame DEF DInv
<1>5. PrefixVisited'
  <2> SUFFICES ASSUME pc' = "wave" PROVE Prefix(visited)' /\ wave' \subseteq Expand(visited)'
    BY <1>1 DEF PrefixVisited
  <2>1. PICK V \in SUBSET graph.nodes : V = Expand(W) /\ Prefix(V)
    BY <1>3, PrefixGrows, ExpandNodes
  <2>2. Prefix(visited)'
    <3>1. Prefix(V)' /\ visited' = V
      BY <1>1, <1>3, <2>1, PrefixFrame
    <3> QED
      BY <3>1 DEF Prefix
  <2>3. wave' \subseteq Expand(visited)
    BY <1>1, <1>2 DEF PrefixVisited, Expand, Typed
  <2>4. Expand(visited)' = Expand(visited)
    BY <1>1, PrefixFrame DEF Expand
  <2> QED
    BY <2>2, <2>3, <2>4
<1>6. DecisionsUsed'
  BY <1>1, <1>2 DEF DecisionsUsed
<1>7. ASSUME suspended, NEW n \in resumes, status[n] = "paused" PROVE FALSE
  <2>1. n \in Nodes /\ n \notin visited
    BY <1>1, <1>2, <1>7 DEF DecisionsUsed
  <2>2. PICK U \in SUBSET graph.nodes : Prefix(U) /\ Whole(U) /\ n \in Expand(U)
    BY <1>7, <2>1 DEF DInv, WaitsBehindPrefix
  <2>3. PICK m \in visited : status[m] # "completed"
    BY <1>1, <1>2, <1>7 DEF PrefixVisited
  <2>4. U \in Prefixes /\ W \in Prefixes
    BY <1>3, <2>2 DEF Prefixes
  <2>5. ~(Expand(W) \subseteq U)
    BY <1>3, <2>2, <2>3 DEF Whole
  <2>6. U \subseteq W
    BY <2>4, <2>5, PrefixesOrdered
  <2>7. W \subseteq U \/ Expand(U) \subseteq W
    BY <2>4, PrefixesOrdered
  <2>8. CASE Expand(U) \subseteq W
    BY <1>3, <2>1, <2>2, <2>8, ExpandNodes
  <2>9. CASE U = W
    BY <1>3, <2>1, <2>2, <2>9
  <2> QED
    BY <2>6, <2>7, <2>8, <2>9
<1>8. DecisionConsumed'
  BY <1>1, <1>7 DEF DecisionConsumed
<1> QED
  BY <1>4, <1>5, <1>6, <1>8 DEF DInv

\* The walk is over: no node waits.
LEMMA FinaliseD ==
  ASSUME StableRouters, WInv, DInv, Finalise
  PROVE  DInv'
<1>1. /\ pc' = "idle" /\ UNCHANGED <<graph, resumes, result>>
      /\ \A n \in Nodes : status'[n] = "paused" => status[n] = "paused"
  BY DEF Finalise, Return
<1>2. \A n \in graph.nodes : status'[n] # "paused"
  BY FinaliseAccounts
<1>3. \A n \in Nodes : status'[n] # "paused"
  BY <1>1, <1>2 DEF DInv, WaitsBehindPrefix
<1> QED
  BY <1>1, <1>3 DEF DInv, PrefixVisited, DecisionsUsed, DecisionConsumed

\* A decision the host stages is reached: a walk that returns without error has
\* not left its node waiting, wherever in the walk it waits and whatever else
\* pauses.
THEOREM DecisionsReached == Spec => []DecisionConsumed
<1> DEFINE SInv == StableRouters => DInv
<1>1. Init => SInv
  BY InitD
<1>2. StableInv /\ SInv /\ [Next]_vars => SInv'
  <2> SUFFICES ASSUME StableRouters, WInv, DInv, [Next]_vars PROVE DInv'
    BY GraphStays DEF StableInv
  <2> QED
    BY ExecuteD, SetResumeD, FinishD, StutterD, DispatchD, MergeD, EndWaveD, FinaliseD DEF Next, Walk
<1>3. SInv => DecisionConsumed
  BY DEF DInv, DecisionConsumed
<1> QED
  BY <1>1, <1>2, <1>3, StableInvariance, PTL DEF Spec

=============================================================================
