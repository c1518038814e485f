------------------------------ MODULE RunClaim ------------------------------
(***************************************************************************)
(* What a RunClaimBroker promises (pkg/agents/stream_broker.go): a thread's *)
(* turns share one stream, and EnqueueOrStart decides in one step whether a *)
(* turn joins the run in flight or starts one.  A turn that joined waits in *)
(* the run's queue until that run drains it; what a run left behind when it *)
(* ended is discarded by the turn that starts the next one.                *)
(***************************************************************************)
CONSTANT Turns  \* the turns clients submit on the thread

VARIABLES
  live,  \* whether a run holds the claim
  inbox, \* the turns waiting in the run's queue
  fate   \* what has become of each turn: new, started, joined, read or dropped

claimVars == <<live, inbox, fate>>

\* Turns that are in the queue move on to the given fate.
Settle(turns, f) == [t \in Turns |-> IF t \in turns THEN f ELSE fate[t]]

Init ==
  /\ live = FALSE
  /\ inbox = {}
  /\ fate = [t \in Turns |-> "new"]

\* EnqueueOrStart with no run in flight.
Start(t) ==
  /\ fate[t] = "new"
  /\ ~live
  /\ live' = TRUE
  /\ inbox' = {}
  /\ fate' = [Settle(inbox, "dropped") EXCEPT ![t] = "started"]

\* EnqueueOrStart with a run in flight, or EnqueueMessage at any time.
Enqueue(t) ==
  /\ fate[t] = "new"
  /\ inbox' = inbox \cup {t}
  /\ fate' = [fate EXCEPT ![t] = "joined"]
  /\ UNCHANGED live

\* DrainMessages.
Drain ==
  /\ live
  /\ inbox' = {}
  /\ fate' = Settle(inbox, "read")
  /\ UNCHANGED live

\* Close.
Release ==
  /\ live
  /\ live' = FALSE
  /\ UNCHANGED <<inbox, fate>>

Next ==
  \/ \E t \in Turns : Start(t) \/ Enqueue(t)
  \/ Drain
  \/ Release

Spec == Init /\ [][Next]_claimVars
=============================================================================
