---------------------------- MODULE MemoryBroker ----------------------------
(***************************************************************************)
(* MemoryStreamBroker (pkg/agents/streambroker/memory_broker.go) for one   *)
(* stream, with the goroutines that use it: the clients that submit turns, *)
(* subscribe and disconnect, the loop of the run in flight, and the tools  *)
(* that report progress on the stream and may outlive their run.           *)
(*                                                                         *)
(* Every method holds the broker's mutex and is one action, except Publish:*)
(* it copies the list of subscribers under the mutex and sends to each of  *)
(* them after releasing it, so subscriptions come and go in between.  A Go *)
(* channel is a bounded buffer that is open or has been closed; sending to *)
(* a full one blocks and sending to a closed one panics.  A chunk is known *)
(* by the run and the goroutine that published it and its number.          *)
(***************************************************************************)
EXTENDS Naturals, Sequences, FiniteSets

CONSTANTS
  Turns,         \* the turns clients submit on the thread
  Subs,          \* subscriptions
  Loop,          \* the goroutine of the run in flight
  Tools,         \* goroutines of its tools
  maxTranscript, \* chunks retained for late subscribers
  Buffer,        \* room in a subscription past its replay
  MaxRuns,       \* bound: runs started
  MaxChunks,     \* bound: chunks one goroutine publishes in one run
  Disconnects,   \* whether a subscriber's context may be cancelled
  Abandons       \* whether a stopped run may leave tools behind

Publishers == {Loop} \cup Tools

ASSUME PublisherAssumption == Loop \notin Tools

ASSUME BoundAssumption ==
  /\ maxTranscript \in Nat \ {0}
  /\ Buffer \in Nat \ {0}
  /\ MaxRuns \in Nat
  /\ MaxChunks \in Nat
  /\ Disconnects \in BOOLEAN
  /\ Abandons \in BOOLEAN

VARIABLES
  live,        \* the run claim
  closed,      \* whether the stream has been closed
  stopped,     \* the stop flag
  stopChan,    \* the stop signal in stopChans, 0 if none was made
  signalled,   \* the stop signals that have been closed
  queue,       \* the turns in the run's queue
  transcript,  \* the retained chunks
  subscribers, \* the registered subscriptions, in order
  chan,        \* each subscription's channel: its state (none, open, ended, left), buffer and capacity
  got,         \* what each subscriber has received
  pub,         \* each publishing goroutine: the run it works for, whether it still does, how
               \* many chunks it has published, the subscriptions its Publish has yet to serve
  run,         \* how many runs have been started
  watches,     \* the stop signals handed out, and the run they were asked for
  fate,        \* what has become of each turn
  panicked     \* whether a send on a closed channel has ended the process

stopVars == <<stopped, stopChan, signalled, watches>>
claimVars == <<live, queue, run, fate>>
vars == <<live, closed, stopped, stopChan, signalled, queue, transcript, subscribers,
          chan, got, pub, run, watches, fate, panicked>>

-----------------------------------------------------------------------------

Runs == 0..MaxRuns

\* The chunk a Publish is sending.
InFlight(p) == [run |-> pub[p].run, by |-> p, n |-> pub[p].n]
IsPublishing(p) == pub[p].todo # <<>>

\* The loop waits for the tools of its run, unless a stop made it give up on them.
ToolsDone ==
  \A p \in Tools : pub[p].working /\ pub[p].run = run => Abandons /\ stopped

\* Mutant: the newest chunk is put first.
Retain_First(c) == <<c>> \o transcript

\* Publish keeps the last maxTranscript chunks.
Retain(c) ==
  Append(IF Len(transcript) >= maxTranscript THEN Tail(transcript) ELSE transcript, c)

\* The stop signal WatchStop and Stop share, made on first use and named by
\* the run it is made in.
stopSignal == IF stopChan = 0 THEN run + 1 ELSE stopChan

Init ==
  /\ live = FALSE /\ closed = FALSE /\ stopped = FALSE
  /\ stopChan = 0 /\ signalled = {}
  /\ queue = {}
  /\ transcript = <<>> /\ subscribers = <<>>
  /\ chan = [s \in Subs |-> [state |-> "none", buf |-> <<>>, cap |-> 0]]
  /\ got = [s \in Subs |-> <<>>]
  /\ pub = [p \in Publishers |-> [run |-> 0, working |-> FALSE, n |-> 0, todo |-> <<>>]]
  /\ run = 0 /\ watches = {}
  /\ fate = [t \in Turns |-> "new"]
  /\ panicked = FALSE

-----------------------------------------------------------------------------
(* Clients.                                                                *)

Settle(turns, f) == [t \in Turns |-> IF t \in turns THEN f ELSE fate[t]]

\* Mutant: the queue of the previous run is kept.
StartRun_KeepsQueue(t) ==
  /\ fate[t] = "new" /\ ~live
  /\ run < MaxRuns
  /\ live' = TRUE /\ closed' = FALSE /\ stopped' = FALSE /\ stopChan' = 0
  /\ transcript' = <<>>
  /\ run' = run + 1
  /\ pub' = [pub EXCEPT ![Loop] = [run |-> run + 1, working |-> TRUE, n |-> 0, todo |-> <<>>]]
  /\ fate' = [fate EXCEPT ![t] = "started"]
  /\ UNCHANGED <<queue, signalled, watches, subscribers, chan, got, panicked>>

\* Mutant: the stop signal of the previous run is kept.
StartRun_KeepsSignal(t) ==
  /\ fate[t] = "new" /\ ~live
  /\ run < MaxRuns
  /\ live' = TRUE /\ closed' = FALSE /\ stopped' = FALSE
  /\ queue' = {} /\ transcript' = <<>>
  /\ run' = run + 1
  /\ pub' = [pub EXCEPT ![Loop] = [run |-> run + 1, working |-> TRUE, n |-> 0, todo |-> <<>>]]
  /\ fate' = [Settle(queue, "dropped") EXCEPT ![t] = "started"]
  /\ UNCHANGED <<stopChan, signalled, watches, subscribers, chan, got, panicked>>

\* EnqueueOrStart with no run in flight: the turn takes the claim, clears what
\* the last run left, and its loop begins.
StartRun(t) ==
  /\ fate[t] = "new" /\ ~live
  /\ run < MaxRuns
  /\ live' = TRUE /\ closed' = FALSE /\ stopped' = FALSE /\ stopChan' = 0
  /\ queue' = {} /\ transcript' = <<>>
  /\ run' = run + 1
  /\ pub' = [pub EXCEPT ![Loop] = [run |-> run + 1, working |-> TRUE, n |-> 0, todo |-> <<>>]]
  /\ fate' = [Settle(queue, "dropped") EXCEPT ![t] = "started"]
  /\ UNCHANGED <<signalled, watches, subscribers, chan, got, panicked>>

\* EnqueueOrStart with a run in flight, and EnqueueMessage at any time.
Enqueue(t) ==
  /\ fate[t] = "new"
  /\ queue' = queue \cup {t}
  /\ fate' = [fate EXCEPT ![t] = "joined"]
  /\ UNCHANGED <<live, closed, stopVars, transcript, subscribers, chan, got, pub, run, panicked>>

\* Mutant: a subscriber is not given what was published before it came.
Subscribe_NoReplay(s) ==
  /\ chan[s].state = "none"
  /\ chan' = [chan EXCEPT ![s] =
               [state |-> IF closed THEN "ended" ELSE "open", buf |-> <<>>, cap |-> Buffer]]
  /\ subscribers' = IF closed THEN subscribers ELSE Append(subscribers, s)
  /\ UNCHANGED <<claimVars, closed, stopVars, transcript, got, pub, panicked>>

\* Subscribe: the transcript is replayed; a closed stream then ends.
Subscribe(s) ==
  /\ chan[s].state = "none"
  /\ chan' = [chan EXCEPT ![s] =
               [state |-> IF closed THEN "ended" ELSE "open",
                buf   |-> transcript,
                cap   |-> IF closed THEN Len(transcript) ELSE Len(transcript) + Buffer]]
  /\ subscribers' = IF closed THEN subscribers ELSE Append(subscribers, s)
  /\ UNCHANGED <<claimVars, closed, stopVars, transcript, got, pub, panicked>>

\* The subscriber reads its channel; what was buffered can be read after a close.
Receive(s) ==
  /\ chan[s].buf # <<>>
  /\ got' = [got EXCEPT ![s] = Append(@, Head(chan[s].buf))]
  /\ chan' = [chan EXCEPT ![s].buf = Tail(@)]
  /\ UNCHANGED <<claimVars, closed, stopVars, transcript, subscribers, pub, panicked>>

\* The subscriber's context is cancelled: unsubscribe, if it is still registered.
Unsubscribe(s) ==
  /\ Disconnects
  /\ \E i \in DOMAIN subscribers :
       /\ subscribers[i] = s
       /\ subscribers' = SubSeq(subscribers, 1, i - 1)
                           \o SubSeq(subscribers, i + 1, Len(subscribers))
  /\ chan' = [chan EXCEPT ![s].state = "left"]
  /\ UNCHANGED <<claimVars, closed, stopVars, transcript, got, pub, panicked>>

\* Stop: the flag is set and the signal closed, once.
Stop ==
  /\ ~stopped
  /\ stopChan' = stopSignal
  /\ stopped' = TRUE
  /\ signalled' = signalled \cup {stopSignal}
  /\ UNCHANGED <<claimVars, closed, watches, transcript, subscribers, chan, got, pub, panicked>>

-----------------------------------------------------------------------------
(* The run.                                                                *)

LoopFree == pub[Loop].working /\ ~IsPublishing(Loop) /\ ToolsDone

DrainMessages ==
  /\ LoopFree
  /\ queue' = {}
  /\ fate' = Settle(queue, "read")
  /\ UNCHANGED <<live, closed, stopVars, transcript, subscribers, chan, got, pub, run, panicked>>

\* The run hands a call to a tool, on a goroutine of its own, once its stop
\* signal is watched.  Bound: each of Tools takes one call of a run.
StartTool(p) ==
  /\ pub[Loop].working /\ ~IsPublishing(Loop)
  /\ ~pub[p].working /\ pub[p].run < run
  /\ pub' = [pub EXCEPT ![p] = [run |-> run, working |-> TRUE, n |-> 0, todo |-> <<>>]]
  /\ stopChan' = stopSignal
  /\ signalled' = IF stopped THEN signalled \cup {stopSignal} ELSE signalled
  /\ watches' = watches \cup {[run |-> run, signal |-> stopSignal]}
  /\ UNCHANGED <<claimVars, closed, stopped, transcript, subscribers, chan, got, panicked>>

ToolReturns(p) ==
  /\ pub[p].working /\ ~IsPublishing(p)
  /\ pub' = [pub EXCEPT ![p].working = FALSE]
  /\ UNCHANGED <<claimVars, closed, stopVars, transcript, subscribers, chan, got, panicked>>

\* Publish under the mutex: nothing on a closed stream; otherwise retain the
\* chunk and copy the list of subscribers.
Publish(p) ==
  /\ pub[p].working /\ ~IsPublishing(p)
  /\ p = Loop => LoopFree
  /\ pub[p].n < MaxChunks
  /\ IF closed
     THEN /\ pub' = [pub EXCEPT ![p].n = @ + 1]
          /\ UNCHANGED transcript
     ELSE /\ pub' = [pub EXCEPT ![p].n = @ + 1, ![p].todo = subscribers]
          /\ transcript' = Retain([run |-> pub[p].run, by |-> p, n |-> pub[p].n + 1])
  /\ UNCHANGED <<claimVars, closed, stopVars, subscribers, chan, got, panicked>>

\* Publish after the mutex: the next subscriber of the copy gets the chunk.
Send(p) ==
  /\ IsPublishing(p)
  /\ LET s == Head(pub[p].todo)
     IN  /\ chan[s].state = "open"
         /\ Len(chan[s].buf) < chan[s].cap
         /\ chan' = [chan EXCEPT ![s].buf = Append(@, InFlight(p))]
  /\ pub' = [pub EXCEPT ![p].todo = Tail(@)]
  /\ UNCHANGED <<claimVars, closed, stopVars, transcript, subscribers, got, panicked>>

\* ... unless its channel has been closed meanwhile.
SendOnClosed(p) ==
  /\ IsPublishing(p)
  /\ chan[Head(pub[p].todo)].state \in {"ended", "left"}
  /\ panicked' = TRUE
  /\ UNCHANGED <<claimVars, closed, stopVars, transcript, subscribers, chan, got, pub>>

\* A stopped tool's context is cancelled, and its Publish gives up.
PublishCancelled(p) ==
  /\ p \in Tools
  /\ IsPublishing(p)
  /\ stopped \/ pub[p].run # run
  /\ pub' = [pub EXCEPT ![p].todo = <<>>]
  /\ UNCHANGED <<claimVars, closed, stopVars, transcript, subscribers, chan, got, panicked>>

Registered == {subscribers[i] : i \in DOMAIN subscribers}

\* Mutant: the claim is released but the subscribers are not told.
Close_KeepsSubscribers ==
  /\ LoopFree
  /\ closed' = TRUE /\ live' = FALSE
  /\ pub' = [pub EXCEPT ![Loop].working = FALSE]
  /\ UNCHANGED <<queue, run, fate, stopVars, subscribers, chan, transcript, got, panicked>>

\* The run ends: the claim is released and every subscription is closed.
Close ==
  /\ LoopFree
  /\ closed' = TRUE /\ live' = FALSE
  /\ chan' = [s \in Subs |-> IF s \in Registered THEN [chan[s] EXCEPT !.state = "ended"]
                             ELSE chan[s]]
  /\ subscribers' = <<>>
  /\ pub' = [pub EXCEPT ![Loop].working = FALSE]
  /\ UNCHANGED <<queue, run, fate, stopVars, transcript, got, panicked>>

-----------------------------------------------------------------------------
Clients ==
  \/ \E t \in Turns : StartRun(t) \/ Enqueue(t)
  \/ \E s \in Subs : Subscribe(s) \/ Unsubscribe(s)
  \/ Stop

Publishing(p) == Publish(p) \/ Send(p) \/ SendOnClosed(p) \/ PublishCancelled(p)

Next ==
  /\ ~panicked
  /\ \/ Clients
     \/ \E s \in Subs : Receive(s)
     \/ DrainMessages \/ Close
     \/ \E p \in Tools : StartTool(p) \/ ToolReturns(p)
     \/ \E p \in Publishers : Publishing(p)

Spec == Init /\ [][Next]_vars

\* A tool returns, a goroutine that can go on does, and a loop whose tools are
\* done gets to its end.  Nothing makes a client read its subscription.
FairSpec ==
  /\ Spec
  /\ \A p \in Tools : WF_vars(~panicked /\ ToolReturns(p))
  /\ \A p \in Publishers : WF_vars(~panicked /\ Publishing(p))
  /\ WF_vars(~panicked /\ Close)

-----------------------------------------------------------------------------
(* Properties.                                                             *)

\* All that has been put in a subscription, oldest first.
Stream(s) == got[s] \o chan[s].buf

Copies(s, c) == Cardinality({i \in DOMAIN Stream(s) : Stream(s)[i] = c})

\* A Publish still holds chunk c for subscription s.
OnItsWay(s, c) ==
  \E p \in Publishers : InFlight(p) = c /\ \E i \in DOMAIN pub[p].todo : pub[p].todo[i] = s

\* The replay of Subscribe and the sends of Publish, which happen outside the
\* mutex, fit together: an open subscription gets no chunk twice, and every
\* chunk of the loop that is retained has reached it or is about to, whether
\* it came before or after the chunk was published (memory_broker.go:60-69,
\* 86-104).
DeliveredOnce ==
  \A s \in Subs : \A c \in {transcript[i] : i \in DOMAIN transcript} :
    chan[s].state = "open" =>
      /\ Copies(s, c) + (IF OnItsWay(s, c) THEN 1 ELSE 0) <= 1
      /\ c.by = Loop => Copies(s, c) = 1 \/ OnItsWay(s, c)

\* A subscription holds each goroutine's chunks in the order they were
\* published, and the loop's without a gap, although goroutines publish at the
\* same time and replay and live chunks meet in one channel
\* (memory_broker.go:60-70, 99-104).
PublisherOrder ==
  \A s \in Subs : \A i, j \in DOMAIN Stream(s) :
    LET c == Stream(s)[i]
        d == Stream(s)[j]
        OfSame(x) == x.by = c.by /\ x.run = c.run
    IN  i < j /\ OfSame(d) =>
          /\ c.n < d.n
          /\ c.by = Loop /\ c.n + 1 < d.n =>
               \E k \in (i + 1)..(j - 1) : OfSame(Stream(s)[k])

\* A tool of the run in flight has been told to stop exactly when the run has
\* been stopped, whichever of Stop and WatchStop came first, and a stop of an
\* earlier run on the stream does not reach it (memory_broker.go:172, 182-188,
\* 200-213).
WatchMatchesFlag ==
  \A w \in watches : w.run = run => (w.signal \in signalled <=> stopped)

\* What makes WatchMatchesFlag inductive: the signal in use, if there is one,
\* was made in this run, it is closed exactly when the run has been stopped,
\* and every tool of the run watches it.
SignalInv ==
  /\ run \in Nat
  /\ stopped \in BOOLEAN
  /\ stopChan \in {0, run + 1}
  /\ \A g \in signalled : g \in Nat /\ g <= run + 1
  /\ stopped <=> run + 1 \in signalled
  /\ stopped => stopChan = run + 1
  /\ \A w \in watches : /\ w.run \in Nat /\ w.run <= run
                        /\ w.run = run => stopChan = run + 1 /\ w.signal = stopChan

\* The claim, the queue and the fate of every turn behave as RunClaim says:
\* EnqueueOrStart decides in one step whether a turn joins or starts
\* (memory_broker.go:155-174, 231-239).
Claim == INSTANCE RunClaim WITH live <- live, inbox <- queue, fate <- fate

ClaimSpec == Claim!Spec

\* Publish waits for a subscriber whose channel is full.
HeldUpBy(s) ==
  /\ chan[s].state = "open" /\ Len(chan[s].buf) >= chan[s].cap
  /\ \E p \in Publishers : IsPublishing(p) /\ Head(pub[p].todo) = s

\* A subscriber of a run in flight sees the end of its stream or leaves it
\* (memory_broker.go:142-148), unless a subscriber that has stopped reading, and
\* does not leave, holds a Publish up for good (memory_broker.go:69-76), the
\* loop's or that of a tool the loop waits for.  Nothing else can withhold the
\* end: not a reader that is merely slow, not an abandoned tool, a stop or the
\* next run on the stream.  A send on a closed channel ends the process instead.
StreamEnds ==
  \A s \in Subs :
    (live /\ chan[s].state = "open")
      ~> \/ chan[s].state # "open" \/ panicked
         \/ \E r \in Subs : []HeldUpBy(r)

\* memory_broker.go:54 says "Don't publish to closed channels": no send meets
\* a channel that an unsubscribe or a Close has closed.
NoSendOnClosed == ~panicked
=============================================================================
