-------------------------- MODULE MemoryBrokerProofs --------------------------
(***************************************************************************)
(* What holds of MemoryBroker for every number of turns, subscriptions,    *)
(* tools, runs and chunks: stop signals do not cross runs, the broker      *)
(* implements the run claim of RunClaim, and a subscription has the chunks *)
(* of each goroutine in order, none twice, and none of the loop's missing. *)
(*                                                                         *)
(* For the last, the invariant says of every sequence of chunks, retained  *)
(* or put in a subscription, that it is in order; of the subscriptions     *)
(* that all a goroutine put there is older than what it is sending; and of *)
(* the loop's chunks that the newest is there or on its way, so that the   *)
(* next one leaves no gap.                                                 *)
(***************************************************************************)
EXTENDS MemoryBroker, DataLemmas, FiniteSetTheorems

-----------------------------------------------------------------------------
(* Stop signals.                                                           *)

\* No signal is closed and none is in use before the first run.
LEMMA SignalInit == Init => SignalInv
<1> SUFFICES ASSUME Init PROVE SignalInv
  OBVIOUS
<1>1. run = 0 /\ stopped = FALSE /\ stopChan = 0 /\ signalled = {} /\ watches = {}
  BY DEF Init
<1> QED
  BY <1>1 DEF SignalInv

\* A step keeps the signal of the run in flight, the stop flag and the
\* watches of its tools together.
LEMMA SignalStep == SignalInv /\ [Next]_vars => SignalInv'
<1> SUFFICES ASSUME SignalInv, [Next]_vars PROVE SignalInv'
  OBVIOUS
<1> USE DEF SignalInv
<1>1. ASSUME NEW t \in Turns, StartRun(t) PROVE SignalInv'
  <2>1. run' = run + 1 /\ run' \in Nat /\ run' + 1 \notin signalled
    BY <1>1 DEF StartRun
  <2>2. /\ stopped' = FALSE /\ stopChan' = 0
        /\ signalled' = signalled /\ watches' = watches
    BY <1>1 DEF StartRun
  <2>3. \A g \in signalled' : g \in Nat /\ g <= run' + 1
    BY <2>1, <2>2
  <2>4. \A w \in watches' : w.run \in Nat /\ w.run <= run' /\ w.run # run'
    BY <2>1, <2>2
  <2>5. run' + 1 \notin signalled'
    BY <2>1, <2>2
  <2> QED
    BY <2>1, <2>2, <2>3, <2>4, <2>5
<1>2. ASSUME Stop PROVE SignalInv'
  BY <1>2 DEF Stop, stopSignal, claimVars
<1>3. ASSUME NEW p \in Tools, StartTool(p) PROVE SignalInv'
  BY <1>3 DEF StartTool, stopSignal, claimVars
<1>4. ASSUME UNCHANGED <<run, stopVars>> PROVE SignalInv'
  BY <1>4 DEF stopVars
<1>5. CASE UNCHANGED vars
  BY <1>4, <1>5 DEF vars, stopVars
<1>6. CASE Next
  <2>1. ASSUME NEW t \in Turns, Enqueue(t) PROVE UNCHANGED <<run, stopVars>>
    BY <2>1 DEF Enqueue, stopVars
  <2>2. ASSUME NEW s \in Subs, Subscribe(s) \/ Unsubscribe(s) \/ Receive(s)
        PROVE  UNCHANGED <<run, stopVars>>
    BY <2>2 DEF Subscribe, Unsubscribe, Receive, stopVars, claimVars
  <2>3. ASSUME DrainMessages \/ Close PROVE UNCHANGED <<run, stopVars>>
    BY <2>3 DEF DrainMessages, Close, stopVars
  <2>4. ASSUME NEW p \in Tools, ToolReturns(p) PROVE UNCHANGED <<run, stopVars>>
    BY <2>4 DEF ToolReturns, stopVars, claimVars
  <2>5. ASSUME NEW p \in Publishers, Publishing(p) PROVE UNCHANGED <<run, stopVars>>
    BY <2>5 DEF Publishing, Publish, Send, SendOnClosed, PublishCancelled, stopVars, claimVars
  <2> QED
    BY <1>1, <1>2, <1>3, <1>4, <1>6, <2>1, <2>2, <2>3, <2>4, <2>5 DEF Next, Clients
<1> QED
  BY <1>5, <1>6

\* The inductive invariant holds in every reachable state.
LEMMA SignalInvariance == Spec => []SignalInv
BY SignalInit, SignalStep, PTL DEF Spec

\* Whatever the order of stops, tool starts and runs on a stream, a tool of
\* the run in flight is told to stop exactly when that run has been stopped.
THEOREM StopReachesItsRun == Spec => []WatchMatchesFlag
<1>1. SignalInv => WatchMatchesFlag
  BY DEF SignalInv, WatchMatchesFlag
<1> QED
  BY SignalInvariance, <1>1, PTL

-----------------------------------------------------------------------------
(* The run claim.                                                          *)

\* Only a run that holds the claim has a loop at work.
LoopHoldsClaim ==
  /\ DOMAIN pub = Publishers
  /\ \A p \in Publishers : "working" \in DOMAIN pub[p]
  /\ pub[Loop].working => live

\* A step of a goroutine other than the start of a run never puts the loop to
\* work.
LEMMA ClaimHolds == Spec => []LoopHoldsClaim
<1>1. Init => LoopHoldsClaim
  BY DEF Init, LoopHoldsClaim, Publishers
<1>2. LoopHoldsClaim /\ [Next]_vars => LoopHoldsClaim'
  <2> SUFFICES ASSUME LoopHoldsClaim, [Next]_vars PROVE LoopHoldsClaim'
    OBVIOUS
  <2> USE DEF LoopHoldsClaim
  <2>0. Loop \in Publishers /\ Loop \notin Tools /\ Tools \subseteq Publishers
    BY PublisherAssumption DEF Publishers
  <2>1. ASSUME NEW t \in Turns, StartRun(t) PROVE LoopHoldsClaim'
    BY <2>0, <2>1 DEF StartRun
  <2>2. ASSUME UNCHANGED <<live, pub>> PROVE LoopHoldsClaim'
    BY <2>2
  <2>3. ASSUME NEW t \in Turns, Enqueue(t) PROVE UNCHANGED <<live, pub>>
    BY <2>3 DEF Enqueue
  <2>4. ASSUME NEW s \in Subs, Subscribe(s) \/ Unsubscribe(s) \/ Receive(s)
        PROVE  UNCHANGED <<live, pub>>
    BY <2>4 DEF Subscribe, Unsubscribe, Receive, claimVars
  <2>5. ASSUME Stop \/ DrainMessages PROVE UNCHANGED <<live, pub>>
    BY <2>5 DEF Stop, DrainMessages, claimVars
  <2>6. ASSUME Close PROVE LoopHoldsClaim'
    BY <2>0, <2>6 DEF Close
  <2>7. ASSUME NEW p \in Tools, StartTool(p) \/ ToolReturns(p) PROVE LoopHoldsClaim'
    BY <2>0, <2>7 DEF StartTool, ToolReturns, claimVars
  <2>8. ASSUME NEW p \in Publishers, Publishing(p) PROVE LoopHoldsClaim'
    <3>1. CASE Publish(p)
      BY <2>0, <3>1 DEF Publish, claimVars
    <3>2. CASE Send(p)
      BY <2>0, <3>2 DEF Send, claimVars
    <3>3. CASE SendOnClosed(p)
      BY <3>3 DEF SendOnClosed, claimVars
    <3>4. CASE PublishCancelled(p)
      BY <2>0, <3>4 DEF PublishCancelled, claimVars
    <3> QED
      BY <2>8, <3>1, <3>2, <3>3, <3>4 DEF Publishing
  <2>9. CASE UNCHANGED vars
    BY <2>9 DEF vars
  <2> QED
    BY <2>1, <2>2, <2>3, <2>4, <2>5, <2>6, <2>7, <2>8, <2>9 DEF Next, Clients
<1> QED
  BY <1>1, <1>2, PTL DEF Spec

\* Every step of the broker is a step of the run claim or leaves it alone.
LEMMA ClaimStep == LoopHoldsClaim /\ [Next]_vars => [Claim!Next]_(Claim!claimVars)
<1> SUFFICES ASSUME LoopHoldsClaim, [Next]_vars PROVE [Claim!Next]_(Claim!claimVars)
  OBVIOUS
<1> USE DEF Claim!claimVars, Claim!Next
<1>1. ASSUME NEW t \in Turns, StartRun(t) PROVE Claim!Next
  BY <1>1 DEF StartRun, Settle, Claim!Start, Claim!Settle
<1>2. ASSUME NEW t \in Turns, Enqueue(t) PROVE Claim!Next
  BY <1>2 DEF Enqueue, Claim!Enqueue
<1>3. ASSUME DrainMessages PROVE Claim!Next
  BY <1>3 DEF DrainMessages, LoopFree, LoopHoldsClaim, Settle, Claim!Drain, Claim!Settle
<1>4. ASSUME Close PROVE Claim!Next
  BY <1>4 DEF Close, LoopFree, LoopHoldsClaim, Claim!Release
<1>5. ASSUME NEW s \in Subs, Subscribe(s) \/ Unsubscribe(s) \/ Receive(s)
      PROVE  UNCHANGED Claim!claimVars
  BY <1>5 DEF Subscribe, Unsubscribe, Receive, claimVars
<1>6. ASSUME Stop PROVE UNCHANGED Claim!claimVars
  BY <1>6 DEF Stop, claimVars
<1>7. ASSUME NEW p \in Tools, StartTool(p) \/ ToolReturns(p) PROVE UNCHANGED Claim!claimVars
  BY <1>7 DEF StartTool, ToolReturns, claimVars
<1>8. ASSUME NEW p \in Publishers, Publishing(p) PROVE UNCHANGED Claim!claimVars
  BY <1>8 DEF Publishing, Publish, Send, SendOnClosed, PublishCancelled, claimVars
<1>9. CASE UNCHANGED vars
  BY <1>9 DEF vars
<1> QED
  BY <1>1, <1>2, <1>3, <1>4, <1>5, <1>6, <1>7, <1>8, <1>9 DEF Next, Clients

\* EnqueueOrStart, DrainMessages and Close of the in-memory broker are the
\* three decisions of the run claim, and nothing else the broker or the
\* goroutines around it do touches the claim or the queue.
THEOREM ImplementsClaim == Spec => ClaimSpec
<1>1. Init => Claim!Init
  BY DEF Init, Claim!Init
<1> QED
  BY <1>1, ClaimHolds, ClaimStep, PTL DEF Spec, ClaimSpec, Claim!Spec
-----------------------------------------------------------------------------
(* Delivery.                                                               *)

Chunk == [run : Nat, by : Publishers, n : Nat]
States == {"none", "open", "ended", "left"}
Channel == [state : States, buf : Seq(Chunk), cap : Nat]
Publisher == [run : Nat, working : BOOLEAN, n : Nat, todo : Seq(Subs)]

\* The types, and the lists of subscriptions name none twice.
BrokerTypes ==
  /\ run \in Nat /\ closed \in BOOLEAN
  /\ transcript \in Seq(Chunk)
  /\ subscribers \in Seq(Subs) /\ Distinct(subscribers)
  /\ chan \in [Subs -> Channel]
  /\ got \in [Subs -> Seq(Chunk)]
  /\ pub \in [Publishers -> Publisher]
  /\ \A p \in Publishers : pub[p].run <= run /\ Distinct(pub[p].todo)

\* A subscription is registered exactly while it is open, and nothing is in it
\* or on its way to it before it is made.
Enrolled(s) ==
  /\ s \in Range(subscribers) <=> chan[s].state = "open"
  /\ chan[s].state = "none" =>
       /\ got[s] = <<>> /\ chan[s].buf = <<>>
       /\ \A p \in Publishers : s \notin Range(pub[p].todo)

\* The loop works on an open stream only.
BrokerInv ==
  /\ BrokerTypes
  /\ \A s \in Subs : Enrolled(s)
  /\ pub[Loop].working => ~closed

OfSame(c, d) == c.by = d.by /\ c.run = d.run

\* What PublisherOrder says of a subscription, of any sequence of chunks.
Ordered(q) ==
  \A i, j \in DOMAIN q : i < j /\ OfSame(q[i], q[j]) =>
    /\ q[i].n < q[j].n
    /\ q[i].by = Loop /\ q[i].n + 1 < q[j].n => \E k \in (i + 1)..(j - 1) : OfSame(q[k], q[i])

\* No chunk is newer than what its goroutine has published.
NoneNewer(q) ==
  \A c \in Range(q) :
    c.run <= pub[c.by].run /\ (c.run = pub[c.by].run => c.n <= pub[c.by].n)

\* Every chunk of the goroutine's present run is older than the one it is sending.
AllOlder(q, p) ==
  \A c \in Range(q) : c.by = p /\ c.run = pub[p].run => c.n < pub[p].n

\* A sequence that has chunks of the loop's present run has the last one that was
\* published, or the one before it.
HasNewest(q, before) ==
  (\E c \in Range(q) : c.by = Loop /\ c.run = pub[Loop].run) =>
    \E e \in Range(q) : e.by = Loop /\ e.run = pub[Loop].run /\ e.n + before = pub[Loop].n

TranscriptInv == Ordered(transcript) /\ NoneNewer(transcript) /\ HasNewest(transcript, 0)

\* What is in a subscription is in order, and older than what is on its way.
StreamInv(s) ==
  /\ Ordered(Stream(s)) /\ NoneNewer(Stream(s))
  /\ \A p \in Publishers : s \in Range(pub[p].todo) => AllOlder(Stream(s), p)

\* Every chunk of the loop that is retained has reached an open subscription or
\* is on its way to it.
OpenInv(s) ==
  chan[s].state = "open" =>
    /\ HasNewest(Stream(s), IF s \in Range(pub[Loop].todo) THEN 1 ELSE 0)
    /\ \A c \in Range(transcript) : c.by = Loop =>
         c \in Range(Stream(s)) \/ (c = InFlight(Loop) /\ s \in Range(pub[Loop].todo))

ChunkInv == TranscriptInv /\ \A s \in Subs : StreamInv(s) /\ OpenInv(s)

DeliveryInv == BrokerInv /\ ChunkInv

\* A chunk that is newer than all of its goroutine's, and next after the newest
\* if it is the loop's, keeps the order.
LEMMA OrderedAppend ==
  ASSUME NEW q \in Seq(Chunk), NEW c \in Chunk, Ordered(q),
         \A i \in DOMAIN q : OfSame(q[i], c) => q[i].n < c.n,
         c.by = Loop /\ (\E i \in DOMAIN q : OfSame(q[i], c))
           => \E k \in DOMAIN q : OfSame(q[k], c) /\ q[k].n + 1 = c.n
  PROVE  Ordered(Append(q, c))
<1>1. PICK m \in Nat : /\ DOMAIN q = 1..m /\ DOMAIN Append(q, c) = 1..(m + 1)
                      /\ \A i \in 1..m : Append(q, c)[i] = q[i] /\ q[i] \in Chunk
                      /\ Append(q, c)[m + 1] = c
  BY AppendProperties, LenProperties, ElementOfSeq
<1> DEFINE r == Append(q, c)
<1>2. \A i \in 1..m : q[i].n \in Nat
  BY <1>1 DEF Chunk
<1>3. c.n \in Nat
  BY DEF Chunk
<1> HIDE DEF r
<1> SUFFICES ASSUME NEW i \in 1..(m + 1), NEW j \in 1..(m + 1), i < j, OfSame(r[i], r[j])
             PROVE  /\ r[i].n < r[j].n
                    /\ r[i].by = Loop /\ r[i].n + 1 < r[j].n
                         => \E k \in (i + 1)..(j - 1) : OfSame(r[k], r[i])
  BY <1>1 DEF Ordered, r
<1>4. i \in 1..m /\ r[i] = q[i]
  BY <1>1 DEF r
<1>5. CASE j \in 1..m
  <2>1. r[j] = q[j] /\ \A k \in (i + 1)..(j - 1) : k \in 1..m /\ r[k] = q[k]
    BY <1>1, <1>5 DEF r
  <2>2. /\ q[i].n < q[j].n
        /\ q[i].by = Loop /\ q[i].n + 1 < q[j].n
             => \E k \in (i + 1)..(j - 1) : OfSame(q[k], q[i])
    BY <1>1, <1>4, <1>5, <2>1 DEF Ordered
  <2> QED
    BY <1>4, <2>1, <2>2
<1>6. CASE j = m + 1
  <2>1. r[j] = c /\ OfSame(q[i], c)
    BY <1>1, <1>4, <1>6 DEF r
  <2>2. q[i].n < c.n
    BY <1>1, <1>4, <2>1
  <2>3. ASSUME q[i].by = Loop, q[i].n + 1 < c.n
        PROVE  \E k \in (i + 1)..(j - 1) : OfSame(r[k], r[i])
    <3>1. c.by = Loop
      BY <2>1, <2>3 DEF OfSame
    <3>2. PICK k \in 1..m : OfSame(q[k], c) /\ q[k].n + 1 = c.n
      BY <1>1, <1>4, <2>1, <3>1
    <3>3. OfSame(q[k], q[i])
      BY <2>1, <3>2 DEF OfSame
    <3>4. ~(k < i)
      <4> SUFFICES ASSUME k < i PROVE FALSE
        OBVIOUS
      <4>1. q[k].n < q[i].n
        BY <1>1, <1>4, <3>3 DEF Ordered
      <4> QED
        BY <1>2, <1>3, <1>4, <2>3, <3>2, <4>1
    <3>5. k # i
      BY <1>2, <1>3, <1>4, <2>3, <3>2
    <3>6. k \in (i + 1)..(j - 1) /\ r[k] = q[k]
      BY <1>1, <1>4, <1>6, <3>4, <3>5 DEF r
    <3> QED
      BY <1>4, <3>3, <3>6
  <2> QED
    BY <1>4, <2>1, <2>2, <2>3
<1> QED
  BY <1>5, <1>6

\* Dropping the oldest chunk keeps the order.
LEMMA OrderedTail ==
  ASSUME NEW q \in Seq(Chunk), q # <<>>, Ordered(q)
  PROVE  Ordered(Tail(q))
<1>1. PICK m \in Nat : /\ DOMAIN q = 1..(m + 1) /\ DOMAIN Tail(q) = 1..m
                      /\ \A i \in 1..m : Tail(q)[i] = q[i + 1]
  <2>1. Len(q) - 1 \in Nat /\ DOMAIN q = 1..((Len(q) - 1) + 1)
    BY EmptySeq, LenProperties
  <2>2. DOMAIN Tail(q) = 1..(Len(q) - 1) /\ \A i \in 1..(Len(q) - 1) : Tail(q)[i] = q[i + 1]
    BY HeadTailProperties, LenProperties
  <2> QED
    BY <2>1, <2>2
<1> DEFINE r == Tail(q)
<1> HIDE DEF r
<1> SUFFICES ASSUME NEW i \in 1..m, NEW j \in 1..m, i < j, OfSame(r[i], r[j])
             PROVE  /\ r[i].n < r[j].n
                    /\ r[i].by = Loop /\ r[i].n + 1 < r[j].n
                         => \E k \in (i + 1)..(j - 1) : OfSame(r[k], r[i])
  BY <1>1 DEF Ordered, r
<1>2. i + 1 \in 1..(m + 1) /\ j + 1 \in 1..(m + 1) /\ i + 1 < j + 1 /\ r[i] = q[i + 1] /\ r[j] = q[j + 1]
  BY <1>1 DEF r
<1>3. /\ r[i].n < r[j].n
      /\ r[i].by = Loop /\ r[i].n + 1 < r[j].n
           => \E k \in ((i + 1) + 1)..((j + 1) - 1) : OfSame(q[k], r[i])
  BY <1>1, <1>2 DEF Ordered
<1>4. ASSUME NEW k \in ((i + 1) + 1)..((j + 1) - 1) PROVE k - 1 \in (i + 1)..(j - 1) /\ r[k - 1] = q[k]
  <2>1. k - 1 \in (i + 1)..(j - 1) /\ k - 1 \in 1..m /\ (k - 1) + 1 = k
    OBVIOUS
  <2> QED
    BY <1>1, <2>1 DEF r
<1> QED
  BY <1>3, <1>4

\* What BrokerInv says of the places of the sequences.
LEMMA Sequences ==
  ASSUME BrokerInv
  PROVE  /\ transcript \in Seq(Chunk)
         /\ \A s \in Subs : /\ got[s] \in Seq(Chunk) /\ chan[s].buf \in Seq(Chunk)
                           /\ Stream(s) \in Seq(Chunk)
         /\ \A p \in Publishers : /\ pub[p].run \in Nat /\ pub[p].n \in Nat /\ pub[p].run <= run
                                 /\ pub[p].todo \in Seq(Subs) /\ InFlight(p) \in Chunk
<1>1. \A s \in Subs : got[s] \in Seq(Chunk) /\ chan[s] \in Channel
  BY DEF BrokerInv, BrokerTypes
<1>2. \A s \in Subs : chan[s].buf \in Seq(Chunk)
  BY <1>1 DEF Channel
<1>3. \A s \in Subs : Stream(s) \in Seq(Chunk)
  BY <1>1, <1>2, ConcatProperties DEF Stream
<1>4. \A p \in Publishers : pub[p] \in Publisher /\ pub[p].run <= run
  BY DEF BrokerInv, BrokerTypes
<1>5. \A p \in Publishers : pub[p].run \in Nat /\ pub[p].n \in Nat /\ pub[p].todo \in Seq(Subs)
  BY <1>4 DEF Publisher
<1>6. \A p \in Publishers : InFlight(p) \in Chunk
  BY <1>5 DEF InFlight, Chunk
<1> QED
  BY <1>1, <1>2, <1>3, <1>4, <1>5, <1>6 DEF BrokerInv, BrokerTypes

\* No publisher is the loop and a tool at once.
LEMMA LoopIsPublisher == Loop \in Publishers /\ \A p \in Tools : p \in Publishers /\ p # Loop
BY PublisherAssumption DEF Publishers

\* A step that touches none of what BrokerInv speaks of keeps it.
LEMMA BrokerIdle ==
  ASSUME BrokerInv, UNCHANGED <<run, closed, transcript, subscribers, chan, got, pub>>
  PROVE  BrokerInv'
BY DEF BrokerInv, BrokerTypes, Enrolled

\* A run starts with nothing retained and nothing on its way from its loop.
LEMMA BrokerStart ==
  ASSUME BrokerInv, NEW t \in Turns, StartRun(t)
  PROVE  BrokerInv'
<1>1. /\ run' = run + 1 /\ run' \in Nat /\ closed' = FALSE /\ transcript' = <<>>
      /\ UNCHANGED <<subscribers, chan, got>>
  BY DEF StartRun, BrokerInv, BrokerTypes
<1>2. pub' = [pub EXCEPT ![Loop] = [run |-> run + 1, working |-> TRUE, n |-> 0, todo |-> <<>>]]
  BY DEF StartRun
<1>3. [run |-> run + 1, working |-> TRUE, n |-> 0, todo |-> <<>>] \in Publisher
  BY DEF Publisher, BrokerInv, BrokerTypes
<1>4. /\ pub' \in [Publishers -> Publisher]
      /\ pub'[Loop].run = run + 1 /\ pub'[Loop].todo = <<>>
      /\ \A p \in Publishers \ {Loop} : pub'[p] = pub[p]
  BY <1>2, <1>3, LoopIsPublisher DEF BrokerInv, BrokerTypes
<1>5. ASSUME NEW p \in Publishers PROVE pub'[p].run <= run' /\ Distinct(pub'[p].todo)
  <2>1. CASE p = Loop
    BY <1>1, <1>4, <2>1 DEF Distinct
  <2>2. CASE p # Loop
    <3>1. pub[p].run \in Nat /\ pub[p].run <= run /\ run \in Nat /\ Distinct(pub[p].todo)
      BY Sequences DEF BrokerInv, BrokerTypes
    <3> QED
      BY <1>1, <1>4, <2>2, <3>1
  <2> QED
    BY <2>1, <2>2
<1>6. BrokerTypes'
  <2>1. transcript' \in Seq(Chunk)
    BY <1>1
  <2>3. closed' \in BOOLEAN
    BY <1>1, Zenon
  <2>2. /\ run' \in Nat /\ subscribers' \in Seq(Subs) /\ Distinct(subscribers')
        /\ chan' \in [Subs -> Channel] /\ got' \in [Subs -> Seq(Chunk)]
    BY <1>1 DEF BrokerInv, BrokerTypes
  <2> QED
    BY <1>4, <1>5, <2>1, <2>2, <2>3 DEF BrokerTypes
<1>7. ASSUME NEW s \in Subs PROVE Enrolled(s)'
  <2>1. ASSUME NEW p \in Publishers, s \in Range(pub'[p].todo) PROVE s \in Range(pub[p].todo)
    BY <1>4, <2>1 DEF Range
  <2> QED
    BY <1>1, <2>1 DEF BrokerInv, Enrolled
<1> QED
  BY <1>1, <1>6, <1>7 DEF BrokerInv

\* A new subscription is registered unless the stream is closed.
LEMMA BrokerSubscribe ==
  ASSUME BrokerInv, NEW s \in Subs, Subscribe(s)
  PROVE  BrokerInv'
<1> DEFINE c == [state |-> IF closed THEN "ended" ELSE "open", buf |-> transcript,
                 cap |-> IF closed THEN Len(transcript) ELSE Len(transcript) + Buffer]
<1>1. /\ chan[s].state = "none" /\ chan' = [chan EXCEPT ![s] = c]
      /\ subscribers' = IF closed THEN subscribers ELSE Append(subscribers, s)
      /\ UNCHANGED <<run, closed, transcript, got, pub>>
  BY DEF Subscribe, claimVars
<1>2. c \in Channel /\ c.state = IF closed THEN "ended" ELSE "open"
  <2>1. transcript \in Seq(Chunk) /\ Len(transcript) \in Nat /\ Len(transcript) + Buffer \in Nat
    BY BoundAssumption DEF BrokerInv, BrokerTypes
  <2> QED
    BY <2>1 DEF Channel, States
<1> HIDE DEF c
<1>3. chan' \in [Subs -> Channel] /\ chan'[s] = c /\ \A u \in Subs \ {s} : chan'[u] = chan[u]
  BY <1>1, <1>2 DEF BrokerInv, BrokerTypes
<1>4. subscribers \in Seq(Subs) /\ Distinct(subscribers) /\ s \notin Range(subscribers)
  BY <1>1 DEF BrokerInv, BrokerTypes, Enrolled
<1>5. /\ subscribers' \in Seq(Subs) /\ Distinct(subscribers')
      /\ \A u : u \in Range(subscribers') <=> u \in Range(subscribers) \/ (~closed /\ u = s)
  BY <1>1, <1>4, RangeAppend, AppendProperties
<1>6. BrokerTypes'
  BY <1>1, <1>3, <1>5 DEF BrokerInv, BrokerTypes
<1>7. ASSUME NEW u \in Subs PROVE Enrolled(u)'
  <2>1. CASE u = s
    BY <1>2, <1>3, <1>4, <1>5, <2>1 DEF Enrolled
  <2>2. CASE u # s
    BY <1>1, <1>3, <1>5, <2>2 DEF BrokerInv, Enrolled
  <2> QED
    BY <2>1, <2>2
<1> QED
  BY <1>1, <1>6, <1>7 DEF BrokerInv

\* What is received was in the channel.
LEMMA BrokerReceive ==
  ASSUME BrokerInv, NEW s \in Subs, Receive(s)
  PROVE  BrokerInv'
<1>1. /\ chan[s].buf # <<>> /\ got' = [got EXCEPT ![s] = Append(got[s], Head(chan[s].buf))]
      /\ chan' = [chan EXCEPT ![s] = [chan[s] EXCEPT !.buf = Tail(chan[s].buf)]]
      /\ UNCHANGED <<run, closed, transcript, subscribers, pub>>
  BY DEF Receive, claimVars
<1>2. got[s] \in Seq(Chunk) /\ chan[s].buf \in Seq(Chunk)
  BY Sequences
<1>3. Append(got[s], Head(chan[s].buf)) \in Seq(Chunk) /\ Tail(chan[s].buf) \in Seq(Chunk)
  BY <1>1, <1>2, HeadTailProperties, AppendProperties
<1>4. got' \in [Subs -> Seq(Chunk)] /\ \A u \in Subs \ {s} : got'[u] = got[u]
  BY <1>1, <1>3 DEF BrokerInv, BrokerTypes
<1>5. chan \in [Subs -> Channel] /\ chan[s] \in Channel
  BY DEF BrokerInv, BrokerTypes
<1>6. /\ chan' \in [Subs -> Channel] /\ chan'[s].state = chan[s].state
      /\ \A u \in Subs \ {s} : chan'[u] = chan[u]
  <2>1. [chan[s] EXCEPT !.buf = Tail(chan[s].buf)] \in Channel
        /\ [chan[s] EXCEPT !.buf = Tail(chan[s].buf)].state = chan[s].state
    BY <1>3, <1>5 DEF Channel
  <2> QED
    BY <1>1, <1>5, <2>1
<1>7. BrokerTypes'
  BY <1>1, <1>4, <1>6 DEF BrokerInv, BrokerTypes
<1>8. ASSUME NEW u \in Subs PROVE Enrolled(u)'
  <2>1. CASE u = s
    BY <1>1, <1>6, <2>1 DEF BrokerInv, Enrolled
  <2>2. CASE u # s
    BY <1>1, <1>4, <1>6, <2>2 DEF BrokerInv, Enrolled
  <2> QED
    BY <2>1, <2>2
<1> QED
  BY <1>1, <1>7, <1>8 DEF BrokerInv

\* Who leaves is struck from the list, and his channel closed.
LEMMA BrokerUnsubscribe ==
  ASSUME BrokerInv, NEW s \in Subs, Unsubscribe(s)
  PROVE  BrokerInv'
<1>1. PICK i \in DOMAIN subscribers :
        /\ subscribers[i] = s
        /\ subscribers' = SubSeq(subscribers, 1, i - 1) \o SubSeq(subscribers, i + 1, Len(subscribers))
  BY DEF Unsubscribe
<1>2. /\ chan' = [chan EXCEPT ![s] = [chan[s] EXCEPT !.state = "left"]]
      /\ UNCHANGED <<run, closed, transcript, got, pub>>
  BY DEF Unsubscribe, claimVars
<1>3. /\ subscribers' \in Seq(Subs) /\ Distinct(subscribers')
      /\ \A u : u \in Range(subscribers') <=> u \in Range(subscribers) /\ u # s
  BY <1>1, RangeRemoved DEF BrokerInv, BrokerTypes
<1>4. chan \in [Subs -> Channel] /\ chan[s] \in Channel
  BY DEF BrokerInv, BrokerTypes
<1>5. chan' \in [Subs -> Channel] /\ chan'[s].state = "left" /\ \A u \in Subs \ {s} : chan'[u] = chan[u]
  <2>1. [chan[s] EXCEPT !.state = "left"] \in Channel /\ [chan[s] EXCEPT !.state = "left"].state = "left"
    BY <1>4 DEF Channel, States
  <2> QED
    BY <1>2, <1>4, <2>1
<1>6. BrokerTypes'
  BY <1>2, <1>3, <1>5 DEF BrokerInv, BrokerTypes
<1>7. ASSUME NEW u \in Subs PROVE Enrolled(u)'
  <2>1. CASE u = s
    BY <1>3, <1>5, <2>1 DEF Enrolled
  <2>2. CASE u # s
    BY <1>2, <1>3, <1>5, <2>2 DEF BrokerInv, Enrolled
  <2> QED
    BY <2>1, <2>2
<1> QED
  BY <1>2, <1>6, <1>7 DEF BrokerInv

\* A step that changes one publisher, which then has no more to serve than it
\* had, keeps BrokerInv.
LEMMA BrokerPublisher ==
  ASSUME BrokerInv, NEW p \in Publishers, NEW r \in Publisher,
         pub' = [pub EXCEPT ![p] = r], r.run <= run,
         Distinct(r.todo), \A s \in Subs : s \in Range(r.todo) => chan[s].state # "none",
         p = Loop /\ r.working => pub[Loop].working,
         UNCHANGED <<run, closed, subscribers, chan, got>>, transcript' \in Seq(Chunk)
  PROVE  BrokerInv'
<1>1. pub' \in [Publishers -> Publisher] /\ pub'[p] = r /\ \A q \in Publishers \ {p} : pub'[q] = pub[q]
  BY DEF BrokerInv, BrokerTypes
<1>2. BrokerTypes'
  BY <1>1 DEF BrokerInv, BrokerTypes
<1>3. ASSUME NEW s \in Subs PROVE Enrolled(s)'
  BY <1>1 DEF BrokerInv, Enrolled
<1>4. pub'[Loop].working => pub[Loop].working
  BY <1>1, LoopIsPublisher
<1> QED
  BY <1>2, <1>3, <1>4 DEF BrokerInv

\* The steps that serve subscriptions or stop serving them.
LEMMA BrokerTools ==
  ASSUME BrokerInv, NEW p \in Tools, StartTool(p) \/ ToolReturns(p) \/ PublishCancelled(p)
  PROVE  BrokerInv'
<1>1. pub[p] \in Publisher /\ p \in Publishers /\ p # Loop
  BY LoopIsPublisher DEF BrokerInv, BrokerTypes
<1>2. /\ run \in Nat /\ pub[p].run <= run /\ Distinct(pub[p].todo)
      /\ \A s \in Subs : s \in Range(pub[p].todo) => chan[s].state # "none"
  BY <1>1 DEF BrokerInv, BrokerTypes, Enrolled
<1>3. UNCHANGED <<run, closed, transcript, subscribers, chan, got>> /\ transcript' \in Seq(Chunk)
  BY DEF StartTool, ToolReturns, PublishCancelled, claimVars, BrokerInv, BrokerTypes
<1>4. CASE StartTool(p)
  <2> DEFINE r == [run |-> run, working |-> TRUE, n |-> 0, todo |-> <<>>]
  <2>1. r \in Publisher /\ r.run <= run /\ Distinct(r.todo) /\ \A s : s \notin Range(r.todo)
    BY <1>2 DEF Publisher, Distinct, Range
  <2>2. pub' = [pub EXCEPT ![p] = r]
    BY <1>4 DEF StartTool
  <2> HIDE DEF r
  <2> QED
    BY <1>1, <1>3, <2>1, <2>2, BrokerPublisher
<1>5. CASE ToolReturns(p)
  <2> DEFINE r == [pub[p] EXCEPT !.working = FALSE]
  <2>1. r \in Publisher /\ r.run = pub[p].run /\ r.todo = pub[p].todo
    BY <1>1 DEF Publisher
  <2>2. pub' = [pub EXCEPT ![p] = r]
    BY <1>5 DEF ToolReturns
  <2> HIDE DEF r
  <2> QED
    BY <1>1, <1>2, <1>3, <2>1, <2>2, BrokerPublisher
<1>6. CASE PublishCancelled(p)
  <2> DEFINE r == [pub[p] EXCEPT !.todo = <<>>]
  <2>4. <<>> \in Seq(Subs)
    OBVIOUS
  <2>1. r \in Publisher /\ r.run = pub[p].run /\ r.todo = <<>>
    BY <1>1, <2>4 DEF Publisher
  <2>3. Distinct(r.todo) /\ \A s : s \notin Range(r.todo)
    <3> HIDE DEF r
    <3> QED
      BY <2>1 DEF Distinct, Range
  <2>2. pub' = [pub EXCEPT ![p] = r]
    BY <1>6 DEF PublishCancelled
  <2> HIDE DEF r
  <2> QED
    BY <1>1, <1>2, <1>3, <2>1, <2>2, <2>3, BrokerPublisher
<1> QED
  BY <1>4, <1>5, <1>6

\* Publish retains the chunk and serves who is registered, or counts it only.
LEMMA PublishEffect ==
  ASSUME BrokerInv, NEW p \in Publishers, Publish(p)
  PROVE  /\ pub[p].working /\ ~IsPublishing(p)
         /\ UNCHANGED <<run, closed, subscribers, chan, got>>
         /\ \E r \in Publisher :
              /\ pub' = [pub EXCEPT ![p] = r]
              /\ r.run = pub[p].run /\ r.working = pub[p].working /\ r.n = pub[p].n + 1
              /\ \/ closed /\ r.todo = pub[p].todo /\ transcript' = transcript
                 \/ /\ ~closed /\ r.todo = subscribers
                    /\ transcript' = Retain([run |-> r.run, by |-> p, n |-> r.n])
<1>1. pub[p] \in Publisher /\ pub[p].n \in Nat /\ subscribers \in Seq(Subs)
  BY Sequences DEF BrokerInv, BrokerTypes
<1>2. CASE closed
  <2> DEFINE r == [pub[p] EXCEPT !.n = pub[p].n + 1]
  <2>1. r \in Publisher /\ r.run = pub[p].run /\ r.working = pub[p].working /\ r.n = pub[p].n + 1
        /\ r.todo = pub[p].todo
    BY <1>1 DEF Publisher
  <2>2. pub' = [pub EXCEPT ![p] = r] /\ transcript' = transcript
    BY <1>2 DEF Publish
  <2> HIDE DEF r
  <2> QED
    BY <1>2, <2>1, <2>2 DEF Publish, claimVars
<1>3. CASE ~closed
  <2> DEFINE counted == [pub[p] EXCEPT !.n = pub[p].n + 1]
  <2> DEFINE r == [counted EXCEPT !.todo = subscribers]
  <2>1. r \in Publisher /\ r.run = pub[p].run /\ r.working = pub[p].working /\ r.n = pub[p].n + 1
        /\ r.todo = subscribers
    <3>1. counted \in Publisher /\ counted.run = pub[p].run /\ counted.working = pub[p].working
          /\ counted.n = pub[p].n + 1
      BY <1>1 DEF Publisher
    <3> HIDE DEF counted
    <3> QED
      BY <1>1, <3>1 DEF Publisher
  <2>2. pub' = [pub EXCEPT ![p] = r]
    <3>1. pub' = [pub EXCEPT ![p].n = @ + 1, ![p].todo = subscribers]
      BY <1>3 DEF Publish
    <3>2. DOMAIN pub = Publishers
      BY DEF BrokerInv, BrokerTypes
    <3> QED
      BY <3>1, <3>2
  <2>3. transcript' = Retain([run |-> pub[p].run, by |-> p, n |-> pub[p].n + 1])
    BY <1>3 DEF Publish
  <2> HIDE DEF r
  <2> QED
    BY <1>3, <2>1, <2>2, <2>3 DEF Publish, claimVars
<1> QED
  BY <1>2, <1>3

\* Retain drops the oldest chunk or none.
LEMMA RetainEffect ==
  ASSUME NEW c, transcript \in Seq(Chunk)
  PROVE  \/ Retain(c) = Append(transcript, c)
         \/ transcript # <<>> /\ Retain(c) = Append(Tail(transcript), c)
<1>1. maxTranscript \in Nat \ {0} /\ Len(transcript) \in Nat
  BY BoundAssumption
<1>2. Len(transcript) >= maxTranscript => transcript # <<>>
  BY <1>1, EmptySeq
<1> QED
  BY <1>2 DEF Retain

LEMMA BrokerPublish ==
  ASSUME BrokerInv, NEW p \in Publishers, Publish(p)
  PROVE  BrokerInv'
<1>1. PICK r \in Publisher :
        /\ pub' = [pub EXCEPT ![p] = r]
        /\ r.run = pub[p].run /\ r.working = pub[p].working /\ r.n = pub[p].n + 1
        /\ \/ closed /\ r.todo = pub[p].todo /\ transcript' = transcript
           \/ /\ ~closed /\ r.todo = subscribers
              /\ transcript' = Retain([run |-> r.run, by |-> p, n |-> r.n])
  BY PublishEffect
<1>2. UNCHANGED <<run, closed, subscribers, chan, got>>
  BY PublishEffect
<1>3. pub[p].run <= run /\ transcript \in Seq(Chunk)
  BY DEF BrokerInv, BrokerTypes
<1>4. Distinct(r.todo) /\ \A s \in Subs : s \in Range(r.todo) => chan[s].state # "none"
  BY <1>1 DEF BrokerInv, BrokerTypes, Enrolled
<1>5. transcript' \in Seq(Chunk)
  <2> DEFINE c == [run |-> r.run, by |-> p, n |-> r.n]
  <2>1. c \in Chunk
    BY DEF Publisher, Chunk
  <2> HIDE DEF c
  <2>2. Append(transcript, c) \in Seq(Chunk)
    BY <1>3, <2>1, AppendProperties
  <2>3. transcript # <<>> => Append(Tail(transcript), c) \in Seq(Chunk)
    BY <1>3, <2>1, AppendProperties, HeadTailProperties
  <2>4. transcript' = transcript \/ transcript' = Retain(c)
    BY <1>1 DEF c
  <2> QED
    BY <1>3, <2>2, <2>3, <2>4, RetainEffect
<1> QED
  BY <1>1, <1>2, <1>3, <1>4, <1>5, BrokerPublisher

\* A Send puts its chunk at the end of the channel and takes its reader off the list.
LEMMA SendEffect ==
  ASSUME BrokerInv, NEW p \in Publishers, Send(p)
  PROVE  \E s \in Subs, r \in Publisher, c \in Channel :
           /\ pub[p].todo # <<>> /\ s = Head(pub[p].todo)
           /\ pub' = [pub EXCEPT ![p] = r]
           /\ r.run = pub[p].run /\ r.working = pub[p].working /\ r.n = pub[p].n
           /\ r.todo = Tail(pub[p].todo)
           /\ chan[s].state = "open" /\ c.state = "open"
           /\ c.buf = Append(chan[s].buf, InFlight(p))
           /\ chan' = [chan EXCEPT ![s] = c]
           /\ UNCHANGED <<run, closed, transcript, subscribers, got>>
<1> DEFINE s == Head(pub[p].todo)
<1> DEFINE r == [pub[p] EXCEPT !.todo = Tail(pub[p].todo)]
<1> DEFINE c == [chan[s] EXCEPT !.buf = Append(chan[s].buf, InFlight(p))]
<1>1. pub[p].todo # <<>> /\ chan[s].state = "open"
  BY DEF Send, IsPublishing
<1>2. /\ pub' = [pub EXCEPT ![p] = r] /\ chan' = [chan EXCEPT ![s] = c]
      /\ UNCHANGED <<run, closed, transcript, subscribers, got>>
  BY DEF Send, claimVars
<1>3. pub[p] \in Publisher /\ pub[p].todo \in Seq(Subs) /\ InFlight(p) \in Chunk
  BY Sequences DEF BrokerInv, BrokerTypes
<1>4. s \in Subs /\ Tail(pub[p].todo) \in Seq(Subs)
  BY <1>1, <1>3, HeadTailProperties
<1> HIDE DEF s
<1>5. chan[s] \in Channel /\ chan[s].buf \in Seq(Chunk)
  BY <1>4, Sequences DEF BrokerInv, BrokerTypes
<1>6. Append(chan[s].buf, InFlight(p)) \in Seq(Chunk)
  BY <1>3, <1>5, AppendProperties
<1>7. r \in Publisher /\ r.run = pub[p].run /\ r.working = pub[p].working /\ r.n = pub[p].n
      /\ r.todo = Tail(pub[p].todo)
  BY <1>3, <1>4 DEF Publisher
<1>8. c \in Channel /\ c.state = "open" /\ c.buf = Append(chan[s].buf, InFlight(p))
  BY <1>1, <1>5, <1>6 DEF Channel
<1> HIDE DEF r, c
<1> QED
  BY <1>1, <1>2, <1>4, <1>7, <1>8 DEF s

LEMMA BrokerSend ==
  ASSUME BrokerInv, NEW p \in Publishers, Send(p)
  PROVE  BrokerInv'
<1>1. PICK s \in Subs, r \in Publisher, c \in Channel :
           /\ pub[p].todo # <<>> /\ s = Head(pub[p].todo)
           /\ pub' = [pub EXCEPT ![p] = r]
           /\ r.run = pub[p].run /\ r.working = pub[p].working /\ r.n = pub[p].n
           /\ r.todo = Tail(pub[p].todo)
           /\ chan[s].state = "open" /\ c.state = "open"
           /\ c.buf = Append(chan[s].buf, InFlight(p))
           /\ chan' = [chan EXCEPT ![s] = c]
           /\ UNCHANGED <<run, closed, transcript, subscribers, got>>
  BY SendEffect
<1>2. /\ pub \in [Publishers -> Publisher] /\ chan \in [Subs -> Channel]
      /\ \A q \in Publishers : pub[q].run <= run /\ Distinct(pub[q].todo) /\ pub[q].todo \in Seq(Subs)
  BY Sequences DEF BrokerInv, BrokerTypes
<1>3. Distinct(r.todo) /\ \A u : u \in Range(r.todo) => u \in Range(pub[p].todo)
  BY <1>1, <1>2, RangeTail
<1>4. /\ pub' \in [Publishers -> Publisher] /\ pub'[p] = r
      /\ \A q \in Publishers \ {p} : pub'[q] = pub[q]
      /\ chan' \in [Subs -> Channel] /\ chan'[s] = c
      /\ \A u \in Subs \ {s} : chan'[u] = chan[u]
  BY <1>1, <1>2
<1>5. ASSUME NEW q \in Publishers
      PROVE  /\ pub'[q].run = pub[q].run /\ pub'[q].working = pub[q].working
             /\ Distinct(pub'[q].todo)
             /\ \A u : u \in Range(pub'[q].todo) => u \in Range(pub[q].todo)
  <2>1. CASE q = p
    BY <1>1, <1>3, <1>4, <2>1
  <2>2. CASE q # p
    BY <1>2, <1>4, <2>2
  <2> QED
    BY <2>1, <2>2
<1>6. BrokerTypes'
  <2>1. \A q \in Publishers : pub'[q].run <= run' /\ Distinct(pub'[q].todo)
    BY <1>1, <1>2, <1>5
  <2> QED
    BY <1>1, <1>4, <2>1 DEF BrokerInv, BrokerTypes
<1>7. ASSUME NEW u \in Subs PROVE Enrolled(u)'
  <2>1. CASE u = s
    BY <1>1, <1>4, <2>1 DEF BrokerInv, Enrolled
  <2>2. CASE u # s
    BY <1>1, <1>4, <1>5, <2>2 DEF BrokerInv, Enrolled
  <2> QED
    BY <2>1, <2>2
<1> QED
  BY <1>1, <1>5, <1>6, <1>7, LoopIsPublisher DEF BrokerInv

\* After a Close no subscription is open, and the loop is done.
LEMMA BrokerClose ==
  ASSUME BrokerInv, Close
  PROVE  BrokerInv'
<1> DEFINE r == [pub[Loop] EXCEPT !.working = FALSE]
<1>1. /\ UNCHANGED <<run, transcript, got>> /\ closed' = TRUE /\ subscribers' = <<>>
      /\ chan' = [s \in Subs |-> IF s \in Registered THEN [chan[s] EXCEPT !.state = "ended"] ELSE chan[s]]
      /\ pub' = [pub EXCEPT ![Loop] = r]
  BY DEF Close
<1>2. pub[Loop] \in Publisher /\ Loop \in Publishers
  BY LoopIsPublisher DEF BrokerInv, BrokerTypes
<1>3. r \in Publisher /\ r.run = pub[Loop].run /\ r.working = FALSE /\ r.todo = pub[Loop].todo
  BY <1>2 DEF Publisher
<1> HIDE DEF r
<1>4. /\ pub' \in [Publishers -> Publisher] /\ pub'[Loop].working = FALSE
      /\ \A q \in Publishers : pub'[q].run = pub[q].run /\ pub'[q].todo = pub[q].todo
  BY <1>1, <1>2, <1>3 DEF BrokerInv, BrokerTypes
<1>5. ASSUME NEW s \in Subs
      PROVE  /\ chan'[s] \in Channel /\ chan'[s].buf = chan[s].buf
             /\ chan'[s].state = IF s \in Range(subscribers) THEN "ended" ELSE chan[s].state
  <2>1. chan[s] \in Channel /\ (s \in Registered <=> s \in Range(subscribers))
    BY DEF BrokerInv, BrokerTypes, Registered, Range
  <2>2. [chan[s] EXCEPT !.state = "ended"] \in Channel
        /\ [chan[s] EXCEPT !.state = "ended"].state = "ended"
        /\ [chan[s] EXCEPT !.state = "ended"].buf = chan[s].buf
    BY <2>1 DEF Channel, States
  <2>3. chan'[s] = IF s \in Range(subscribers) THEN [chan[s] EXCEPT !.state = "ended"] ELSE chan[s]
    BY <1>1, <2>1
  <2> QED
    BY <2>1, <2>2, <2>3
<1>6. BrokerTypes'
  <2>1. chan' \in [Subs -> Channel]
    <3>1. DOMAIN chan' = Subs /\ chan' = [s \in Subs |-> chan'[s]]
      BY <1>1
    <3> QED
      BY <1>5, <3>1
  <2>2. subscribers' \in Seq(Subs) /\ Distinct(subscribers')
    BY <1>1 DEF Distinct
  <2> QED
    BY <1>1, <1>4, <2>1, <2>2 DEF BrokerInv, BrokerTypes
<1>7. ASSUME NEW s \in Subs PROVE Enrolled(s)'
  <2>1. s \notin Range(subscribers')
    BY <1>1 DEF Range
  <2>2. chan'[s].state # "open" /\ (chan'[s].state = "none" => chan[s].state = "none")
    BY <1>5 DEF BrokerInv, Enrolled
  <2> QED
    BY <1>1, <1>4, <1>5, <2>1, <2>2 DEF BrokerInv, Enrolled
<1> QED
  BY <1>4, <1>6, <1>7 DEF BrokerInv

\* Every step keeps the types and the enrolment.
LEMMA BrokerStep == BrokerInv /\ [Next]_vars => BrokerInv'
<1> SUFFICES ASSUME BrokerInv, [Next]_vars PROVE BrokerInv'
  OBVIOUS
<1>1. ASSUME NEW t \in Turns, Enqueue(t) PROVE BrokerInv'
  BY <1>1, BrokerIdle DEF Enqueue
<1>2. CASE Stop \/ DrainMessages
  BY <1>2, BrokerIdle DEF Stop, DrainMessages, claimVars
<1>3. ASSUME NEW p \in Publishers, SendOnClosed(p) PROVE BrokerInv'
  BY <1>3, BrokerIdle DEF SendOnClosed, claimVars
<1>4. CASE UNCHANGED vars
  BY <1>4, BrokerIdle DEF vars
<1>5. ASSUME NEW p \in Publishers, PublishCancelled(p) PROVE BrokerInv'
  BY <1>5, BrokerTools DEF PublishCancelled
<1> QED
  BY <1>1, <1>2, <1>3, <1>4, <1>5, BrokerStart, BrokerSubscribe, BrokerUnsubscribe,
     BrokerReceive, BrokerTools, BrokerPublish, BrokerSend, BrokerClose
     DEF Next, Clients, Publishing

-----------------------------------------------------------------------------
(* Chunks.                                                                 *)

\* The fields of what sequences of chunks hold.
LEMMA Chunks ==
  ASSUME NEW q \in Seq(Chunk), NEW c \in Range(q)
  PROVE  c \in Chunk /\ c.run \in Nat /\ c.by \in Publishers /\ c.n \in Nat
<1>1. c \in Chunk
  BY RangeOfSeq
<1> QED
  BY <1>1 DEF Chunk

\* A step that leaves the retained chunks and all that has been put in the
\* subscriptions, opens none, and at most gives up a tool's sends.
Quiet ==
  /\ transcript' = transcript
  /\ \A s \in Subs : Stream(s)' = Stream(s) /\ (chan'[s].state = "open" => chan[s].state = "open")
  /\ \A p \in Publishers :
       /\ pub'[p].run = pub[p].run /\ pub'[p].n = pub[p].n
       /\ Range(pub'[p].todo) \subseteq Range(pub[p].todo)
  /\ pub'[Loop].todo = pub[Loop].todo

\* Such a step keeps the chunks in order.
LEMMA QuietKeeps ==
  ASSUME BrokerInv, ChunkInv, Quiet
  PROVE  ChunkInv'
<1>1. ASSUME NEW q \in Seq(Chunk), NoneNewer(q) PROVE NoneNewer(q)'
  BY <1>1, Chunks DEF Quiet, NoneNewer
<1>2. ASSUME NEW q, NEW b \in {0, 1}, HasNewest(q, b) PROVE HasNewest(q, b)'
  BY <1>2, LoopIsPublisher DEF Quiet, HasNewest
<1>3. ASSUME NEW q, NEW p \in Publishers, AllOlder(q, p) PROVE AllOlder(q, p)'
  BY <1>3 DEF Quiet, AllOlder
<1>4. InFlight(Loop)' = InFlight(Loop)
  BY LoopIsPublisher DEF Quiet, InFlight
<1>5. TranscriptInv'
  BY <1>1, <1>2, Sequences DEF Quiet, ChunkInv, TranscriptInv
<1>6. ASSUME NEW s \in Subs PROVE StreamInv(s)' /\ OpenInv(s)'
  <2>1. Stream(s)' = Stream(s) /\ Stream(s) \in Seq(Chunk) /\ transcript' = transcript
        /\ pub'[Loop].todo = pub[Loop].todo
    BY Sequences DEF Quiet
  <2>2. StreamInv(s)'
    BY <1>1, <1>3, <2>1 DEF Quiet, ChunkInv, StreamInv
  <2>3. OpenInv(s)'
    BY <1>2, <1>4, <2>1 DEF Quiet, ChunkInv, OpenInv
  <2> QED
    BY <2>2, <2>3
<1> QED
  BY <1>5, <1>6 DEF ChunkInv

\* What is in a subscription depends on what was received and what is buffered.
LEMMA StreamIdle ==
  ASSUME NEW s \in Subs, got'[s] = got[s], chan'[s].buf = chan[s].buf
  PROVE  Stream(s)' = Stream(s)
BY DEF Stream

\* The steps that are quiet.
LEMMA QuietSteps ==
  ASSUME BrokerInv,
         \/ \E t \in Turns : Enqueue(t)
         \/ Stop \/ DrainMessages \/ Close
         \/ \E s \in Subs : Unsubscribe(s) \/ Receive(s)
         \/ \E p \in Tools : ToolReturns(p)
         \/ \E p \in Publishers : SendOnClosed(p) \/ PublishCancelled(p)
         \/ UNCHANGED vars
  PROVE  Quiet
<1>1. ASSUME UNCHANGED <<transcript, chan, got, pub>> PROVE Quiet
  BY <1>1, StreamIdle DEF Quiet
<1>2. ASSUME NEW t \in Turns, Enqueue(t) PROVE Quiet
  BY <1>1, <1>2 DEF Enqueue
<1>3. CASE Stop \/ DrainMessages \/ UNCHANGED vars
  BY <1>1, <1>3 DEF Stop, DrainMessages, vars
<1>4. ASSUME NEW p \in Publishers, SendOnClosed(p) PROVE Quiet
  BY <1>1, <1>4 DEF SendOnClosed
<1>5. pub \in [Publishers -> Publisher] /\ chan \in [Subs -> Channel] /\ got \in [Subs -> Seq(Chunk)]
  BY DEF BrokerInv, BrokerTypes
<1>6. ASSUME NEW p \in Tools, ToolReturns(p) PROVE Quiet
  <2>1. UNCHANGED <<transcript, chan, got>> /\ pub' = [pub EXCEPT ![p] = [pub[p] EXCEPT !.working = FALSE]]
    BY <1>6 DEF ToolReturns
  <2>2. p \in Publishers /\ pub[p] \in Publisher
    BY <1>5, LoopIsPublisher
  <2>3. \A q \in Publishers : pub'[q].run = pub[q].run /\ pub'[q].n = pub[q].n /\ pub'[q].todo = pub[q].todo
    BY <1>5, <2>1, <2>2 DEF Publisher
  <2> QED
    BY <2>1, <2>3, StreamIdle, LoopIsPublisher DEF Quiet
<1>7. ASSUME NEW p \in Publishers, PublishCancelled(p) PROVE Quiet
  <2>1. UNCHANGED <<transcript, chan, got>> /\ pub' = [pub EXCEPT ![p] = [pub[p] EXCEPT !.todo = <<>>]]
    BY <1>7 DEF PublishCancelled
  <2>2. p \in Publishers /\ p # Loop /\ pub[p] \in Publisher
    BY <1>5, <1>7, LoopIsPublisher DEF PublishCancelled
  <2>3. Range(<<>>) = {}
    BY DEF Range
  <2>4. \A q \in Publishers : /\ pub'[q].run = pub[q].run /\ pub'[q].n = pub[q].n
                            /\ \/ pub'[q].todo = pub[q].todo
                               \/ q = p /\ pub'[q].todo = <<>>
    BY <1>5, <2>1, <2>2 DEF Publisher
  <2> QED
    BY <2>1, <2>2, <2>3, <2>4, StreamIdle, LoopIsPublisher DEF Quiet
<1>8. CASE Close
  <2>1. /\ UNCHANGED <<transcript, got>> /\ pub' = [pub EXCEPT ![Loop] = [pub[Loop] EXCEPT !.working = FALSE]]
        /\ chan' = [s \in Subs |-> IF s \in Registered THEN [chan[s] EXCEPT !.state = "ended"] ELSE chan[s]]
    BY <1>8 DEF Close
  <2>2. \A q \in Publishers : pub'[q].run = pub[q].run /\ pub'[q].n = pub[q].n /\ pub'[q].todo = pub[q].todo
    BY <1>5, <2>1, LoopIsPublisher DEF Publisher
  <2>3. \A s \in Subs : chan'[s].buf = chan[s].buf /\ (chan'[s].state = "open" => chan[s].state = "open")
    BY <1>5, <2>1 DEF Channel
  <2> QED
    BY <2>1, <2>2, <2>3, StreamIdle, LoopIsPublisher DEF Quiet
<1>9. ASSUME NEW s \in Subs, Unsubscribe(s) PROVE Quiet
  <2>1. UNCHANGED <<transcript, got, pub>> /\ chan' = [chan EXCEPT ![s] = [chan[s] EXCEPT !.state = "left"]]
    BY <1>9 DEF Unsubscribe
  <2>2. \A u \in Subs : chan'[u].buf = chan[u].buf /\ (chan'[u].state = "open" => chan[u].state = "open")
    BY <1>5, <2>1 DEF Channel
  <2> QED
    BY <2>1, <2>2, StreamIdle DEF Quiet
<1>10. ASSUME NEW s \in Subs, Receive(s) PROVE Quiet
  <2>1. /\ UNCHANGED <<transcript, pub>> /\ chan[s].buf # <<>>
        /\ got' = [got EXCEPT ![s] = Append(got[s], Head(chan[s].buf))]
        /\ chan' = [chan EXCEPT ![s] = [chan[s] EXCEPT !.buf = Tail(chan[s].buf)]]
    BY <1>10 DEF Receive
  <2>2. \A u \in Subs : chan'[u].state = chan[u].state
    BY <1>5, <2>1 DEF Channel
  <2>3. \A u \in Subs \ {s} : got'[u] = got[u] /\ chan'[u].buf = chan[u].buf
    BY <1>5, <2>1
  <2>4. got'[s] = Append(got[s], Head(chan[s].buf)) /\ chan'[s].buf = Tail(chan[s].buf)
    BY <1>5, <2>1 DEF Channel
  <2>5. Stream(s)' = Stream(s)
    BY <2>1, <2>4, Sequences, HeadMoves DEF Stream
  <2> QED
    BY <2>1, <2>2, <2>3, <2>5, StreamIdle DEF Quiet
<1> QED
  BY <1>2, <1>3, <1>4, <1>6, <1>7, <1>8, <1>9, <1>10

\* A goroutine that takes up work for the run in flight has published nothing for it.
LEMMA ToolStarts ==
  ASSUME BrokerInv, ChunkInv, NEW p \in Tools, StartTool(p)
  PROVE  ChunkInv'
<1>1. /\ UNCHANGED <<transcript, chan, got>>
      /\ pub' = [pub EXCEPT ![p] = [run |-> run, working |-> TRUE, n |-> 0, todo |-> <<>>]]
      /\ pub[p].run < run
  BY DEF StartTool
<1>2. /\ pub \in [Publishers -> Publisher] /\ p \in Publishers /\ p # Loop /\ run \in Nat
      /\ \A q \in Publishers : pub[q].run \in Nat
  BY LoopIsPublisher, Sequences DEF BrokerInv, BrokerTypes
<1>3. pub'[p].run = run /\ Range(pub'[p].todo) = {} /\ \A q \in Publishers \ {p} : pub'[q] = pub[q]
  BY <1>1, <1>2 DEF Range
<1>4. ASSUME NEW q \in Seq(Chunk), NoneNewer(q) PROVE NoneNewer(q)'
  <2> SUFFICES ASSUME NEW c \in Range(q)
               PROVE  c.run <= pub'[c.by].run /\ (c.run = pub'[c.by].run => c.n <= pub'[c.by].n)
    BY DEF NoneNewer
  <2>1. c.run \in Nat /\ c.by \in Publishers
    BY Chunks
  <2>2. c.run <= pub[c.by].run /\ (c.run = pub[c.by].run => c.n <= pub[c.by].n)
    BY <1>4 DEF NoneNewer
  <2>3. CASE c.by = p
    BY <1>1, <1>2, <1>3, <2>1, <2>2, <2>3
  <2>4. CASE c.by # p
    BY <1>3, <2>1, <2>2, <2>4
  <2> QED
    BY <2>3, <2>4
<1>5. pub'[Loop] = pub[Loop]
  BY <1>2, <1>3, LoopIsPublisher
<1>6. TranscriptInv'
  BY <1>1, <1>4, <1>5, Sequences DEF ChunkInv, TranscriptInv, HasNewest
<1>7. ASSUME NEW s \in Subs PROVE StreamInv(s)' /\ OpenInv(s)'
  <2>1. Stream(s)' = Stream(s) /\ Stream(s) \in Seq(Chunk)
    BY <1>1, Sequences, StreamIdle
  <2>2. \A q \in Publishers : s \in Range(pub'[q].todo) => AllOlder(Stream(s), q)'
    BY <1>3, <2>1 DEF ChunkInv, StreamInv, AllOlder
  <2>3. StreamInv(s)'
    BY <1>4, <2>1, <2>2 DEF ChunkInv, StreamInv
  <2>4. OpenInv(s)'
    BY <1>1, <1>5, <2>1 DEF ChunkInv, OpenInv, HasNewest, InFlight
  <2> QED
    BY <2>3, <2>4
<1> QED
  BY <1>6, <1>7 DEF ChunkInv

\* A run starts with nothing retained, and no chunk is of a run to come.
LEMMA RunStarts ==
  ASSUME BrokerInv, ChunkInv, NEW t \in Turns, StartRun(t)
  PROVE  ChunkInv'
<1>1. /\ transcript' = <<>> /\ UNCHANGED <<chan, got>>
      /\ pub' = [pub EXCEPT ![Loop] = [run |-> run + 1, working |-> TRUE, n |-> 0, todo |-> <<>>]]
  BY DEF StartRun
<1>2. /\ pub \in [Publishers -> Publisher] /\ run \in Nat
      /\ \A q \in Publishers : pub[q].run \in Nat /\ pub[q].run <= run
  BY Sequences DEF BrokerInv, BrokerTypes
<1>3. /\ pub'[Loop].run = run + 1 /\ Range(pub'[Loop].todo) = {}
      /\ \A q \in Publishers \ {Loop} : pub'[q] = pub[q]
  BY <1>1, <1>2, LoopIsPublisher DEF Range
<1>4. ASSUME NEW q \in Seq(Chunk), NoneNewer(q), NEW c \in Range(q)
      PROVE  /\ c.run <= pub'[c.by].run /\ (c.run = pub'[c.by].run => c.n <= pub'[c.by].n)
             /\ c.run # run + 1
  <2>1. c.run \in Nat /\ c.by \in Publishers
    BY <1>4, Chunks
  <2>2. c.run <= pub[c.by].run /\ (c.run = pub[c.by].run => c.n <= pub[c.by].n)
    BY <1>4 DEF NoneNewer
  <2>3. CASE c.by = Loop
    BY <1>2, <1>3, <2>1, <2>2, <2>3
  <2>4. CASE c.by # Loop
    BY <1>2, <1>3, <2>1, <2>2, <2>4
  <2> QED
    BY <2>3, <2>4
<1>5. TranscriptInv'
  BY <1>1 DEF TranscriptInv, Ordered, NoneNewer, HasNewest, Range
<1>6. ASSUME NEW s \in Subs PROVE StreamInv(s)' /\ OpenInv(s)'
  <2>1. Stream(s)' = Stream(s) /\ Stream(s) \in Seq(Chunk) /\ Range(transcript') = {}
    BY <1>1, Sequences, StreamIdle DEF Range
  <2>2. \A q \in Publishers : s \in Range(pub'[q].todo) => AllOlder(Stream(s), q)'
    BY <1>3, <2>1 DEF ChunkInv, StreamInv, AllOlder
  <2>3. StreamInv(s)'
    BY <1>4, <2>1, <2>2 DEF ChunkInv, StreamInv, NoneNewer
  <2>4. HasNewest(Stream(s), 0)'
    BY <1>3, <1>4, <2>1 DEF ChunkInv, StreamInv, HasNewest
  <2>5. OpenInv(s)'
    BY <1>3, <2>1, <2>4 DEF OpenInv
  <2> QED
    BY <2>3, <2>5
<1> QED
  BY <1>5, <1>6 DEF ChunkInv

\* A new subscription has what is retained.
LEMMA Replays ==
  ASSUME BrokerInv, ChunkInv, NEW s \in Subs, Subscribe(s)
  PROVE  ChunkInv'
<1>1. /\ UNCHANGED <<transcript, got, pub>> /\ chan[s].state = "none"
      /\ chan' = [chan EXCEPT ![s] =
            [state |-> IF closed THEN "ended" ELSE "open", buf |-> transcript,
             cap |-> IF closed THEN Len(transcript) ELSE Len(transcript) + Buffer]]
  BY DEF Subscribe
<1>2. /\ chan \in [Subs -> Channel] /\ transcript \in Seq(Chunk)
      /\ got[s] = <<>> /\ \A p \in Publishers : s \notin Range(pub[p].todo)
  BY <1>1 DEF BrokerInv, BrokerTypes, Enrolled
<1>3. chan'[s].buf = transcript /\ \A u \in Subs \ {s} : chan'[u] = chan[u]
  BY <1>1, <1>2
<1>4. Stream(s)' = transcript
  BY <1>1, <1>2, <1>3, ConcatEmptySeq DEF Stream
<1>5. TranscriptInv'
  BY <1>1 DEF ChunkInv, TranscriptInv, NoneNewer, HasNewest
<1>6. ASSUME NEW u \in Subs PROVE StreamInv(u)' /\ OpenInv(u)'
  <2>1. CASE u = s
    BY <1>1, <1>2, <1>4, <2>1, LoopIsPublisher
       DEF ChunkInv, TranscriptInv, StreamInv, OpenInv, NoneNewer, HasNewest
  <2>2. CASE u # s
    <3>1. Stream(u)' = Stream(u) /\ chan'[u] = chan[u]
      BY <1>1, <1>3, <2>2, StreamIdle
    <3> QED
      BY <1>1, <3>1 DEF ChunkInv, StreamInv, OpenInv, NoneNewer, AllOlder, HasNewest, InFlight
  <2> QED
    BY <2>1, <2>2
<1> QED
  BY <1>5, <1>6 DEF ChunkInv

\* What is left when the oldest chunk is dropped still has the newest of the loop.
LEMMA TailRetains ==
  ASSUME BrokerInv, NEW q \in Seq(Chunk), q # <<>>, Ordered(q), NoneNewer(q), HasNewest(q, 0)
  PROVE  /\ Tail(q) \in Seq(Chunk) /\ Range(Tail(q)) \subseteq Range(q)
         /\ Ordered(Tail(q)) /\ NoneNewer(Tail(q)) /\ HasNewest(Tail(q), 0)
<1>1. PICK m \in Nat : /\ DOMAIN q = 1..(m + 1) /\ DOMAIN Tail(q) = 1..m
                      /\ \A i \in 1..m : Tail(q)[i] = q[i + 1]
  <2>1. Len(q) - 1 \in Nat /\ DOMAIN q = 1..((Len(q) - 1) + 1)
    BY EmptySeq, LenProperties
  <2>2. DOMAIN Tail(q) = 1..(Len(q) - 1) /\ \A i \in 1..(Len(q) - 1) : Tail(q)[i] = q[i + 1]
    BY HeadTailProperties, LenProperties
  <2> QED
    BY <2>1, <2>2
<1>2. \A i \in 1..m : i + 1 \in 1..(m + 1) /\ 1 < i + 1
  OBVIOUS
<1>3. Tail(q) \in Seq(Chunk) /\ Ordered(Tail(q))
  BY HeadTailProperties, OrderedTail
<1>4. Range(Tail(q)) \subseteq Range(q)
  BY <1>1, <1>2 DEF Range
<1>5. NoneNewer(Tail(q))
  BY <1>4 DEF NoneNewer
<1>6. HasNewest(Tail(q), 0)
  <2> SUFFICES ASSUME NEW c \in Range(Tail(q)), c.by = Loop, c.run = pub[Loop].run
               PROVE  \E e \in Range(Tail(q)) : e.by = Loop /\ e.run = pub[Loop].run
                                                /\ e.n + 0 = pub[Loop].n
    BY DEF HasNewest
  <2>1. PICK e \in Range(q) : e.by = Loop /\ e.run = pub[Loop].run /\ e.n + 0 = pub[Loop].n
    BY <1>4 DEF HasNewest
  <2>2. PICK i \in 1..(m + 1) : q[i] = e
    BY <1>1 DEF Range
  <2>3. PICK j \in 1..m : q[j + 1] = c
    BY <1>1 DEF Range
  <2>4. i # 1
    <3> SUFFICES ASSUME i = 1 PROVE FALSE
      OBVIOUS
    <3>1. q[1].n < q[j + 1].n
      BY <1>1, <1>2, <2>1, <2>2, <2>3 DEF Ordered, OfSame
    <3>2. c.n <= pub[Loop].n
      BY <1>5 DEF NoneNewer
    <3>3. e.n \in Nat /\ c.n \in Nat /\ pub[Loop].n \in Nat
      BY <1>3, <1>4, Chunks, Sequences, LoopIsPublisher
    <3> QED
      BY <2>1, <2>2, <2>3, <3>1, <3>2, <3>3
  <2>5. i - 1 \in 1..m /\ (i - 1) + 1 = i
    BY <2>4
  <2>6. e \in Range(Tail(q))
    BY <1>1, <2>2, <2>5 DEF Range
  <2> QED
    BY <2>1, <2>6
<1> QED
  BY <1>3, <1>4, <1>5, <1>6

\* The next chunk of a goroutine goes in order after those that are retained.
LEMMA NextInOrder ==
  ASSUME BrokerInv, NEW p \in Publishers, NEW q \in Seq(Chunk),
         Ordered(q), NoneNewer(q), HasNewest(q, 0)
  PROVE  Ordered(Append(q, [run |-> pub[p].run, by |-> p, n |-> pub[p].n + 1]))
<1> DEFINE c == [run |-> pub[p].run, by |-> p, n |-> pub[p].n + 1]
<1>1. pub[p].run \in Nat /\ pub[p].n \in Nat
  BY Sequences
<1>2. c \in Chunk /\ c.run = pub[p].run /\ c.by = p /\ c.n = pub[p].n + 1
  BY <1>1 DEF Chunk
<1> HIDE DEF c
<1>3. \A i \in DOMAIN q : q[i] \in Range(q)
  BY DEF Range
<1>4. ASSUME NEW i \in DOMAIN q, OfSame(q[i], c) PROVE q[i].n < c.n
  <2>1. q[i].by = p /\ q[i].run = pub[p].run
    BY <1>2, <1>4 DEF OfSame
  <2>2. q[i].n <= pub[p].n /\ q[i].n \in Nat
    BY <1>3, <2>1, Chunks DEF NoneNewer
  <2> QED
    BY <1>1, <1>2, <2>2
<1>5. ASSUME c.by = Loop, NEW i \in DOMAIN q, OfSame(q[i], c)
      PROVE  \E k \in DOMAIN q : OfSame(q[k], c) /\ q[k].n + 1 = c.n
  <2>1. p = Loop /\ q[i].by = Loop /\ q[i].run = pub[Loop].run
    BY <1>2, <1>5 DEF OfSame
  <2>2. PICK e \in Range(q) : e.by = Loop /\ e.run = pub[Loop].run /\ e.n + 0 = pub[Loop].n
    BY <1>3, <2>1 DEF HasNewest
  <2>3. PICK k \in DOMAIN q : q[k] = e
    BY DEF Range
  <2>4. e.n \in Nat
    BY Chunks
  <2>5. OfSame(q[k], c) /\ q[k].n + 1 = c.n
    BY <1>1, <1>2, <2>1, <2>2, <2>3, <2>4 DEF OfSame
  <2> QED
    BY <2>5
<1> QED
  BY <1>2, <1>4, <1>5, OrderedAppend DEF c

\* A Publish: the chunk is the newest that is retained, and is on its way to every
\* open subscription.
LEMMA Publishes ==
  ASSUME BrokerInv, ChunkInv, NEW p \in Publishers, Publish(p)
  PROVE  ChunkInv'
<1>1. PICK r \in Publisher :
        /\ pub' = [pub EXCEPT ![p] = r]
        /\ r.run = pub[p].run /\ r.working = pub[p].working /\ r.n = pub[p].n + 1
        /\ \/ closed /\ r.todo = pub[p].todo /\ transcript' = transcript
           \/ /\ ~closed /\ r.todo = subscribers
              /\ transcript' = Retain([run |-> r.run, by |-> p, n |-> r.n])
  BY PublishEffect
<1>2. UNCHANGED <<chan, got>> /\ pub[p].working /\ pub[p].todo = <<>>
  BY PublishEffect DEF IsPublishing
<1>3. pub \in [Publishers -> Publisher] /\ \A u \in Publishers : pub[u].run \in Nat /\ pub[u].n \in Nat
  BY Sequences DEF BrokerInv, BrokerTypes
<1>4. pub'[p] = r /\ \A u \in Publishers \ {p} : pub'[u] = pub[u]
  BY <1>1, <1>3
<1>5. \A s \in Subs : Stream(s)' = Stream(s) /\ Stream(s) \in Seq(Chunk)
  BY <1>2, Sequences, StreamIdle
<1>6. ASSUME NEW q \in Seq(Chunk), NoneNewer(q)
      PROVE  /\ NoneNewer(q)'
             /\ \A c \in Range(q) : c.by = p /\ c.run = r.run => c.n < r.n
  <2> SUFFICES ASSUME NEW c \in Range(q)
               PROVE  /\ c.run <= pub'[c.by].run /\ (c.run = pub'[c.by].run => c.n <= pub'[c.by].n)
                      /\ c.by = p /\ c.run = r.run => c.n < r.n
    BY DEF NoneNewer
  <2>1. c.n \in Nat /\ c.by \in Publishers
    BY Chunks
  <2>2. c.run <= pub[c.by].run /\ (c.run = pub[c.by].run => c.n <= pub[c.by].n)
    BY <1>6 DEF NoneNewer
  <2>3. CASE c.by = p
    BY <1>1, <1>3, <1>4, <2>1, <2>2, <2>3
  <2>4. CASE c.by # p
    BY <1>4, <2>1, <2>2, <2>4
  <2> QED
    BY <2>3, <2>4
<1>7. ASSUME NEW s \in Subs PROVE StreamInv(s)'
  <2>1. Ordered(Stream(s)) /\ NoneNewer(Stream(s))
    BY DEF ChunkInv, StreamInv
  <2>2. ASSUME NEW u \in Publishers, s \in Range(pub'[u].todo) PROVE AllOlder(Stream(s), u)'
    <3>1. CASE u = p
      BY <1>4, <1>5, <1>6, <2>1, <3>1 DEF AllOlder
    <3>2. CASE u # p
      BY <1>4, <1>5, <2>2, <3>2 DEF ChunkInv, StreamInv, AllOlder
    <3> QED
      BY <3>1, <3>2
  <2> QED
    BY <1>5, <1>6, <2>1, <2>2 DEF StreamInv
<1>8. CASE closed
  <2>1. p # Loop /\ pub'[Loop] = pub[Loop] /\ transcript' = transcript
    BY <1>1, <1>2, <1>4, <1>8, LoopIsPublisher DEF BrokerInv
  <2>2. TranscriptInv'
    BY <1>6, <2>1, Sequences DEF ChunkInv, TranscriptInv, HasNewest
  <2>3. ASSUME NEW s \in Subs PROVE OpenInv(s)'
    BY <1>2, <1>5, <2>1 DEF ChunkInv, OpenInv, HasNewest, InFlight
  <2> QED
    BY <1>7, <2>2, <2>3 DEF ChunkInv
<1>9. CASE ~closed
  <2> DEFINE c == [run |-> pub[p].run, by |-> p, n |-> pub[p].n + 1]
  <2>1. c \in Chunk /\ c.run = r.run /\ c.by = p /\ c.n = r.n /\ InFlight(p)' = c
    BY <1>1, <1>3, <1>4 DEF Chunk, InFlight
  <2>2. transcript' = Retain(c) /\ r.todo = subscribers
    BY <1>1, <1>9
  <2>3. \A q \in Seq(Chunk) : Ordered(q) /\ NoneNewer(q) /\ HasNewest(q, 0) => Ordered(Append(q, c))
    BY NextInOrder
  <2> HIDE DEF c
  <2>4. PICK q \in Seq(Chunk) : /\ transcript' = Append(q, c) /\ Range(q) \subseteq Range(transcript)
                               /\ Ordered(q) /\ NoneNewer(q) /\ HasNewest(q, 0)
    <3>1. /\ transcript \in Seq(Chunk) /\ Ordered(transcript) /\ NoneNewer(transcript)
          /\ HasNewest(transcript, 0)
      BY Sequences DEF ChunkInv, TranscriptInv
    <3>2. CASE Retain(c) = Append(transcript, c)
      BY <2>2, <3>1, <3>2
    <3>3. CASE transcript # <<>> /\ Retain(c) = Append(Tail(transcript), c)
      BY <2>2, <3>1, <3>3, TailRetains
    <3> QED
      BY <3>1, <3>2, <3>3, RetainEffect
  <2>5. Range(transcript') = Range(q) \cup {c}
    BY <2>1, <2>4, RangeAppend
  <2>6. Ordered(transcript')
    BY <2>3, <2>4
  <2>7. NoneNewer(transcript)'
    <3>1. c.run <= pub'[c.by].run /\ (c.run = pub'[c.by].run => c.n <= pub'[c.by].n)
      BY <1>3, <1>4, <1>1, <2>1
    <3> QED
      BY <1>6, <2>4, <2>5, <3>1 DEF NoneNewer
  <2>8. HasNewest(transcript, 0)'
    <3> SUFFICES ASSUME NEW d \in Range(transcript'), d.by = Loop, d.run = pub'[Loop].run
                 PROVE  \E e \in Range(transcript') :
                          e.by = Loop /\ e.run = pub'[Loop].run /\ e.n + 0 = pub'[Loop].n
      BY DEF HasNewest
    <3>1. CASE p = Loop
      <4>1. c \in Range(transcript') /\ c.by = Loop /\ c.run = pub'[Loop].run /\ c.n + 0 = pub'[Loop].n
        BY <1>1, <1>3, <1>4, <2>1, <2>5, <3>1
      <4> QED
        BY <4>1
    <3>2. CASE p # Loop
      <4>1. pub'[Loop] = pub[Loop] /\ d \in Range(q)
        BY <1>4, <2>1, <2>5, <3>2, LoopIsPublisher
      <4>2. PICK e \in Range(q) : e.by = Loop /\ e.run = pub[Loop].run /\ e.n + 0 = pub[Loop].n
        BY <2>4, <4>1 DEF HasNewest
      <4> QED
        BY <2>5, <4>1, <4>2
    <3> QED
      BY <3>1, <3>2
  <2>9. ASSUME NEW s \in Subs PROVE OpenInv(s)'
    <3> SUFFICES ASSUME chan[s].state = "open"
                 PROVE  /\ HasNewest(Stream(s), IF s \in Range(pub[Loop].todo) THEN 1 ELSE 0)'
                        /\ \A d \in Range(transcript') : d.by = Loop =>
                             \/ d \in Range(Stream(s))
                             \/ d = InFlight(Loop)' /\ s \in Range(pub'[Loop].todo)
      BY <1>2, <1>5 DEF OpenInv
    <3>1. s \in Range(subscribers)
      BY DEF BrokerInv, Enrolled
    <3>2. /\ HasNewest(Stream(s), IF s \in Range(pub[Loop].todo) THEN 1 ELSE 0)
          /\ \A d \in Range(transcript) : d.by = Loop =>
               \/ d \in Range(Stream(s))
               \/ d = InFlight(Loop) /\ s \in Range(pub[Loop].todo)
      BY DEF ChunkInv, OpenInv
    <3>3. CASE p # Loop
      <4>1. pub'[Loop] = pub[Loop] /\ InFlight(Loop)' = InFlight(Loop)
        BY <1>4, <3>3, LoopIsPublisher DEF InFlight
      <4>2. HasNewest(Stream(s), IF s \in Range(pub[Loop].todo) THEN 1 ELSE 0)'
        BY <1>5, <3>2, <4>1 DEF HasNewest
      <4>3. \A d \in Range(transcript') : d.by = Loop => d \in Range(transcript)
        BY <2>1, <2>4, <2>5, <3>3
      <4> QED
        BY <3>2, <4>1, <4>2, <4>3
    <3>4. CASE p = Loop
      <4>1. s \in Range(pub'[Loop].todo) /\ s \notin Range(pub[Loop].todo)
        BY <1>2, <1>4, <2>2, <3>1, <3>4 DEF Range
      <4>2. HasNewest(Stream(s), 1)'
        <5> SUFFICES ASSUME NEW d \in Range(Stream(s)), d.by = Loop, d.run = pub'[Loop].run
                     PROVE  \E e \in Range(Stream(s)) :
                              e.by = Loop /\ e.run = pub'[Loop].run /\ e.n + 1 = pub'[Loop].n
          BY <1>5 DEF HasNewest
        <5>1. pub'[Loop].run = pub[Loop].run /\ pub'[Loop].n = pub[Loop].n + 1
          BY <1>1, <1>4, <3>4
        <5>2. PICK e \in Range(Stream(s)) : e.by = Loop /\ e.run = pub[Loop].run /\ e.n + 0 = pub[Loop].n
          BY <3>2, <4>1, <5>1 DEF HasNewest
        <5>3. e.n \in Nat
          BY <1>5, Chunks
        <5> QED
          BY <5>1, <5>2, <5>3
      <4>3. ASSUME NEW d \in Range(transcript'), d.by = Loop
            PROVE  d \in Range(Stream(s)) \/ (d = InFlight(Loop)' /\ s \in Range(pub'[Loop].todo))
        <5>1. CASE d = c
          BY <2>1, <3>4, <4>1, <5>1
        <5>2. CASE d \in Range(q)
          BY <2>4, <3>2, <4>1, <4>3, <5>2
        <5> QED
          BY <2>5, <5>1, <5>2
      <4> QED
        BY <4>1, <4>2, <4>3
    <3> QED
      BY <3>3, <3>4
  <2> QED
    BY <1>7, <2>6, <2>7, <2>8, <2>9 DEF ChunkInv, TranscriptInv
<1> QED
  BY <1>8, <1>9

\* A Send: the chunk is newer than all of its goroutine's in the channel, and next
\* after the loop's newest if it is the loop's.
LEMMA Sends ==
  ASSUME BrokerInv, ChunkInv, NEW p \in Publishers, Send(p)
  PROVE  ChunkInv'
<1>1. PICK s \in Subs, r \in Publisher, b \in Channel :
           /\ pub[p].todo # <<>> /\ s = Head(pub[p].todo)
           /\ pub' = [pub EXCEPT ![p] = r]
           /\ r.run = pub[p].run /\ r.working = pub[p].working /\ r.n = pub[p].n
           /\ r.todo = Tail(pub[p].todo)
           /\ chan[s].state = "open" /\ b.state = "open"
           /\ b.buf = Append(chan[s].buf, InFlight(p))
           /\ chan' = [chan EXCEPT ![s] = b]
           /\ UNCHANGED <<run, closed, transcript, subscribers, got>>
  BY SendEffect
<1>2. /\ pub \in [Publishers -> Publisher] /\ chan \in [Subs -> Channel]
      /\ \A q \in Publishers : /\ Distinct(pub[q].todo) /\ pub[q].todo \in Seq(Subs)
                              /\ pub[q].run \in Nat /\ pub[q].n \in Nat
  BY Sequences DEF BrokerInv, BrokerTypes
<1>3. /\ Range(r.todo) = Range(pub[p].todo) \ {s} /\ s \in Range(pub[p].todo)
  <2>1. Range(Tail(pub[p].todo)) = Range(pub[p].todo) \ {Head(pub[p].todo)}
    BY <1>1, <1>2, RangeTail
  <2>2. 1 \in DOMAIN pub[p].todo /\ Head(pub[p].todo) = pub[p].todo[1]
    BY <1>1, <1>2, EmptySeq, LenProperties
  <2> QED
    BY <1>1, <2>1, <2>2 DEF Range
<1>4. /\ pub'[p] = r /\ \A q \in Publishers \ {p} : pub'[q] = pub[q]
      /\ chan'[s] = b /\ \A u \in Subs \ {s} : chan'[u] = chan[u]
  BY <1>1, <1>2
<1>5. \A q \in Publishers : pub'[q].run = pub[q].run /\ pub'[q].n = pub[q].n
  BY <1>1, <1>4
<1>6. ASSUME NEW q \in Publishers, NEW u, u # s
      PROVE  u \in Range(pub'[q].todo) <=> u \in Range(pub[q].todo)
  BY <1>3, <1>4, <1>6
<1>15. PICK c \in Chunk : c = InFlight(p)
  BY Sequences
<1>7. c \in Chunk /\ c.run = pub[p].run /\ c.by = p /\ c.n = pub[p].n /\ InFlight(Loop)' = InFlight(Loop)
  BY <1>5, <1>15, LoopIsPublisher DEF InFlight
<1>8. b.buf = Append(chan[s].buf, c)
  BY <1>1, <1>15
<1>14. p = Loop => InFlight(Loop) = c
  BY <1>15
<1>9. ASSUME NEW q \in Seq(Chunk), NoneNewer(q) PROVE NoneNewer(q)'
  BY <1>5, <1>9, Chunks DEF NoneNewer
<1>10. TranscriptInv'
  BY <1>1, <1>5, <1>9, Sequences, LoopIsPublisher DEF ChunkInv, TranscriptInv, HasNewest
<1>11. ASSUME NEW u \in Subs, u # s PROVE StreamInv(u)' /\ OpenInv(u)'
  <2>1. Stream(u)' = Stream(u) /\ chan'[u] = chan[u] /\ Stream(u) \in Seq(Chunk)
    BY <1>1, <1>4, <1>11, Sequences, StreamIdle
  <2>2. \A q \in Publishers : u \in Range(pub'[q].todo) => AllOlder(Stream(u), q)'
    BY <1>5, <1>6, <1>11, <2>1 DEF ChunkInv, StreamInv, AllOlder
  <2>3. StreamInv(u)'
    BY <1>9, <2>1, <2>2 DEF ChunkInv, StreamInv
  <2>4. u \in Range(pub'[Loop].todo) <=> u \in Range(pub[Loop].todo)
    BY <1>6, <1>11, LoopIsPublisher
  <2>5. pub'[Loop].run = pub[Loop].run /\ pub'[Loop].n = pub[Loop].n /\ transcript' = transcript
    BY <1>1, <1>5, LoopIsPublisher
  <2>6. OpenInv(u)'
    BY <1>7, <2>1, <2>4, <2>5 DEF ChunkInv, OpenInv, HasNewest
  <2> QED
    BY <2>3, <2>6
<1>12. StreamInv(s)' /\ OpenInv(s)'
  <2>12. PICK q \in Seq(Chunk) : q = Stream(s)
    BY Sequences
  <2>1. q \in Seq(Chunk) /\ Ordered(q) /\ NoneNewer(q) /\ AllOlder(q, p)
    BY <1>3, <2>12 DEF ChunkInv, StreamInv
  <2>2. Stream(s)' = Append(q, c)
    <3>1. got'[s] = got[s] /\ chan'[s].buf = Append(chan[s].buf, c)
      BY <1>1, <1>4, <1>8
    <3>2. got[s] \in Seq(Chunk) /\ chan[s].buf \in Seq(Chunk)
      BY Sequences
    <3>3. \A u, v \in Seq(Chunk) : u \o Append(v, c) = Append(u \o v, c)
      <4> TAKE u, v \in Seq(Chunk)
      <4> QED
        BY AppendToBoth
    <3>4. Stream(s)' = got'[s] \o chan'[s].buf /\ q = got[s] \o chan[s].buf
      BY <2>12 DEF Stream
    <3> QED
      BY <3>1, <3>2, <3>3, <3>4, Zenon
  <2>3. /\ HasNewest(q, IF s \in Range(pub[Loop].todo) THEN 1 ELSE 0)
        /\ \A d \in Range(transcript) : d.by = Loop =>
             d \in Range(q) \/ (d = InFlight(Loop) /\ s \in Range(pub[Loop].todo))
    BY <1>1, <2>12 DEF ChunkInv, OpenInv
  <2>4. \A x \in Publishers : s \in Range(pub[x].todo) => AllOlder(q, x)
    BY <2>12 DEF ChunkInv, StreamInv
  <2>5. Range(Append(q, c)) = Range(q) \cup {c} /\ Append(q, c) \in Seq(Chunk)
    BY <1>7, <2>1, RangeAppend, AppendProperties
  <2>6. \A i \in DOMAIN q : q[i] \in Range(q)
    BY DEF Range
  <2>7. Ordered(Append(q, c))
    <3>1. \A i \in DOMAIN q : OfSame(q[i], c) => q[i].n < c.n
      BY <1>7, <2>1, <2>6 DEF OfSame, AllOlder
    <3>2. ASSUME c.by = Loop, NEW i \in DOMAIN q, OfSame(q[i], c)
          PROVE  \E k \in DOMAIN q : OfSame(q[k], c) /\ q[k].n + 1 = c.n
      <4>1. p = Loop /\ q[i].by = Loop /\ q[i].run = pub[Loop].run
        BY <1>7, <3>2 DEF OfSame
      <4>2. HasNewest(q, 1)
        BY <1>3, <2>3, <4>1
      <4>3. PICK e \in Range(q) : e.by = Loop /\ e.run = pub[Loop].run /\ e.n + 1 = pub[Loop].n
        BY <2>6, <4>1, <4>2 DEF HasNewest
      <4>4. PICK k \in DOMAIN q : q[k] = e
        BY DEF Range
      <4> QED
        BY <1>7, <4>1, <4>3, <4>4 DEF OfSame
    <3> QED
      BY <1>7, <2>1, <3>1, <3>2, OrderedAppend
  <2>8. NoneNewer(Append(q, c))
    <3>1. c.run <= pub[c.by].run /\ c.n <= pub[c.by].n
      BY <1>2, <1>7
    <3> QED
      BY <2>1, <2>5, <3>1 DEF NoneNewer
  <2>9. ASSUME NEW x \in Publishers, s \in Range(pub'[x].todo) PROVE AllOlder(Stream(s), x)'
    <3>1. x # p /\ s \in Range(pub[x].todo)
      BY <1>3, <1>4, <2>9
    <3>2. AllOlder(q, x)
      BY <2>4, <3>1
    <3>3. AllOlder(Append(q, c), x)
      BY <1>7, <2>5, <3>1, <3>2 DEF AllOlder
    <3> QED
      BY <1>5, <2>2, <3>3 DEF AllOlder
  <2>10. StreamInv(s)'
    <3>1. NoneNewer(Append(q, c))'
      BY <1>9, <2>5, <2>8
    <3>2. NoneNewer(Stream(s))'
      BY <2>2, <3>1 DEF NoneNewer
    <3>3. Ordered(Stream(s)')
      BY <2>2, <2>7
    <3> QED
      BY <2>9, <3>2, <3>3 DEF StreamInv
  <2>11. OpenInv(s)'
    <3>1. pub'[Loop].run = pub[Loop].run /\ pub'[Loop].n = pub[Loop].n /\ transcript' = transcript
      BY <1>1, <1>5, LoopIsPublisher
    <3>2. CASE p = Loop
      <4>1. s \notin Range(pub'[Loop].todo)
        BY <1>3, <1>4, <3>2
      <4>2. HasNewest(Stream(s), 0)'
        <5>1. c \in Range(Stream(s)') /\ c.by = Loop /\ c.run = pub'[Loop].run /\ c.n + 0 = pub'[Loop].n
          BY <1>2, <1>7, <2>2, <2>5, <3>1, <3>2
        <5> QED
          BY <5>1 DEF HasNewest
      <4>3. \A d \in Range(transcript') : d.by = Loop => d \in Range(Stream(s)')
        BY <1>14, <2>2, <2>3, <2>5, <3>1, <3>2
      <4> QED
        BY <4>1, <4>2, <4>3 DEF OpenInv
    <3>3. CASE p # Loop
      <4>1. pub'[Loop].todo = pub[Loop].todo
        BY <1>4, <3>3, LoopIsPublisher
      <4>2. HasNewest(Stream(s), IF s \in Range(pub[Loop].todo) THEN 1 ELSE 0)'
        <5>1. \A d \in Range(Stream(s)') : d.by = Loop => d \in Range(q)
          BY <1>7, <2>2, <2>5, <3>3
        <5>2. Range(q) \subseteq Range(Stream(s)')
          BY <2>2, <2>5
        <5> QED
          BY <2>3, <3>1, <4>1, <5>1, <5>2 DEF HasNewest
      <4>3. \A d \in Range(transcript') : d.by = Loop =>
              d \in Range(Stream(s)') \/ (d = InFlight(Loop)' /\ s \in Range(pub'[Loop].todo))
        BY <1>7, <2>2, <2>3, <2>5, <3>1, <4>1
      <4> QED
        BY <4>2, <4>3 DEF OpenInv
    <3> QED
      BY <3>2, <3>3
  <2> QED
    BY <2>10, <2>11
<1>13. \A u \in Subs : StreamInv(u)' /\ OpenInv(u)'
  BY <1>11, <1>12
<1> QED
  BY <1>10, <1>13 DEF ChunkInv

LEMMA DeliveryInit == Init => DeliveryInv
<1> SUFFICES ASSUME Init PROVE DeliveryInv
  OBVIOUS
<1>1. /\ run = 0 /\ closed = FALSE /\ transcript = <<>> /\ subscribers = <<>>
      /\ chan = [s \in Subs |-> [state |-> "none", buf |-> <<>>, cap |-> 0]]
      /\ got = [s \in Subs |-> <<>>]
      /\ pub = [p \in Publishers |-> [run |-> 0, working |-> FALSE, n |-> 0, todo |-> <<>>]]
  BY DEF Init
<1>2. <<>> \in Seq(Chunk) /\ <<>> \in Seq(Subs) /\ Range(<<>>) = {} /\ Distinct(<<>>)
  BY DEF Range, Distinct
<1>3. [state |-> "none", buf |-> <<>>, cap |-> 0] \in Channel
  BY <1>2 DEF Channel, States
<1>4. [run |-> 0, working |-> FALSE, n |-> 0, todo |-> <<>>] \in Publisher
  BY <1>2 DEF Publisher
<1>5. /\ chan \in [Subs -> Channel] /\ got \in [Subs -> Seq(Chunk)] /\ pub \in [Publishers -> Publisher]
      /\ \A s \in Subs : chan[s].state = "none" /\ chan[s].buf = <<>> /\ got[s] = <<>>
      /\ \A p \in Publishers : pub[p].run = 0 /\ pub[p].todo = <<>> /\ pub[p].working = FALSE
  BY <1>1, <1>2, <1>3, <1>4
<1>6. closed \in BOOLEAN
  BY <1>1, Zenon
<1>7. BrokerTypes
  BY <1>1, <1>2, <1>5, <1>6 DEF BrokerTypes
<1>8. BrokerInv
  BY <1>1, <1>2, <1>5, <1>7, LoopIsPublisher DEF BrokerInv, Enrolled
<1>9. \A s \in Subs : Stream(s) = <<>>
  BY <1>2, <1>5, ConcatEmptySeq DEF Stream
<1>10. Ordered(<<>>) /\ NoneNewer(<<>>) /\ HasNewest(<<>>, 0)
  BY <1>2 DEF Ordered, NoneNewer, HasNewest
<1>11. TranscriptInv
  BY <1>1, <1>10 DEF TranscriptInv
<1>12. \A s \in Subs : StreamInv(s) /\ OpenInv(s)
  BY <1>2, <1>5, <1>9, <1>10 DEF StreamInv, OpenInv
<1> QED
  BY <1>8, <1>11, <1>12 DEF DeliveryInv, ChunkInv

LEMMA DeliveryStep == DeliveryInv /\ [Next]_vars => DeliveryInv'
<1> SUFFICES ASSUME BrokerInv, ChunkInv, [Next]_vars PROVE ChunkInv'
  BY BrokerStep DEF DeliveryInv
<1>1. CASE \/ \E t \in Turns : Enqueue(t)
           \/ Stop \/ DrainMessages \/ Close
           \/ \E s \in Subs : Unsubscribe(s) \/ Receive(s)
           \/ \E p \in Tools : ToolReturns(p)
           \/ \E p \in Publishers : SendOnClosed(p) \/ PublishCancelled(p)
           \/ UNCHANGED vars
  BY <1>1, QuietSteps, QuietKeeps
<1>2. CASE \/ \E t \in Turns : StartRun(t)
           \/ \E s \in Subs : Subscribe(s)
           \/ \E p \in Tools : StartTool(p)
           \/ \E p \in Publishers : Publish(p) \/ Send(p)
  BY <1>2, RunStarts, Replays, ToolStarts, Publishes, Sends
<1> QED
  BY <1>1, <1>2 DEF Next, Clients, Publishing

LEMMA DeliveryInvariance == Spec => []DeliveryInv
BY DeliveryInit, DeliveryStep, PTL DEF Spec

\* However subscriptions, publishers and runs interleave, a subscription holds
\* the chunks of a goroutine's run in the order they were published, and those
\* of the loop without a gap.
THEOREM StreamsInOrder == Spec => []PublisherOrder
<1>1. DeliveryInv => PublisherOrder
  BY DEF DeliveryInv, ChunkInv, StreamInv, Ordered, OfSame, PublisherOrder
<1> QED
  BY <1>1, DeliveryInvariance, PTL

\* An open subscription never has a chunk twice, and has every retained chunk of
\* the loop or is about to, whenever it was made.
THEOREM NoChunkLostOrDoubled == Spec => []DeliveredOnce
<1>1. ASSUME DeliveryInv PROVE DeliveredOnce
  <2> USE <1>1 DEF DeliveryInv
  <2> SUFFICES ASSUME NEW s \in Subs, NEW c \in Range(transcript), chan[s].state = "open"
               PROVE  /\ Copies(s, c) + (IF OnItsWay(s, c) THEN 1 ELSE 0) <= 1
                      /\ c.by = Loop => Copies(s, c) = 1 \/ OnItsWay(s, c)
    BY DEF DeliveredOnce, Range
  <2> DEFINE q == Stream(s)
  <2> DEFINE at == {i \in DOMAIN q : q[i] = c}
  <2>1. q \in Seq(Chunk) /\ Ordered(q)
    BY Sequences DEF ChunkInv, StreamInv
  <2>2. c \in Chunk /\ c.n \in Nat
    BY Sequences, Chunks
  <2>3. Copies(s, c) = Cardinality(at)
    BY DEF Copies
  <2>4. OnItsWay(s, c) <=> \E p \in Publishers : InFlight(p) = c /\ s \in Range(pub[p].todo)
    BY DEF OnItsWay, Range
  <2>5. \A p \in Publishers : s \in Range(pub[p].todo) => AllOlder(q, p)
    BY DEF ChunkInv, StreamInv
  <2>6. c.by = Loop => c \in Range(q) \/ (c = InFlight(Loop) /\ s \in Range(pub[Loop].todo))
    BY DEF ChunkInv, OpenInv
  <2> HIDE DEF q
  <2>7. ASSUME NEW i \in DOMAIN q, NEW j \in DOMAIN q, q[i] = c, q[j] = c PROVE i = j
    <3>1. i \in Int /\ j \in Int
      BY <2>1, LenProperties
    <3>2. ~(i < j) /\ ~(j < i)
      BY <2>1, <2>2, <2>7 DEF Ordered, OfSame
    <3> QED
      BY <3>1, <3>2
  <2>8. c \in Range(q) <=> at # {}
    BY DEF Range
  <2>9. at # {} => Cardinality(at) = 1
    <3> SUFFICES ASSUME NEW i \in at PROVE Cardinality(at) = 1
      OBVIOUS
    <3>1. at = {i}
      BY <2>7
    <3> QED
      BY <3>1, FS_Singleton
  <2>10. at = {} => Cardinality(at) = 0
    BY FS_EmptySet
  <2>11. OnItsWay(s, c) => c \notin Range(q)
    <3> SUFFICES ASSUME NEW p \in Publishers, InFlight(p) = c, s \in Range(pub[p].todo), c \in Range(q)
                 PROVE  FALSE
      BY <2>4
    <3>1. c.by = p /\ c.run = pub[p].run /\ c.n = pub[p].n
      BY DEF InFlight
    <3>2. c.n < pub[p].n
      BY <2>5, <3>1 DEF AllOlder
    <3> QED
      BY <2>2, <3>1, <3>2
  <2> HIDE DEF at
  <2>12. c.by = Loop => at # {} \/ OnItsWay(s, c)
    BY <2>4, <2>6, <2>8, LoopIsPublisher
  <2> QED
    BY <2>3, <2>8, <2>9, <2>10, <2>11, <2>12
<1> QED
  BY <1>1, DeliveryInvariance, PTL

=============================================================================
