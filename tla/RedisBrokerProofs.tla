--------------------------- MODULE RedisBrokerProofs ---------------------------
(***************************************************************************)
(* What holds of RedisBroker for every number of turns, readers and        *)
(* chunks.  As long as no claim lapses while its run is in flight          *)
(* (~Expires), runs exclude each other and the queue implements RunClaim;  *)
(* whether claims lapse or not, no run inherits the stop of another.       *)
(***************************************************************************)
EXTENDS RedisBroker, DataLemmas

Untouched == UNCHANGED <<live, queue, turn>>

\* The commands of Stop, of the readers and of Publish leave the claim, the
\* queue and the turns alone.
LEMMA OthersUntouched ==
  ASSUME \/ \E t \in Turns : Publish(t)
         \/ Stop
         \/ \E s \in Subs : Subscribe(s) \/ Read(s) \/ ReadFails(s) \/ Leave(s)
  PROVE  Untouched
<1> USE DEF Untouched, keys
<1>1. ASSUME NEW t \in Turns, Publish(t) PROVE Untouched
  BY <1>1 DEF Publish
<1>2. ASSUME Stop PROVE Untouched
  BY <1>2 DEF Stop
<1>3. ASSUME NEW s \in Subs, Subscribe(s) \/ ReadFails(s) \/ Leave(s) PROVE Untouched
  BY <1>3 DEF Subscribe, ReadFails, Leave
<1>4. ASSUME NEW s \in Subs, Read(s) PROVE Untouched
  BY <1>4 DEF Read
<1> QED
  BY <1>1, <1>2, <1>3, <1>4

-----------------------------------------------------------------------------
(* Runs exclude each other.                                                *)

\* The turns form a function on Turns, and the claim is held in flight.
Inv == DOMAIN turn = Turns /\ ClaimInv

\* No run is in flight at the start.
LEMMA InvInit == Init => Inv
BY DEF Init, Inv, ClaimInv, OneRunAtATime, InFlight

\* Only SETNX brings a run in flight, and it finds none; only the last command
\* of Close frees the key.
LEMMA InvStep == ~Expires /\ Inv /\ [Next]_vars => Inv'
<1> SUFFICES ASSUME ~Expires, Inv, [Next]_vars PROVE Inv'
  OBVIOUS
<1> USE DEF Inv, ClaimInv, OneRunAtATime, InFlight
<1>1. ASSUME NEW t \in Turns, Claim(t) PROVE Inv'
  BY <1>1 DEF Claim
<1>2. ASSUME NEW t \in Turns, Reset(t) PROVE Inv'
  BY <1>2 DEF Reset, Settle
<1>3. ASSUME NEW t \in Turns, Decline(t) PROVE Inv'
  BY <1>3 DEF Decline, keys
<1>4. ASSUME NEW t \in Turns, Join(t) \/ EnqueueMessage(t) PROVE Inv'
  BY <1>4 DEF Join, EnqueueMessage
<1>5. ASSUME NEW t \in Turns, DrainMessages(t) PROVE Inv'
  BY <1>5 DEF DrainMessages, Settle
<1>6. ASSUME NEW t \in Turns, WriteEnd(t) PROVE Inv'
  BY <1>6 DEF WriteEnd
<1>7. ASSUME NEW t \in Turns, Release(t) PROVE Inv'
  BY <1>7 DEF Release
<1>8. ASSUME NEW t \in Turns, Abandon(t) PROVE Inv'
  BY <1>8 DEF Abandon, keys
<1>9. CASE Expire
  BY <1>9 DEF Expire
<1>10. CASE Untouched
  BY <1>10 DEF Untouched
<1>11. CASE UNCHANGED vars
  BY <1>10, <1>11 DEF vars, Untouched
<1> QED
  BY <1>1, <1>2, <1>3, <1>4, <1>5, <1>6, <1>7, <1>8, <1>9, <1>10, <1>11, OthersUntouched
     DEF Next, Handler, Closing

\* While claims do not lapse, the two commands of EnqueueOrStart and the two of
\* Close never let two runs be in flight on one stream.
THEOREM RunsExclude == ASSUME ~Expires PROVE Spec => []OneRunAtATime
<1>1. Inv => OneRunAtATime
  BY DEF Inv, ClaimInv
<1> QED
  BY InvInit, InvStep, <1>1, PTL DEF Spec

-----------------------------------------------------------------------------
(* The queue implements RunClaim.                                          *)

\* The list holds the turns that joined and were neither read nor dropped.
QueueInv ==
  /\ DOMAIN turn = Turns
  /\ queue = {t \in Turns : turn[t] = "joined"}

\* A turn leaves the list only when it is read or dropped with all the others.
LEMMA QueueStep == QueueInv /\ [Next]_vars => QueueInv'
<1> SUFFICES ASSUME QueueInv, [Next]_vars PROVE QueueInv'
  OBVIOUS
<1> USE DEF QueueInv
<1>1. ASSUME NEW t \in Turns, Claim(t) PROVE QueueInv'
  BY <1>1 DEF Claim
<1>2. ASSUME NEW t \in Turns, Reset(t) PROVE QueueInv'
  BY <1>2 DEF Reset, Settle
<1>3. ASSUME NEW t \in Turns, Decline(t) PROVE QueueInv'
  BY <1>3 DEF Decline, keys
<1>4. ASSUME NEW t \in Turns, Join(t) \/ EnqueueMessage(t) PROVE QueueInv'
  BY <1>4 DEF Join, EnqueueMessage
<1>5. ASSUME NEW t \in Turns, DrainMessages(t) PROVE QueueInv'
  BY <1>5 DEF DrainMessages, Settle
<1>6. ASSUME NEW t \in Turns, WriteEnd(t) PROVE QueueInv'
  BY <1>6 DEF WriteEnd
<1>7. ASSUME NEW t \in Turns, Release(t) PROVE QueueInv'
  BY <1>7 DEF Release
<1>8. ASSUME NEW t \in Turns, Abandon(t) PROVE QueueInv'
  BY <1>8 DEF Abandon, keys
<1>9. CASE Expire
  BY <1>9 DEF Expire
<1>10. CASE Untouched
  BY <1>10 DEF Untouched
<1>11. CASE UNCHANGED vars
  BY <1>10, <1>11 DEF vars, Untouched
<1> QED
  BY <1>1, <1>2, <1>3, <1>4, <1>5, <1>6, <1>7, <1>8, <1>9, <1>10, <1>11, OthersUntouched
     DEF Next, Handler, Closing

\* A run is in flight in the sense of RunClaim.
Started == \E t \in Turns : turn[t] \in {"running", "closing"}

\* Steps that leave the turns and the list alone are invisible to RunClaim.
LEMMA UntouchedStutters == Untouched => UNCHANGED RunClaimed!claimVars
BY DEF Untouched, RunClaimed!claimVars, Fate

\* Every command is a step of RunClaim or invisible to it: a run starts with
\* the DEL, not with the SETNX, and ends with the DEL of liveKey.
LEMMA RunClaimStep ==
  Inv /\ QueueInv /\ [Next]_vars => [RunClaimed!Next]_(RunClaimed!claimVars)
<1> SUFFICES ASSUME Inv, QueueInv, [Next]_vars
             PROVE  RunClaimed!Next \/ UNCHANGED RunClaimed!claimVars
  OBVIOUS
<1> USE DEF QueueInv
<1>1. ASSUME NEW t \in Turns, Claim(t) PROVE UNCHANGED RunClaimed!claimVars
  BY <1>1 DEF Claim, RunClaimed!claimVars, Fate
<1>2. ASSUME NEW t \in Turns, Reset(t) PROVE RunClaimed!Next
  <2>1. ~Started
    BY <1>2 DEF Reset, Started, Inv, ClaimInv, OneRunAtATime, InFlight
  <2>2. Started' /\ queue' = {} /\ Fate(t) = "new"
    BY <1>2 DEF Reset, Started, Settle, Fate
  <2>3. [u \in Turns |-> Fate(u)]'
          = [RunClaimed!Settle(queue, "dropped") EXCEPT ![t] = "started"]
    BY <1>2 DEF Reset, Settle, Fate, RunClaimed!Settle
  <2>4. RunClaimed!Start(t)
    BY <2>1, <2>2, <2>3 DEF RunClaimed!Start, Started
  <2> QED
    BY <2>4 DEF RunClaimed!Next
<1>3. ASSUME NEW t \in Turns, Decline(t) PROVE UNCHANGED RunClaimed!claimVars
  BY <1>3 DEF Decline, keys, RunClaimed!claimVars, Fate
<1>4. ASSUME NEW t \in Turns, Join(t) \/ EnqueueMessage(t) PROVE RunClaimed!Next
  <2>1. RunClaimed!Enqueue(t)
    BY <1>4 DEF Join, EnqueueMessage, RunClaimed!Enqueue, Fate
  <2> QED
    BY <2>1 DEF RunClaimed!Next
<1>5. ASSUME NEW t \in Turns, DrainMessages(t) PROVE RunClaimed!Next
  <2>1. Started /\ Started' /\ queue' = {}
    BY <1>5 DEF DrainMessages, Started, Settle
  <2>2. [u \in Turns |-> Fate(u)]' = RunClaimed!Settle(queue, "read")
    BY <1>5 DEF DrainMessages, Settle, Fate, RunClaimed!Settle
  <2>3. RunClaimed!Drain
    BY <2>1, <2>2 DEF RunClaimed!Drain, Started
  <2> QED
    BY <2>3 DEF RunClaimed!Next
<1>6. ASSUME NEW t \in Turns, WriteEnd(t) PROVE UNCHANGED RunClaimed!claimVars
  BY <1>6 DEF WriteEnd, RunClaimed!claimVars, Fate
<1>7. ASSUME NEW t \in Turns, Release(t) \/ (Abandon(t) /\ turn[t] # "claimed")
      PROVE  RunClaimed!Next
  <2>1. Started /\ ~Started'
    BY <1>7 DEF Release, Abandon, Started, Inv, ClaimInv, OneRunAtATime, InFlight
  <2>2. UNCHANGED <<queue, [u \in Turns |-> Fate(u)]>>
    BY <1>7 DEF Release, Abandon, keys, Fate
  <2>3. RunClaimed!Release
    BY <2>1, <2>2 DEF RunClaimed!Release, Started
  <2> QED
    BY <2>3 DEF RunClaimed!Next
<1>9. ASSUME NEW t \in Turns, Abandon(t), turn[t] = "claimed"
      PROVE  UNCHANGED RunClaimed!claimVars
  BY <1>9 DEF Abandon, keys, RunClaimed!claimVars, Fate
<1>8. ASSUME Expire \/ Untouched \/ UNCHANGED vars PROVE UNCHANGED RunClaimed!claimVars
  BY <1>8 DEF Expire, Untouched, vars, RunClaimed!claimVars, Fate
<1> QED
  BY <1>1, <1>2, <1>3, <1>4, <1>5, <1>6, <1>7, <1>8, <1>9, OthersUntouched
     DEF Next, Handler, Closing

\* While claims do not lapse, counting a run from the reset of its stream, the
\* Redis broker implements the run claim.
THEOREM ImplementsRunClaim == ASSUME ~Expires PROVE Spec => RunClaimSpec
<1>1. Init => QueueInv /\ RunClaimed!Init
  BY DEF Init, QueueInv, RunClaimed!Init, Fate
<1> QED
  BY InvInit, InvStep, QueueStep, RunClaimStep, <1>1, PTL DEF Spec, RunClaimSpec, RunClaimed!Spec

-----------------------------------------------------------------------------
(* The stop flag.                                                          *)

\* A stop that is still set was asked for with all that run now in flight.
StopInv == DOMAIN turn = Turns /\ StopIsForThisRun

\* A run starts with the flag down, and whoever raises it records who runs.
LEMMA StopStep == StopInv /\ [Next]_vars => StopInv'
<1> SUFFICES ASSUME StopInv, [Next]_vars PROVE StopInv'
  OBVIOUS
<1> USE DEF StopInv, StopIsForThisRun
<1>1. ASSUME NEW t \in Turns, Handler(t) PROVE StopInv'
  <2>1. ASSUME Claim(t) PROVE StopInv'
    BY <2>1 DEF Claim
  <2>2. ASSUME Reset(t) PROVE StopInv'
    BY <2>2 DEF Reset, Settle
  <2>3. ASSUME Decline(t) PROVE StopInv'
    BY <2>3 DEF Decline, keys
  <2>4. ASSUME Join(t) PROVE StopInv'
    BY <2>4 DEF Join
  <2> QED
    BY <1>1, <2>1, <2>2, <2>3, <2>4 DEF Handler
<1>2. ASSUME NEW t \in Turns, EnqueueMessage(t) PROVE StopInv'
  BY <1>2 DEF EnqueueMessage
<1>3. ASSUME NEW t \in Turns, Publish(t) PROVE StopInv'
  BY <1>3 DEF Publish
<1>4. ASSUME NEW t \in Turns, DrainMessages(t) PROVE StopInv'
  BY <1>4 DEF DrainMessages, Settle
<1>5. ASSUME NEW t \in Turns, Closing(t) PROVE StopInv'
  <2>1. ASSUME WriteEnd(t) PROVE StopInv'
    BY <2>1 DEF WriteEnd
  <2>2. ASSUME Release(t) PROVE StopInv'
    BY <2>2 DEF Release
  <2> QED
    BY <1>5, <2>1, <2>2 DEF Closing
<1>6. ASSUME NEW t \in Turns, Abandon(t) PROVE StopInv'
  BY <1>6 DEF Abandon, keys
<1>7. ASSUME Stop PROVE StopInv'
  BY <1>7 DEF Stop, InFlight
<1>8. ASSUME Expire PROVE StopInv'
  BY <1>8 DEF Expire
<1>9. ASSUME NEW s \in Subs, Subscribe(s) \/ Read(s) \/ ReadFails(s) \/ Leave(s)
      PROVE  StopInv'
  <2>1. ASSUME Read(s) PROVE StopInv'
    BY <2>1 DEF Read, keys
  <2>2. ASSUME Subscribe(s) \/ ReadFails(s) \/ Leave(s) PROVE StopInv'
    BY <2>2 DEF Subscribe, ReadFails, Leave, keys
  <2> QED
    BY <1>9, <2>1, <2>2
<1>10. ASSUME UNCHANGED vars PROVE StopInv'
  BY <1>10 DEF vars
<1> QED
  BY <1>1, <1>2, <1>3, <1>4, <1>5, <1>6, <1>7, <1>8, <1>9, <1>10 DEF Next

\* Every run in flight that finds the stop flag set was in flight when it was
\* raised, even where claims lapse: the winner's DEL takes an older stop along.
THEOREM StopStaysWithItsRun == Spec => []StopIsForThisRun
<1>1. Init => StopInv
  BY DEF Init, StopInv, StopIsForThisRun
<1>2. StopInv => StopIsForThisRun
  BY DEF StopInv
<1> QED
  BY StopStep, <1>1, <1>2, PTL DEF Spec
-----------------------------------------------------------------------------
(* The readers.                                                            *)

Phases == {"none", "replay", "tail", "ended", "failed", "left"}
Entry == [id : Nat, run : Turns, end : BOOLEAN]

\* Ids only grow, along the stream and along what a reader has been given, and
\* no reader is ahead of the newest.
OrderInv ==
  /\ lastId \in Nat
  /\ stream \in Seq(Entry)
  /\ \A i, j \in DOMAIN stream : i < j => stream[i].id < stream[j].id
  /\ \A i \in DOMAIN stream : stream[i].id <= lastId
  /\ reader \in [Subs -> [pc : Phases, last : 0..lastId]]
  /\ got \in [Subs -> Seq(Entry)]
  /\ \A s \in Subs : \A i \in DOMAIN got[s] : got[s][i].id <= reader[s].last

\* What ReaderInOrder says of one reader, with the entries by their places.
Orderly(s) ==
  /\ \A i, j \in DOMAIN got[s] : i < j => got[s][i].id < got[s][j].id
  /\ \A k \in DOMAIN stream :
       ~stream[k].end /\ stream[k].id <= reader[s].last =>
         \E i \in DOMAIN got[s] : got[s][i] = stream[k]

ReadInv == OrderInv /\ \A s \in Subs : Orderly(s)

\* The places say what the sets say.
LEMMA OrderlyReaders == ReadInv => ReaderInOrder
BY DEF ReadInv, OrderInv, Orderly, ReaderInOrder, ToSet

\* What OrderInv says, with places counted from 1.
LEMMA Places ==
  OrderInv =>
    /\ lastId \in Nat
    /\ stream \in Seq(Entry) /\ DOMAIN stream = 1..Len(stream) /\ Len(stream) \in Nat
    /\ \A k \in 1..Len(stream) : stream[k].id \in Nat /\ stream[k].id <= lastId
    /\ \A i, j \in 1..Len(stream) : i < j => stream[i].id < stream[j].id
    /\ \A s \in Subs :
         /\ reader[s].last \in Nat /\ reader[s].last <= lastId
         /\ got[s] \in Seq(Entry) /\ DOMAIN got[s] = 1..Len(got[s]) /\ Len(got[s]) \in Nat
         /\ \A i \in 1..Len(got[s]) : got[s][i].id \in Nat /\ got[s][i].id <= reader[s].last
<1> SUFFICES ASSUME OrderInv PROVE Places!2
  OBVIOUS
<1>1. \A s \in Subs : reader[s] \in [pc : Phases, last : 0..lastId] /\ got[s] \in Seq(Entry)
  BY DEF OrderInv
<1>2. \A e \in Entry : e.id \in Nat
  BY DEF Entry
<1>3. \A s \in Subs : reader[s].last \in 0..lastId
  BY <1>1
<1> QED
  BY <1>1, <1>2, <1>3 DEF OrderInv

\* A page is the stretch of the stream that begins behind the reader's last id.
LEMMA PageIsStretch ==
  ASSUME OrderInv, NEW s \in Subs, Page(s) # <<>>
  PROVE  \E f \in 1..Len(stream), n \in Nat \ {0} :
           /\ f + n - 1 <= Len(stream)
           /\ Page(s) = SubSeq(stream, f, f + n - 1)
           /\ Page(s) \in Seq(Entry) /\ Len(Page(s)) = n
           /\ \A k \in 1..n : Page(s)[k] = stream[f + k - 1]
           /\ stream[f].id > reader[s].last
           /\ \A k \in 1..(f - 1) : stream[k].id <= reader[s].last
<1> DEFINE ahead == {i \in DOMAIN stream : stream[i].id > reader[s].last}
<1> DEFINE f == Min(ahead)
<1> DEFINE n == IF f + readCount > Len(stream) THEN Len(stream) - f + 1 ELSE readCount
<1>1. ahead # {} /\ Page(s) = From(f)
  BY DEF Page
<1>2. ahead \in SUBSET Nat
  BY DEF OrderInv
<1>3. f \in ahead /\ \A y \in ahead : f <= y
  BY <1>1, <1>2, MinIsLeast
<1> HIDE DEF f
<1>4. f \in 1..Len(stream) /\ stream[f].id > reader[s].last
  BY <1>3 DEF OrderInv
<1>5. n \in Nat \ {0} /\ f + n - 1 <= Len(stream)
  BY <1>4, BoundAssumption DEF OrderInv
<1>6. Page(s) = SubSeq(stream, f, f + n - 1)
  BY <1>1, <1>4, BoundAssumption DEF From, OrderInv
<1>7. \A k \in 1..(f - 1) : stream[k].id <= reader[s].last
  <2> SUFFICES ASSUME NEW k \in 1..(f - 1), stream[k].id > reader[s].last PROVE FALSE
    BY <1>4, Places
  <2>1. k \in ahead
    BY <1>4, Places
  <2> QED
    BY <1>3, <1>4, <2>1, Places
<1> HIDE DEF n
<1>8. Page(s) \in Seq(Entry) /\ Len(Page(s)) = n /\ \A k \in 1..n : Page(s)[k] = stream[f + k - 1]
  BY <1>4, <1>5, <1>6 DEF OrderInv
<1> QED
  BY <1>4, <1>5, <1>6, <1>7, <1>8
\* What a Read does: it gives nothing and moves nothing, or it gives a stretch of
\* the stream behind the reader's last id, less a sentinel at its end.
LEMMA ReadEffect ==
  ASSUME OrderInv, NEW s \in Subs, Read(s)
  PROVE  /\ UNCHANGED <<stream, lastId>>
         /\ reader' \in [Subs -> [pc : Phases, last : Nat]]
         /\ got' \in [Subs -> Seq(Entry)]
         /\ \A u \in Subs \ {s} : reader'[u].last = reader[u].last /\ got'[u] = got[u]
         /\ \/ reader'[s].last = reader[s].last /\ got'[s] = got[s]
            \/ \E f, l \in 1..Len(stream), kept \in Nat :
                 /\ f <= l /\ (kept = l - f \/ kept = l - f + 1)
                 /\ ~stream[l].end => kept = l - f + 1
                 /\ \A k \in 1..(f - 1) : stream[k].id <= reader[s].last
                 /\ stream[f].id > reader[s].last
                 /\ reader'[s].last = stream[l].id
                 /\ got'[s] = got[s] \o SubSeq(stream, f, f + kept - 1)
<1> DEFINE page == Page(s)
<1> DEFINE ends == {i \in DOMAIN page : page[i].end}
<1> DEFINE seen == IF ends = {} THEN Len(page) ELSE Min(ends)
<1> DEFINE kept == IF ends = {} THEN seen ELSE seen - 1
<1> DEFINE given == SubSeq(page, 1, kept)
<1> DEFINE last == IF page = <<>> THEN reader[s].last ELSE page[seen].id
<1>1. UNCHANGED <<stream, lastId>>
  BY DEF Read, keys
<1>2. got' = [got EXCEPT ![s] = @ \o given]
  BY DEF Read
<1>3. PICK p \in Phases : reader' = [reader EXCEPT ![s] = [pc |-> p, last |-> last]]
  <2>1. reader[s].pc \in Phases
    BY DEF OrderInv
  <2> DEFINE q == IF ends # {} THEN "ended" ELSE IF page = <<>> THEN "tail" ELSE reader[s].pc
  <2>2. reader' = [reader EXCEPT ![s] = [pc |-> q, last |-> last]]
    BY DEF Read
  <2>3. q \in Phases
    <3> HIDE DEF page, ends
    <3>1. q \in {"ended", "tail", reader[s].pc}
      OBVIOUS
    <3>2. "ended" \in Phases /\ "tail" \in Phases
      BY DEF Phases
    <3> HIDE DEF q
    <3> QED
      BY <2>1, <3>1, <3>2
  <2> HIDE DEF q, last
  <2> QED
    BY <2>2, <2>3
<1>4. got \in [Subs -> Seq(Entry)] /\ reader \in [Subs -> [pc : Phases, last : Nat]]
  BY DEF OrderInv
<1> HIDE DEF last
<1>5. ASSUME last \in Nat, given \in Seq(Entry)
      PROVE  /\ reader' \in [Subs -> [pc : Phases, last : Nat]]
             /\ got' \in [Subs -> Seq(Entry)]
             /\ \A u \in Subs \ {s} : reader'[u].last = reader[u].last /\ got'[u] = got[u]
             /\ reader'[s].last = last /\ got'[s] = got[s] \o given
  <2> HIDE DEF given
  <2>1. [pc |-> p, last |-> last] \in [pc : Phases, last : Nat] /\ got[s] \o given \in Seq(Entry)
    BY <1>4, <1>5
  <2> QED
    BY <1>2, <1>3, <1>4, <2>1
<1>6. CASE page = <<>>
  <2>1. ends = {} /\ given = <<>> /\ last = reader[s].last /\ last \in Nat
    BY <1>6, Places DEF last
  <2>2. got[s] \o <<>> = got[s]
    BY <1>4
  <2>3. given \in Seq(Entry)
    BY <2>1
  <2> HIDE DEF given
  <2> QED
    BY <1>1, <1>5, <2>1, <2>2, <2>3
<1>7. CASE page # <<>>
  <2>1. PICK f \in 1..Len(stream), n \in Nat \ {0} :
           /\ f + n - 1 <= Len(stream)
           /\ page = SubSeq(stream, f, f + n - 1)
           /\ page \in Seq(Entry) /\ Len(page) = n
           /\ \A k \in 1..n : page[k] = stream[f + k - 1]
           /\ stream[f].id > reader[s].last
           /\ \A k \in 1..(f - 1) : stream[k].id <= reader[s].last
    BY <1>7, PageIsStretch
  <2> HIDE DEF page
  <2>2. /\ seen \in 1..n
        /\ kept \in {seen, seen - 1}
        /\ ~page[seen].end => kept = seen
    <3>1. CASE ends = {}
      BY <2>1, <3>1
    <3>2. CASE ends # {}
      <4>1. seen \in ends
        <5>1. ends \in SUBSET Nat
          BY <2>1
        <5> HIDE DEF ends
        <5> QED
          BY <3>2, <5>1, MinIsLeast
      <4>2. seen \in 1..n
        <5> HIDE DEF seen
        <5> QED
          BY <2>1, <4>1
      <4>3. page[seen].end /\ kept = seen - 1
        BY <3>2, <4>1
      <4> QED
        BY <4>2, <4>3
    <3> QED
      BY <3>1, <3>2
  <2> HIDE DEF seen, kept
  <2>3. DEFINE l == f + seen - 1
  <2>4. l \in 1..Len(stream) /\ f <= l /\ kept \in Nat /\ (kept = l - f \/ kept = l - f + 1)
        /\ (~stream[l].end => kept = l - f + 1)
    BY <2>1, <2>2, Places
  <2>5. last = stream[l].id /\ last \in Nat
    BY <1>7, <2>1, <2>2, <2>4, Places DEF last
  <2>6. given = SubSeq(stream, f, f + kept - 1) /\ given \in Seq(Entry)
    BY <2>1, <2>2, <2>4 DEF OrderInv
  <2> HIDE DEF given, l
  <2> QED
    BY <1>1, <1>5, <2>1, <2>4, <2>5, <2>6
<1> QED
  BY <1>6, <1>7

\* A Read keeps the reader's order, and what it leaves behind has been given.
LEMMA ReadKeeps ==
  ASSUME ReadInv, NEW s \in Subs, Read(s)
  PROVE  ReadInv'
<1>1. OrderInv /\ \A u \in Subs : Orderly(u)
  BY DEF ReadInv
<1>2. /\ UNCHANGED <<stream, lastId>>
      /\ reader' \in [Subs -> [pc : Phases, last : Nat]]
      /\ got' \in [Subs -> Seq(Entry)]
      /\ \A u \in Subs \ {s} : reader'[u].last = reader[u].last /\ got'[u] = got[u]
  BY <1>1, ReadEffect
<1>7. /\ lastId \in Nat
      /\ stream \in Seq(Entry) /\ DOMAIN stream = 1..Len(stream) /\ Len(stream) \in Nat
      /\ \A k \in 1..Len(stream) : stream[k].id \in Nat /\ stream[k].id <= lastId
      /\ \A i, j \in 1..Len(stream) : i < j => stream[i].id < stream[j].id
      /\ \A u \in Subs :
           /\ reader[u].last \in Nat /\ reader[u].last <= lastId
           /\ got[u] \in Seq(Entry) /\ DOMAIN got[u] = 1..Len(got[u]) /\ Len(got[u]) \in Nat
           /\ \A i \in 1..Len(got[u]) : got[u][i].id \in Nat /\ got[u][i].id <= reader[u].last
  BY <1>1, Places
<1>3. \A u \in Subs \ {s} :
        /\ Orderly(u)'
        /\ reader'[u].last \in 0..lastId'
        /\ \A i \in DOMAIN got'[u] : got'[u][i].id <= reader'[u].last
  <2> SUFFICES ASSUME NEW u \in Subs \ {s}
               PROVE  /\ Orderly(u)'
                      /\ reader'[u].last \in 0..lastId'
                      /\ \A i \in DOMAIN got'[u] : got'[u][i].id <= reader'[u].last
    OBVIOUS
  <2>1. stream' = stream /\ reader'[u].last = reader[u].last /\ got'[u] = got[u]
    BY <1>2
  <2>2. Orderly(u)'
    BY <1>1, <2>1 DEF Orderly
  <2>3. reader'[u].last \in 0..lastId'
    BY <1>2, <1>7, <2>1
  <2>4. \A i \in 1..Len(got[u]) : got[u][i].id <= reader[u].last
    BY <1>7
  <2>5. DOMAIN got[u] = 1..Len(got[u])
    BY <1>7
  <2> QED
    BY <2>1, <2>2, <2>3, <2>4, <2>5
<1>4. SUFFICES /\ Orderly(s)' /\ reader'[s].last \in 0..lastId
               /\ \A i \in DOMAIN got'[s] : got'[s][i].id <= reader'[s].last
  <2>1. reader' \in [Subs -> [pc : Phases, last : 0..lastId']]
    BY <1>2, <1>3, <1>4
  <2> QED
    BY <1>1, <1>2, <1>3, <1>4, <2>1 DEF ReadInv, OrderInv
<1>5. CASE reader'[s].last = reader[s].last /\ got'[s] = got[s]
  <2>1. Orderly(s)'
    BY <1>1, <1>2, <1>5 DEF Orderly
  <2> QED
    BY <1>5, <1>7, <2>1
<1>6. CASE \E f, l \in 1..Len(stream), kept \in Nat :
             /\ f <= l /\ (kept = l - f \/ kept = l - f + 1)
             /\ ~stream[l].end => kept = l - f + 1
             /\ \A k \in 1..(f - 1) : stream[k].id <= reader[s].last
             /\ stream[f].id > reader[s].last
             /\ reader'[s].last = stream[l].id
             /\ got'[s] = got[s] \o SubSeq(stream, f, f + kept - 1)
  <2>1. PICK f, l \in 1..Len(stream), kept \in Nat :
             /\ f <= l /\ (kept = l - f \/ kept = l - f + 1)
             /\ ~stream[l].end => kept = l - f + 1
             /\ \A k \in 1..(f - 1) : stream[k].id <= reader[s].last
             /\ stream[f].id > reader[s].last
             /\ reader'[s].last = stream[l].id
             /\ got'[s] = got[s] \o SubSeq(stream, f, f + kept - 1)
    BY <1>6
  <2>2. PICK g \in Nat : g = Len(got[s]) /\ DOMAIN got[s] = 1..g
    BY <1>7
  <2>14. f \in Nat \ {0} /\ l \in Nat /\ f <= l /\ kept <= l - f + 1 /\ l <= Len(stream)
    BY <1>7, <2>1
  <2>3. /\ Len(got'[s]) = g + kept
        /\ \A i \in 1..g : got'[s][i] = got[s][i]
        /\ \A i \in 1..kept : got'[s][g + i] = stream[f + i - 1]
    <3> DEFINE given == SubSeq(stream, f, f + kept - 1)
    <3>1. given \in Seq(Entry) /\ Len(given) = kept /\ \A i \in 1..kept : given[i] = stream[f + i - 1]
      BY <1>7, <2>1, <2>14
    <3> HIDE DEF given
    <3>2. got'[s] = got[s] \o given /\ got[s] \in Seq(Entry)
      BY <1>7, <2>1 DEF given
    <3>3. /\ Len(got[s] \o given) = g + kept
          /\ \A i \in 1..(g + kept) : (got[s] \o given)[i] = IF i <= g THEN got[s][i] ELSE given[i - g]
      BY <2>2, <3>1, <3>2, ConcatProperties
    <3>4. \A i \in 1..g : got'[s][i] = got[s][i]
      BY <3>2, <3>3
    <3>5. ASSUME NEW i \in 1..kept PROVE got'[s][g + i] = stream[f + i - 1]
      <4>1. g + i \in 1..(g + kept) /\ ~(g + i <= g) /\ (g + i) - g = i
        OBVIOUS
      <4> QED
        BY <3>1, <3>2, <3>3, <4>1
    <3> QED
      BY <3>2, <3>3, <3>4, <3>5
  <2>4. DOMAIN got'[s] = 1..(g + kept)
    BY <1>2, <2>3
  <2>5. ASSUME NEW i \in 1..(g + kept), i > g
        PROVE  f + (i - g) - 1 \in f..l /\ got'[s][i] = stream[f + (i - g) - 1]
    <3>1. i - g \in 1..kept /\ g + (i - g) = i
      BY <2>5
    <3>2. f + (i - g) - 1 \in f..l
      BY <2>14, <3>1
    <3> QED
      BY <2>3, <3>1, <3>2
  <2>6. \A i, j \in 1..Len(stream) : i <= j => stream[i].id <= stream[j].id
    BY <1>7
  <2>7. stream[l].id \in 0..lastId /\ stream[l].id > reader[s].last
    BY <1>7, <2>1, <2>6, <2>14
  <2>8. \A i \in 1..g : got[s][i].id <= reader[s].last /\ got[s][i].id \in Nat
    BY <1>7, <2>2
  <2>9. \A i \in f..l : stream[i].id \in Nat /\ stream[i].id > reader[s].last /\ stream[i].id <= stream[l].id
    BY <1>7, <2>1, <2>6, <2>14
  <2>10. reader[s].last \in Nat
    BY <1>7
  <2>11. ASSUME NEW i \in 1..(g + kept) PROVE got'[s][i].id <= stream[l].id
    <3>1. CASE i <= g
      <4>1. i \in 1..g
        BY <3>1
      <4> QED
        BY <2>3, <2>7, <2>8, <2>10, <4>1
    <3>2. CASE i > g
      BY <2>5, <2>9, <3>2
    <3> QED
      BY <3>1, <3>2
  <2>12. ASSUME NEW i \in 1..(g + kept), NEW j \in 1..(g + kept), i < j
         PROVE  got'[s][i].id < got'[s][j].id
    <3>1. CASE j <= g
      <4>1. i \in 1..g /\ j \in 1..g
        BY <2>12, <3>1
      <4>2. got[s][i].id < got[s][j].id
        BY <1>1, <2>2, <2>12, <4>1 DEF Orderly
      <4> QED
        BY <2>3, <4>1, <4>2
    <3>2. CASE i <= g /\ j > g
      <4>1. PICK m \in f..l : got'[s][j] = stream[m]
        BY <2>5, <3>2
      <4>2. i \in 1..g /\ got'[s][i] = got[s][i]
        BY <2>3, <3>2
      <4> QED
        BY <2>8, <2>9, <2>10, <4>1, <4>2
    <3>3. CASE i > g
      <4>1. /\ f + (i - g) - 1 \in f..l /\ got'[s][i] = stream[f + (i - g) - 1]
            /\ f + (j - g) - 1 \in f..l /\ got'[s][j] = stream[f + (j - g) - 1]
        BY <2>5, <2>12, <3>3
      <4>2. f + (i - g) - 1 < f + (j - g) - 1
        BY <2>12, <2>14
      <4> QED
        BY <1>7, <2>14, <4>1, <4>2
    <3> QED
      BY <3>1, <3>2, <3>3
  <2>13. ASSUME NEW k \in 1..Len(stream), ~stream[k].end, stream[k].id <= stream[l].id
         PROVE  \E i \in 1..(g + kept) : got'[s][i] = stream[k]
    <3>1. CASE k < f
      <4>1. stream[k].id <= reader[s].last
        <5>1. k \in 1..(f - 1)
          BY <2>14, <3>1
        <5> QED
          BY <2>1, <5>1
      <4>2. PICK i \in 1..g : got[s][i] = stream[k]
        BY <1>1, <1>7, <2>2, <2>13, <4>1 DEF Orderly
      <4> QED
        BY <2>3, <4>2
    <3>2. CASE k >= f
      <4>1. k <= l
        <5> SUFFICES ASSUME l < k PROVE FALSE
          BY <2>14
        <5>1. stream[l].id < stream[k].id
          BY <1>7, <2>14
        <5> QED
          BY <1>7, <2>13, <2>14, <5>1
      <4>2. k - f + 1 \in 1..kept
        <5>1. k # l => k - f + 1 \in 1..kept
          BY <2>1, <2>14, <3>2, <4>1
        <5>2. k = l => kept = l - f + 1
          BY <2>1, <2>13
        <5> QED
          BY <2>14, <5>1, <5>2
      <4>3. got'[s][g + (k - f + 1)] = stream[f + (k - f + 1) - 1]
        BY <2>3, <4>2
      <4>4. f + (k - f + 1) - 1 = k /\ g + (k - f + 1) \in 1..(g + kept)
        BY <2>14, <4>2
      <4> QED
        BY <4>3, <4>4
    <3> QED
      BY <2>14, <3>1, <3>2
  <2>15. Orderly(s)'
    BY <1>2, <1>7, <2>1, <2>4, <2>12, <2>13 DEF Orderly
  <2> QED
    BY <2>1, <2>4, <2>7, <2>11, <2>15
<1> QED
  BY <1>1, <1>5, <1>6, ReadEffect

\* An entry that is added is ahead of every reader.
LEMMA AddKeeps ==
  ASSUME ReadInv, NEW t \in Turns, NEW e \in BOOLEAN, Add(t, e), UNCHANGED <<reader, got>>
  PROVE  ReadInv'
<1> DEFINE entry == [id |-> lastId + 1, run |-> t, end |-> e]
<1> DEFINE added == Append(stream, entry)
<1>1. OrderInv /\ \A u \in Subs : Orderly(u)
  BY DEF ReadInv
<1>2. PICK n \in Nat : n = Len(stream) /\ stream \in Seq(Entry) /\ DOMAIN stream = 1..n
                     /\ \A k \in 1..n : stream[k].id \in Nat /\ stream[k].id <= lastId
                     /\ \A i, j \in 1..n : i < j => stream[i].id < stream[j].id
  BY <1>1, Places
<1>3. /\ lastId \in Nat
      /\ \A u \in Subs : reader[u].last \in Nat /\ reader[u].last <= lastId
  BY <1>1, Places
<1>4. lastId' = lastId + 1 /\ \E d \in 0..Len(stream) : stream' = SubSeq(added, d + 1, Len(added))
  BY DEF Add
<1>5. entry \in Entry /\ entry.id = lastId + 1
  BY <1>3 DEF Entry
<1> HIDE DEF entry
<1>6. added \in Seq(Entry) /\ Len(added) = n + 1
      /\ (\A i \in 1..n : added[i] = stream[i]) /\ added[n + 1] = entry
  BY <1>2, <1>5
<1> HIDE DEF added
<1>7. PICK d \in 0..n : stream' = SubSeq(added, d + 1, n + 1)
  BY <1>2, <1>4, <1>6
<1>8. /\ stream' \in Seq(Entry) /\ DOMAIN stream' = 1..(n + 1 - d)
      /\ \A i \in 1..(n + 1 - d) : stream'[i] = added[i + d]
  <2>1. PICK s : s = SubSeq(added, d + 1, n + 1)
    OBVIOUS
  <2>2. d + 1 \in 1..(n + 1) /\ n + 1 \in 1..Len(added)
    BY <1>2, <1>6, <1>7
  <2>3. s \in Seq(Entry) /\ Len(s) = (n + 1) - (d + 1) + 1 /\ \A i \in 1..Len(s) : s[i] = added[d + 1 + i - 1]
    BY <1>6, <2>1, <2>2, SubSeqProperties
  <2>4. Len(s) = n + 1 - d /\ DOMAIN s = 1..(n + 1 - d) /\ \A i \in 1..(n + 1 - d) : d + 1 + i - 1 = i + d
    BY <1>2, <1>7, <2>3
  <2> QED
    BY <1>7, <2>1, <2>3, <2>4
<1>9. ASSUME NEW i \in 1..(n + 1 - d)
      PROVE  \/ i + d \in 1..n /\ stream'[i] = stream[i + d]
             \/ i + d = n + 1 /\ stream'[i] = entry
  BY <1>6, <1>8
<1>10. ASSUME NEW i \in 1..(n + 1 - d) PROVE stream'[i].id <= lastId'
  <2>1. lastId \in Nat /\ lastId' = lastId + 1
    BY <1>3, <1>4
  <2>2. CASE i + d \in 1..n /\ stream'[i] = stream[i + d]
    <3>1. stream[i + d].id \in Nat /\ stream[i + d].id <= lastId
      BY <1>2, <2>2
    <3> QED
      BY <2>1, <2>2, <3>1
  <2>3. CASE stream'[i] = entry
    BY <1>5, <2>1, <2>3
  <2> QED
    BY <1>9, <2>2, <2>3
<1>11. ASSUME NEW i \in 1..(n + 1 - d), NEW j \in 1..(n + 1 - d), i < j
       PROVE  stream'[i].id < stream'[j].id
  <2>1. i + d \in 1..n /\ stream'[i] = stream[i + d] /\ i + d < j + d
    BY <1>9, <1>11
  <2>2. CASE j + d \in 1..n /\ stream'[j] = stream[j + d]
    BY <1>2, <2>1, <2>2
  <2>3. CASE stream'[j] = entry
    BY <1>2, <1>3, <1>5, <2>1, <2>3
  <2> QED
    BY <1>9, <2>2, <2>3
<1>12. OrderInv'
  <2>1. reader' \in [Subs -> [pc : Phases, last : 0..lastId']]
    <3>1. reader \in [Subs -> [pc : Phases, last : 0..lastId]] /\ 0..lastId \subseteq 0..lastId'
      BY <1>1, <1>3, <1>4 DEF OrderInv
    <3>2. [pc : Phases, last : 0..lastId] \subseteq [pc : Phases, last : 0..lastId']
      BY <3>1
    <3> HIDE DEF Phases
    <3> QED
      BY <3>1, <3>2
  <2>2. lastId' \in Nat /\ stream' \in Seq(Entry)
    BY <1>3, <1>4, <1>8
  <2> QED
    BY <1>1, <1>8, <1>10, <1>11, <2>1, <2>2 DEF OrderInv
<1>13. ASSUME NEW u \in Subs PROVE Orderly(u)'
  <2>1. ASSUME NEW k \in DOMAIN stream', ~stream'[k].end, stream'[k].id <= reader'[u].last
        PROVE  \E i \in DOMAIN got'[u] : got'[u][i] = stream'[k]
    <3>1. CASE stream'[k] = entry
      BY <1>3, <1>5, <2>1, <3>1
    <3>2. CASE k + d \in 1..n /\ stream'[k] = stream[k + d]
      BY <1>1, <1>2, <2>1, <3>2 DEF Orderly
    <3> QED
      BY <1>8, <1>9, <3>1, <3>2
  <2>2. \A i, j \in DOMAIN got[u] : i < j => got[u][i].id < got[u][j].id
    BY <1>1 DEF Orderly
  <2> QED
    BY <2>1, <2>2 DEF Orderly
<1> QED
  BY <1>12, <1>13 DEF ReadInv

\* Emptying the stream takes nothing from what a reader was given.
LEMMA ReadStep == ReadInv /\ [Next]_vars => ReadInv'
<1> SUFFICES ASSUME ReadInv, [Next]_vars PROVE ReadInv'
  OBVIOUS
<1>1. ASSUME UNCHANGED <<stream, lastId, reader, got>> PROVE ReadInv'
  BY <1>1 DEF ReadInv, OrderInv, Orderly
<1>2. ASSUME stream' = <<>>, UNCHANGED <<lastId, reader, got>> PROVE ReadInv'
  BY <1>2 DEF ReadInv, OrderInv, Orderly
<1>3. ASSUME NEW t \in Turns, Claim(t) \/ Decline(t) \/ Join(t) \/ EnqueueMessage(t)
                             \/ DrainMessages(t) \/ Release(t) \/ Abandon(t)
      PROVE  ReadInv'
  BY <1>1, <1>3 DEF Claim, Decline, Join, EnqueueMessage, DrainMessages, Release, Abandon, keys
<1>4. ASSUME NEW t \in Turns, Reset(t) PROVE ReadInv'
  BY <1>2, <1>4 DEF Reset
<1>5. ASSUME NEW t \in Turns, Publish(t) \/ WriteEnd(t) PROVE ReadInv'
  BY <1>5, AddKeeps DEF Publish, WriteEnd
<1>6. ASSUME Expire PROVE ReadInv'
  BY <1>2, <1>6 DEF Expire
<1>7. ASSUME NEW s \in Subs, Read(s) PROVE ReadInv'
  BY <1>7, ReadKeeps
<1>8. ASSUME NEW s \in Subs, Subscribe(s) \/ ReadFails(s) \/ Leave(s) PROVE ReadInv'
  <2>1. UNCHANGED <<stream, lastId, got>>
    BY <1>8 DEF Subscribe, ReadFails, Leave, keys
  <2>2. reader' \in [Subs -> [pc : Phases, last : 0..lastId]]
        /\ \A u \in Subs : reader'[u].last = reader[u].last
    <3>1. PICK p \in Phases : reader' = [reader EXCEPT ![s] = [@ EXCEPT !.pc = p]]
      BY <1>8 DEF Subscribe, ReadFails, Leave, Phases
    <3>2. reader \in [Subs -> [pc : Phases, last : 0..lastId]]
      BY DEF ReadInv, OrderInv
    <3> QED
      BY <3>1, <3>2
  <2> QED
    BY <2>1, <2>2 DEF ReadInv, OrderInv, Orderly
<1>9. CASE Stop \/ UNCHANGED vars
  BY <1>1, <1>9 DEF Stop, vars
<1> QED
  BY <1>3, <1>4, <1>5, <1>6, <1>7, <1>8, <1>9 DEF Next, Handler, Closing

\* However the stream is trimmed, reset or lapses under it, and whatever runs
\* publish meanwhile, a reader that replays by pages and then tails is given
\* no entry twice or out of order, and skips none that is still there.
THEOREM ReadersSkipNothing == Spec => []ReaderInOrder
<1>1. Init => ReadInv
  <2> SUFFICES ASSUME Init PROVE ReadInv
    OBVIOUS
  <2>1. DOMAIN stream = {} /\ stream \in Seq(Entry) /\ lastId \in Nat
    BY DEF Init
  <2>2. \A s \in Subs : got[s] = <<>> /\ DOMAIN got[s] = {}
    BY DEF Init
  <2>3. reader \in [Subs -> [pc : Phases, last : 0..lastId]]
    BY DEF Init, Phases
  <2>4. got \in [Subs -> Seq(Entry)]
    BY DEF Init
  <2> QED
    BY <2>1, <2>2, <2>3, <2>4 DEF ReadInv, OrderInv, Orderly
<1> QED
  BY ReadStep, OrderlyReaders, <1>1, PTL DEF Spec
=============================================================================
