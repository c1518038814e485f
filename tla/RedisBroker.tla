---------------------------- MODULE RedisBroker ----------------------------
(***************************************************************************)
(* RedisStreamBroker (pkg/agents/streambroker/redis_broker.go) for one     *)
(* stream.  Redis runs one command, or one MULTI/EXEC pipeline, at a time; *)
(* a method of the broker that sends two of them is two actions, and what  *)
(* other processes send may come in between.  A turn whose EnqueueOrStart  *)
(* wins the claim is a run from then on.                                   *)
(***************************************************************************)
EXTENDS Naturals, Sequences, SequencesExt

CONSTANTS
  Turns,     \* the turns clients submit on the thread
  Subs,      \* readers of the stream
  maxLen,    \* entries a trim of the stream leaves
  readCount, \* entries one XRANGE or XREAD returns
  MaxChunks, \* bound: chunks one run publishes
  MaxLate,   \* bound: chunks of a run up to which a tool it left behind adds some
  Expires,   \* whether the claim's TTL may lapse under a run in flight
  Faults     \* whether a run may crash and a command of Close or XREAD fail

ASSUME BoundAssumption ==
  /\ maxLen \in Nat \ {0}
  /\ readCount \in Nat \ {0}
  /\ MaxChunks \in Nat
  /\ MaxLate \in Nat
  /\ Expires \in BOOLEAN
  /\ Faults \in BOOLEAN

VARIABLES
  live,    \* whether liveKey is set
  stream,  \* the entries under streamKey
  queue,   \* the turns in the list under queueKey
  stop,    \* whether stopKey is set
  lastId,  \* the id of the newest entry ever added
  turn,    \* how far each turn has come
  count,   \* chunks each run has published
  reader,  \* each reader: none, replay, tail, ended, failed or left, and the last id it has seen
  got,     \* the entries each reader has passed on
  stopFor  \* the runs that were in flight at the last Stop

vars == <<live, stream, queue, stop, lastId, turn, count, reader, got, stopFor>>
keys == <<live, stream, queue, stop, lastId>>

-----------------------------------------------------------------------------

\* The turns whose run has claimed the stream and not given it up.
InFlight == {t \in Turns : turn[t] \in {"claimed", "running", "closing"}}

Init ==
  /\ live = FALSE /\ stream = <<>> /\ queue = {} /\ stop = FALSE
  /\ lastId = 0
  /\ turn = [t \in Turns |-> "new"]
  /\ count = [t \in Turns |-> 0]
  /\ reader = [s \in Subs |-> [pc |-> "none", last |-> 0]]
  /\ got = [s \in Subs |-> <<>>]
  /\ stopFor = {}

\* XADD with MAXLEN ~: trimming is lazy and drops as many of the oldest entries as
\* it likes at once, but what it leaves is maxLen or more.
Add(t, isEnd) ==
  LET added == Append(stream, [id |-> lastId + 1, run |-> t, end |-> isEnd])
  IN  /\ lastId' = lastId + 1
      /\ \E dropped \in 0..Len(stream) :
           /\ dropped > 0 => Len(added) - dropped >= maxLen
           /\ stream' = SubSeq(added, dropped + 1, Len(added))

-----------------------------------------------------------------------------
(* EnqueueOrStart.                                                         *)

\* Mutant: SET in the place of SETNX.
Claim_Set(t) ==
  /\ turn[t] = "new"
  /\ live' = TRUE
  /\ turn' = [turn EXCEPT ![t] = "claimed"]
  /\ UNCHANGED <<stream, queue, stop, lastId, count, reader, got, stopFor>>

\* SETNX on liveKey finds it free.
Claim(t) ==
  /\ turn[t] = "new"
  /\ ~live
  /\ live' = TRUE
  /\ turn' = [turn EXCEPT ![t] = "claimed"]
  /\ UNCHANGED <<stream, queue, stop, lastId, count, reader, got, stopFor>>

\* Turns that are in the queue move on to the given phase.
Settle(phase) == [t \in Turns |-> IF t \in queue THEN phase ELSE turn[t]]

\* Mutant: the stop flag of the previous run is kept.
Reset_KeepsStop(t) ==
  /\ turn[t] = "claimed"
  /\ stream' = <<>> /\ queue' = {}
  /\ turn' = [Settle("dropped") EXCEPT ![t] = "running"]
  /\ UNCHANGED <<stop, live, lastId, count, reader, got, stopFor>>

\* Mutant: the queue of the previous run is kept.
Reset_KeepsQueue(t) ==
  /\ turn[t] = "claimed"
  /\ stream' = <<>> /\ stop' = FALSE
  /\ turn' = [turn EXCEPT ![t] = "running"]
  /\ UNCHANGED <<queue, live, lastId, count, reader, got, stopFor>>

\* The winner deletes what the last run left, and its run begins.
Reset(t) ==
  /\ turn[t] = "claimed"
  /\ stream' = <<>> /\ queue' = {} /\ stop' = FALSE
  /\ turn' = [Settle("dropped") EXCEPT ![t] = "running"]
  /\ UNCHANGED <<live, lastId, count, reader, got, stopFor>>

\* SETNX finds the claim taken ...
Decline(t) ==
  /\ turn[t] = "new"
  /\ live
  /\ turn' = [turn EXCEPT ![t] = "joining"]
  /\ UNCHANGED <<keys, count, reader, got, stopFor>>

\* ... and the turn is pushed onto the queue.
Join(t) ==
  /\ turn[t] = "joining"
  /\ queue' = queue \cup {t}
  /\ turn' = [turn EXCEPT ![t] = "joined"]
  /\ UNCHANGED <<live, stream, stop, lastId, count, reader, got, stopFor>>

\* EnqueueMessage asks no claim.
EnqueueMessage(t) ==
  /\ turn[t] = "new"
  /\ queue' = queue \cup {t}
  /\ turn' = [turn EXCEPT ![t] = "joined"]
  /\ UNCHANGED <<live, stream, stop, lastId, count, reader, got, stopFor>>

-----------------------------------------------------------------------------
(* The run.                                                                *)

\* XADD; its EXPIREs only put off the lapse of the keys.  A tool that the last stop
\* left behind still publishes during Close and after it.
Publish(t) ==
  /\ \/ turn[t] = "running"
     \/ turn[t] \in {"closing", "ended"} /\ t \in stopFor /\ count[t] < MaxLate
  /\ count[t] < MaxChunks
  /\ Add(t, FALSE)
  /\ count' = [count EXCEPT ![t] = @ + 1]
  /\ UNCHANGED <<live, queue, stop, turn, reader, got, stopFor>>

\* LRANGE and DEL in one MULTI/EXEC.
DrainMessages(t) ==
  /\ turn[t] = "running"
  /\ queue' = {}
  /\ turn' = Settle("read")
  /\ UNCHANGED <<live, stream, stop, lastId, count, reader, got, stopFor>>

\* Close adds the sentinel ...
WriteEnd(t) ==
  /\ turn[t] = "running"
  /\ Add(t, TRUE)
  /\ turn' = [turn EXCEPT ![t] = "closing"]
  /\ UNCHANGED <<live, queue, stop, count, reader, got, stopFor>>

\* ... and then releases the claim.
Release(t) ==
  /\ turn[t] = "closing"
  /\ live' = FALSE
  /\ turn' = [turn EXCEPT ![t] = "ended"]
  /\ UNCHANGED <<stream, queue, stop, lastId, count, reader, got, stopFor>>

\* The process dies with the claim taken, in its run or in Close, or the sentinel
\* cannot be written and Close returns early: the claim stays.
Abandon(t) ==
  /\ Faults
  /\ turn[t] \in {"claimed", "running", "closing"}
  /\ turn' = [turn EXCEPT ![t] = IF @ = "claimed" THEN "lost" ELSE "ended"]
  /\ UNCHANGED <<keys, count, reader, got, stopFor>>

\* Mutant: the claim is set without a TTL.
Expire_Never == FALSE /\ UNCHANGED vars

\* Nothing was published for activeTTL: the claim and the stream, refreshed by
\* the same Publish, lapse. A run in flight keeps them up unless Expires.
Expire ==
  /\ live
  /\ Expires \/ InFlight = {}
  /\ live' = FALSE /\ stream' = <<>>
  /\ UNCHANGED <<queue, stop, lastId, turn, count, reader, got, stopFor>>

\* Stop sets stopKey, whoever is in flight.
Stop ==
  /\ ~stop
  /\ stop' = TRUE
  /\ stopFor' = InFlight
  /\ UNCHANGED <<live, stream, queue, lastId, turn, count, reader, got>>

-----------------------------------------------------------------------------
(* Subscribe's goroutine.                                                  *)

Subscribe(s) ==
  /\ reader[s].pc = "none"
  /\ reader' = [reader EXCEPT ![s].pc = "replay"]
  /\ UNCHANGED <<keys, turn, count, got, stopFor>>

\* The entries from one place of the stream on, readCount at most.
From(i) == SubSeq(stream, i, IF i + readCount > Len(stream) THEN Len(stream) ELSE i + readCount - 1)

\* Mutant: the cursor is not moved past the last entry.
Page_Inclusive(s) ==
  LET ahead == {i \in DOMAIN stream : stream[i].id >= reader[s].last}
  IN  IF ahead = {} THEN <<>> ELSE From(Min(ahead))

\* What XRANGE from the cursor, or XREAD after lastID, returns.
Page(s) ==
  LET ahead == {i \in DOMAIN stream : stream[i].id > reader[s].last}
  IN  IF ahead = {} THEN <<>> ELSE From(Min(ahead))

\* A page is passed on up to the sentinel, which ends the subscription; an
\* empty one ends the replay.
Read(s) ==
  /\ reader[s].pc \in {"replay", "tail"}
  /\ LET page == Page(s)
         ends == {i \in DOMAIN page : page[i].end}
         seen == IF ends = {} THEN Len(page) ELSE Min(ends)
     IN  /\ page = <<>> => reader[s].pc = "replay"
         /\ got' = [got EXCEPT ![s] = @ \o SubSeq(page, 1, IF ends = {} THEN seen ELSE seen - 1)]
         /\ reader' = [reader EXCEPT ![s] =
              [pc   |-> IF ends # {} THEN "ended" ELSE IF page = <<>> THEN "tail" ELSE @.pc,
               last |-> IF page = <<>> THEN @.last ELSE page[seen].id]]
  /\ UNCHANGED <<keys, turn, count, stopFor>>

\* XREAD fails, and the subscription is closed.
ReadFails(s) ==
  /\ Faults
  /\ reader[s].pc = "tail"
  /\ reader' = [reader EXCEPT ![s].pc = "failed"]
  /\ UNCHANGED <<keys, turn, count, got, stopFor>>

\* The subscriber's context is cancelled.
Leave(s) ==
  /\ reader[s].pc \in {"replay", "tail"}
  /\ reader' = [reader EXCEPT ![s].pc = "left"]
  /\ UNCHANGED <<keys, turn, count, got, stopFor>>

-----------------------------------------------------------------------------
\* The commands of one EnqueueOrStart, and of one Close.
Handler(t) == Claim(t) \/ Reset(t) \/ Decline(t) \/ Join(t)

Closing(t) == WriteEnd(t) \/ Release(t)

Next ==
  \/ \E t \in Turns : \/ Handler(t) \/ EnqueueMessage(t)
                      \/ Publish(t) \/ DrainMessages(t)
                      \/ Closing(t) \/ Abandon(t)
  \/ Stop
  \/ Expire
  \/ \E s \in Subs : Subscribe(s) \/ Read(s) \/ ReadFails(s) \/ Leave(s)

Spec == Init /\ [][Next]_vars

\* A handler that has won the claim resets the stream unless it dies, a run gets
\* to its end, and a claim nobody refreshes any more lapses.
FairSpec ==
  /\ Spec
  /\ \A t \in Turns : WF_vars(Reset(t)) /\ WF_vars(Closing(t))
  /\ WF_vars(InFlight = {} /\ Expire)

-----------------------------------------------------------------------------
(* Properties.                                                             *)

\* While no claim lapses, two runs are never in flight on one stream, though
\* claiming takes two commands and closing takes two (redis_broker.go:290-309,
\* 359-389).
OneRunAtATime == \A t, u \in InFlight : t = u

\* What makes OneRunAtATime inductive: a run in flight holds the claim.
ClaimInv == OneRunAtATime /\ (InFlight # {} => live)

\* The replay by pages and the live tail fit together: a reader passes no
\* entry on twice, and none that is still in the stream is skipped behind the
\* last id it has seen (redis_broker.go:212-280).
ReaderInOrder ==
  \A s \in Subs :
    /\ \A i, j \in DOMAIN got[s] : i < j => got[s][i].id < got[s][j].id
    /\ \A e \in ToSet(stream) :
         ~e.end /\ e.id <= reader[s].last => e \in ToSet(got[s])

\* A run that finds the stop flag set was itself in flight when the stop was
\* asked for: no run inherits the stop of an earlier one (redis_broker.go:385-387).
StopIsForThisRun ==
  \A t \in Turns : turn[t] \in {"running", "closing"} /\ stop => t \in stopFor

\* What a turn's fate is in the terms of RunClaim.
Fate(t) ==
  CASE turn[t] \in {"new", "claimed", "lost", "joining"} -> "new"
    [] turn[t] \in {"running", "closing", "ended"}        -> "started"
    [] OTHER                                              -> turn[t]

\* Counting a run as in flight from the moment its stream is reset until its
\* claim is released, the queue behaves as RunClaim says (redis_broker.go:290-309,
\* 359-389, 411-418).
RunClaimed == INSTANCE RunClaim WITH
  live  <- \E t \in Turns : turn[t] \in {"running", "closing"},
  inbox <- queue,
  fate  <- [t \in Turns |-> Fate(t)]

RunClaimSpec == RunClaimed!Spec

\* A claim is always released in the end, by Close or, after a crash or a
\* failed Close, by its TTL (redis_broker.go:156-158).
ClaimReleased == live ~> ~live

=============================================================================
