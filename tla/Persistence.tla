---------------------------- MODULE Persistence ----------------------------
(***************************************************************************)
(* Conversation history (src/pkg/agents/history): the in-memory adapter,    *)
(* the file adapter that appends every save to its conversation's JSONL     *)
(* file and replays the files when it is opened, and the part of the run    *)
(* manager that decides what is saved under which ids.                     *)
(*                                                                         *)
(* A save's messages are one increment, a number of its own.  A run's meta  *)
(* is abstracted to whether its run state is complete.  Thread and          *)
(* conversation ids are minted from pools.                                 *)
(***************************************************************************)
EXTENDS Integers, Sequences, FiniteSets, SequencesExt

CONSTANTS
  Managers,    \* run managers
  Runs, Threads, Convs,   \* id pools
  MaxSaves,    \* saves (bound)
  MaxCrashes,  \* crashes (bound)
  MaxErrors,   \* failing writes (bound)
  Concurrent   \* whether two managers may work on one thread or branch at a time

None == "none"

ASSUME PoolsAreFinite == IsFiniteSet(Runs) /\ IsFiniteSet(Threads) /\ IsFiniteSet(Convs)
ASSUME BoundsAssumption == MaxSaves \in Nat /\ MaxCrashes \in Nat /\ MaxErrors \in Nat
ASSUME NoneIsNoId == None \notin Runs \cup Threads \cup Convs

VARIABLES
  mem,      \* the in-memory indexes
  file,     \* per conversation: complete lines, and what follows the last newline
  up,       \* "up", "down", or "broken" when NewFileConversationPersistence failed
  op,       \* the save that holds the mutex: its record, and "write" or "sync"
  mgr,      \* the run managers
  used,     \* the ids minted so far
  saves, crashes, errors,
  \* history
  acked     \* the increments whose SaveMessages returned nil, in that order

vars == <<mem, file, up, op, mgr, used, saves, crashes, errors, acked>>

-----------------------------------------------------------------------------
(* The in-memory adapter *)

NoRun == [thread |-> None, conv |-> None, prev |-> None, msgs |-> <<>>, complete |-> FALSE]
NoThread == [conv |-> None, last |-> None, runs |-> <<>>]

EmptyMem ==
  [run |-> [r \in Runs |-> NoRun],
   thread |-> [t \in Threads |-> NoThread],
   summary |-> [t \in Threads |-> None]]

Known(m, r) == r \in Runs /\ m.run[r] # NoRun
UpTo(s, r) == LET at == {i \in DOMAIN s : s[i] = r}
              IN IF at = {} THEN s ELSE SubSeq(s, 1, CHOOSE i \in at : \A j \in at : i <= j)
IndexIn(s, r) == IF r \in ToSet(s) THEN CHOOSE i \in DOMAIN s : s[i] = r ELSE 0

\* LoadMessages: the runs returned, the summary first when it covers runs
\* before the one asked for.
Load(m, t, r) ==
  LET runs == m.thread[t].runs
      covered == IndexIn(runs, m.summary[t])
  IN IF t = None \/ runs = <<>> THEN [covered |-> 0, runs |-> <<>>]
     ELSE IF covered > 0 /\ covered < IndexIn(runs, r)
          THEN [covered |-> covered, runs |-> SubSeq(runs, covered + 1, IndexIn(runs, r))]
          ELSE [covered |-> 0, runs |-> UpTo(runs, r)]

\* Another save of a run: its increment is appended and its meta replaced.
AppendIncrement(m, r, inc, complete) ==
  [m EXCEPT !.run[r].msgs = Append(@, inc),
            !.run[r].complete = complete,
            !.thread[m.run[r].thread].last = r]

Store(m, r, prev, t, c, inc, complete) ==
  [m EXCEPT !.run[r] = [thread |-> t, conv |-> c, prev |-> prev,
                        msgs |-> <<inc>>, complete |-> complete],
            !.thread[t].runs = Append(@, r)]

Branches(m, r, prev) ==
  ~Known(m, r) /\ prev # None /\ m.thread[m.run[prev].thread].last # prev

\* Mutant: a save off the middle of a thread continues that thread.
SaveInMemory_NoBranch(m, r, prev, t, c, inc, complete, fresh) ==
  IF Known(m, r) THEN AppendIncrement(m, r, inc, complete)
  ELSE IF prev = None
       THEN Store([m EXCEPT !.thread[t] = [conv |-> c, last |-> r, runs |-> <<>>]],
                  r, prev, t, c, inc, complete)
  ELSE LET p == m.run[prev]
       IN Store([m EXCEPT !.thread[p.thread].last = r], r, prev, p.thread, p.conv, inc, complete)

\* SaveMessages: an increment of a known run, the first run of a thread (which
\* is created, or emptied), the next run of one, or a branch off its middle
\* (under a fresh thread id, with a copy of the prefix).
SaveInMemory(m, r, prev, t, c, inc, complete, fresh) ==
  IF Known(m, r) THEN AppendIncrement(m, r, inc, complete)
  ELSE IF prev = None
       THEN LET created == [m EXCEPT !.thread[t] = [conv |-> c, last |-> r, runs |-> <<>>]]
            IN Store(created, r, prev, t, c, inc, complete)
  ELSE LET p == m.run[prev]
           branched == [m EXCEPT !.thread[fresh] =
                          [conv |-> p.conv, last |-> r, runs |-> UpTo(m.thread[p.thread].runs, prev)]]
           continued == [m EXCEPT !.thread[p.thread].last = r]
       IN IF Branches(m, r, prev)
          THEN Store(branched, r, prev, fresh, p.conv, inc, complete)
          ELSE Store(continued, r, prev, p.thread, p.conv, inc, complete)

SaveSummaryInMemory(m, t, r) == [m EXCEPT !.summary[t] = r]

-----------------------------------------------------------------------------
(* The file adapter: records and their replay *)

Junk == [type |-> "junk"]
MessageRecord(m, r, inc) ==
  [type |-> "message", run |-> r, prev |-> m.run[r].prev, thread |-> m.run[r].thread,
   conv |-> m.run[r].conv, inc |-> inc, complete |-> m.run[r].complete]
SummaryRecord(t, r) == [type |-> "summary", thread |-> t, upTo |-> r]

\* Mutant: a replayed increment replaces the run's record.
ApplyMessage_Replaces(m, rec) ==
  IF Known(m, rec.run)
  THEN [m EXCEPT !.run[rec.run].msgs = <<rec.inc>>, !.run[rec.run].complete = rec.complete,
                 !.thread[m.run[rec.run].thread].last = rec.run]
  ELSE Store([m EXCEPT !.thread[rec.thread] = [conv |-> rec.conv, last |-> rec.run, runs |-> @.runs]],
             rec.run, rec.prev, rec.thread, rec.conv, rec.inc, rec.complete)

\* Mutant: a branch is replayed without the prefix it copied.
ApplyMessage_NoPrefix(m, rec) ==
  IF Known(m, rec.run) THEN AppendIncrement(m, rec.run, rec.inc, rec.complete)
  ELSE Store([m EXCEPT !.thread[rec.thread] = [conv |-> rec.conv, last |-> rec.run, runs |-> @.runs]],
             rec.run, rec.prev, rec.thread, rec.conv, rec.inc, rec.complete)

\* applyMessageRecord: a thread met for the first time gets the prefix of the
\* thread its first run branches off.
ApplyMessage(m, rec) ==
  IF Known(m, rec.run) THEN AppendIncrement(m, rec.run, rec.inc, rec.complete)
  ELSE LET branched == rec.prev # None /\ Known(m, rec.prev)
                         /\ m.run[rec.prev].thread # rec.thread
           prefix == IF branched
                     THEN UpTo(m.thread[m.run[rec.prev].thread].runs, rec.prev) ELSE <<>>
           seen == IF m.thread[rec.thread] # NoThread THEN m
                   ELSE [m EXCEPT !.thread[rec.thread] =
                           [conv |-> rec.conv, last |-> None, runs |-> prefix]]
       IN Store([seen EXCEPT !.thread[rec.thread].last = rec.run],
                rec.run, rec.prev, rec.thread, rec.conv, rec.inc, rec.complete)

ApplyRecord(m, rec) ==
  IF rec.type = "message" THEN ApplyMessage(m, rec)
  ELSE SaveSummaryInMemory(m, rec.thread, rec.upTo)

\* What replayLines hands on: the lines, and what follows the last newline
\* when it parses.
Readable(f) == f.lines \o (IF f.tail = <<Junk>> THEN <<>> ELSE f.tail)

\* A complete line that does not parse is an error.
Replayable(fs) == \A c \in Convs : Junk \notin ToSet(fs[c].lines)

\* The memory after the first n of the records have been applied to it.
ReplayLines(m, records) ==
  LET after[n \in 0..Len(records)] ==
        IF n = 0 THEN m ELSE ApplyRecord(after[n - 1], records[n])
  IN after[Len(records)]

ReplayFile(m, f) == ReplayLines(m, Readable(f))

\* The files are replayed one after the other.
Replay(fs) ==
  LET order == SetToSeq(Convs)
      after[n \in 0..Cardinality(Convs)] ==
        IF n = 0 THEN EmptyMem ELSE ReplayFile(after[n - 1], fs[order[n]])
  IN after[Cardinality(Convs)]

\* What the write of a record leaves behind when it is whole: a line, or junk when
\* it continues what an earlier write left without a newline.
Written(f, rec) == [lines |-> Append(f.lines, IF f.tail = <<>> THEN rec ELSE Junk), tail |-> <<>>]

\* A partial write: nothing, a part of the record, or all of it but its newline.
PartlyWritten(f, rec) ==
  {f, [f EXCEPT !.tail = <<Junk>>]} \cup (IF f.tail = <<>> THEN {[f EXCEPT !.tail = <<rec>>]} ELSE {})

-----------------------------------------------------------------------------
(* The managers *)

Idle == [pc |-> "idle", thread |-> None, prev |-> None, conv |-> None, run |-> None]
NoOp == [pc |-> "none"]

\* Ids are never minted twice, not even after a crash.
Fresh(pool) == pool \ used

Init ==
  /\ mem = EmptyMem
  /\ file = [c \in Convs |-> [lines |-> <<>>, tail |-> <<>>]]
  /\ up = "up" /\ op = NoOp
  /\ mgr = [x \in Managers |-> Idle]
  /\ used = {}
  /\ saves = 0 /\ crashes = 0 /\ errors = 0
  /\ acked = <<>>

\* A manager's run lives in another thread than the one it opened once its
\* first save has branched.
WorksIn(y, t) == Known(mem, mgr[y].run) /\ mem.run[mgr[y].run].thread = t

\* NewRun: the thread's history is loaded up to the run asked for, or all of
\* it; the last run loaded gives the ids, and is continued unless complete.  The
\* claim keeps two managers off a thread, and here off a run's branch as well.
NewRun(x, t, asked) ==
  /\ up = "up" /\ mgr[x] = Idle
  /\ Concurrent \/ \A y \in Managers : mgr[y].thread # t /\ ~WorksIn(y, t)
  /\ LET runs == Load(mem, t, asked).runs
         prev == IF runs = <<>> THEN None ELSE Last(runs)
     IN IF prev = None
        THEN \E r \in Fresh(Runs), c \in Fresh(Convs) :
               /\ mgr' = [mgr EXCEPT ![x] = [pc |-> "run", thread |-> t, prev |-> None,
                                             conv |-> c, run |-> r]]
               /\ used' = used \cup {r, t, c}
        ELSE \E r \in IF mem.run[prev].complete THEN Fresh(Runs) ELSE {prev} :
               /\ mgr' = [mgr EXCEPT ![x] =
                    [pc |-> "run", thread |-> mem.run[prev].thread, prev |-> prev,
                     conv |-> mem.run[prev].conv, run |-> r]]
               /\ used' = used \cup {r}
  /\ UNCHANGED <<mem, file, up, op, saves, crashes, errors, acked>>

\* SaveMessages, up to the write: the memory is changed under the mutex.
Save(x, complete) ==
  /\ up = "up" /\ op = NoOp /\ mgr[x].pc = "run" /\ saves < MaxSaves
  /\ LET m == mgr[x]
         inc == saves + 1
     IN \E fresh \in IF Branches(mem, m.run, m.prev) THEN Fresh(Threads) ELSE {None} :
          /\ mem' = SaveInMemory(mem, m.run, m.prev, m.thread, m.conv, inc, complete, fresh)
          /\ op' = [pc |-> "write", by |-> x, rec |-> MessageRecord(mem', m.run, inc),
                    conv |-> mem'.run[m.run].conv]
          /\ used' = used \cup {mem'.run[m.run].thread}
  /\ mgr' = [mgr EXCEPT ![x].pc = "saving"]
  /\ saves' = saves + 1
  /\ UNCHANGED <<file, up, crashes, errors, acked>>

\* SaveSummary, which a save makes first: a summary up to a run the manager loaded.
SaveSummary(x) ==
  /\ up = "up" /\ op = NoOp /\ mgr[x].pc = "run" /\ mgr[x].prev # None
  /\ saves < MaxSaves
  /\ \E r \in ToSet(Load(mem, mgr[x].thread, mgr[x].prev).runs) :
       /\ mem.summary[mgr[x].thread] # r
       /\ mem' = SaveSummaryInMemory(mem, mgr[x].thread, r)
       /\ op' = [pc |-> "write", by |-> x, rec |-> SummaryRecord(mgr[x].thread, r), conv |-> mgr[x].conv]
  /\ mgr' = [mgr EXCEPT ![x].pc = "saving"]
  /\ saves' = saves + 1
  /\ UNCHANGED <<file, up, used, crashes, errors, acked>>

Write ==
  /\ op.pc = "write"
  /\ file' = [file EXCEPT ![op.conv] = Written(@, op.rec)]
  /\ op' = [op EXCEPT !.pc = "sync"]
  /\ UNCHANGED <<mem, up, mgr, used, saves, crashes, errors, acked>>

\* The save returns nil.  A manager whose run is complete moves on to a fresh id.
Sync ==
  /\ op.pc = "sync"
  /\ IF op.rec.type = "summary"
     THEN mgr' = [mgr EXCEPT ![op.by].pc = "run"] /\ UNCHANGED acked
     ELSE /\ acked' = Append(acked, [run |-> op.rec.run, inc |-> op.rec.inc])
          /\ IF op.rec.complete
             THEN mgr' = [mgr EXCEPT ![op.by] = Idle]
             ELSE mgr' = [mgr EXCEPT ![op.by].pc = "run"]
  /\ op' = NoOp
  /\ UNCHANGED <<mem, file, up, used, saves, crashes, errors>>

\* The write fails, part of the record may be in the file, and the turn ends.
WriteFails ==
  /\ op.pc = "write" /\ errors < MaxErrors
  /\ \E f \in PartlyWritten(file[op.conv], op.rec) : file' = [file EXCEPT ![op.conv] = f]
  /\ mgr' = [mgr EXCEPT ![op.by] = Idle]
  /\ op' = NoOp /\ errors' = errors + 1
  /\ UNCHANGED <<mem, up, used, saves, crashes, acked>>

\* The record is in the file, its sync fails: the save returns an error all the same.
SyncFails ==
  /\ op.pc = "sync" /\ errors < MaxErrors
  /\ mgr' = [mgr EXCEPT ![op.by] = Idle]
  /\ op' = NoOp /\ errors' = errors + 1
  /\ UNCHANGED <<mem, file, up, used, saves, crashes, acked>>

\* A turn that ended without completing its run: it paused, or failed.
Leave(x) ==
  /\ mgr[x].pc = "run"
  /\ mgr' = [mgr EXCEPT ![x] = Idle]
  /\ UNCHANGED <<mem, file, up, op, used, saves, crashes, errors, acked>>

\* The process dies: a record that was not synced survives whole, in part, or not.
Crash ==
  /\ up = "up" /\ crashes < MaxCrashes
  /\ up' = "down" /\ op' = NoOp /\ mem' = EmptyMem
  /\ mgr' = [x \in Managers |-> Idle]
  /\ IF op.pc = "write"
     THEN \E f \in PartlyWritten(file[op.conv], op.rec) : file' = [file EXCEPT ![op.conv] = f]
     ELSE IF op.pc = "sync" /\ Last(file[op.conv].lines) = op.rec
     THEN \E f \in PartlyWritten([file[op.conv] EXCEPT !.lines = Front(@)], op.rec) \cup {file[op.conv]} :
            file' = [file EXCEPT ![op.conv] = f]
     ELSE UNCHANGED file
  /\ crashes' = crashes + 1
  /\ UNCHANGED <<used, saves, errors, acked>>

\* NewFileConversationPersistence.
Open ==
  /\ up = "down"
  /\ IF Replayable(file) THEN up' = "up" /\ mem' = Replay(file)
     ELSE up' = "broken" /\ UNCHANGED mem
  /\ UNCHANGED <<file, op, mgr, used, saves, crashes, errors, acked>>

Next ==
  \/ \E x \in Managers : \/ \E t \in Threads, r \in Runs \cup {None} : NewRun(x, t, r)
                         \/ \E complete \in BOOLEAN : Save(x, complete)
                         \/ SaveSummary(x) \/ Leave(x)
  \/ Write \/ Sync \/ WriteFails \/ SyncFails \/ Crash \/ Open

Spec == Init /\ [][Next]_vars

-----------------------------------------------------------------------------
(* Properties *)

\* A record that continues what a torn write left is a complete line that does
\* not parse.
Glued == ~Replayable(file)

\* FileConversationPersistence "behaves exactly like InMemoryConversationPersistence
\* but survives process restarts": with no save under way, and no write having
\* failed (the memory is then ahead of the files), replaying the files gives the
\* memory, branches, increments and summaries included, torn tails or not.
ReplayRebuilds ==
  up = "up" /\ op = NoOp /\ errors = 0 /\ ~Glued => Replay(file) = mem

\* Every increment whose save was acknowledged is recovered, in its run, once,
\* after those acknowledged before it, whatever crashed or failed in between.
AckedSurvives ==
  ~Glued =>
    LET m == Replay(file) IN
    \A i \in DOMAIN acked :
      LET msgs == m.run[acked[i].run].msgs
          at == {k \in DOMAIN msgs : msgs[k] = acked[i].inc}
      IN /\ Cardinality(at) = 1
         /\ \A j \in 1..(i - 1) : acked[j].run = acked[i].run =>
              \E k \in DOMAIN msgs : msgs[k] = acked[j].inc /\ \A l \in at : k < l

\* What is loaded for a run is the chain of the runs it continues, from the
\* first one on, in every thread and branch, restarted or not.
ChainLoaded ==
  up = "up" /\ errors = 0 =>
    \A r \in Runs : Known(mem, r) =>
      LET s == UpTo(mem.thread[mem.run[r].thread].runs, r)
      IN /\ r \in ToSet(s)
         /\ mem.run[s[1]].prev = None
         /\ \A i \in 2..Len(s) : mem.run[s[i]].prev = s[i - 1]

=============================================================================
