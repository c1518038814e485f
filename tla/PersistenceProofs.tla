------------------------- MODULE PersistenceProofs -------------------------
(***************************************************************************)
(* What holds of Persistence for all managers, ids, saves, crashes and      *)
(* failing writes.                                                         *)
(*                                                                         *)
(* TypeCorrect: the variables keep their types.  AcknowledgedIsDurable: an  *)
(* acknowledged increment is recovered, once and in order; its invariant    *)
(* numbers the increments in the files by their saves and keeps a run in    *)
(* one file (LinesKept), and follows the acknowledged ones (AcksKept).      *)
(*                                                                         *)
(* RestartLosesNothing and HistoryIsAChain are about managers that a claim  *)
(* keeps apart.  Their invariant has two parts: the memory is good and the  *)
(* managers fit it (Settled), and each conversation's part of the memory is *)
(* its file, replayed, and the record about to be written (FilesSettled).   *)
(* Neither part is inductive alone: a save keeps the memory good because of *)
(* what managers hold, and opening the files makes a good memory of them.   *)
(***************************************************************************)
EXTENDS ReplayLemmas

-----------------------------------------------------------------------------
(* The states.                                                             *)

MgrRecords ==
  [pc : {"run", "saving"}, thread : Threads, prev : Runs \cup {None}, conv : Convs, run : Runs]
OpRecords == [pc : {"write", "sync"}, by : Managers, rec : Records, conv : Convs]
Acks == [run : Runs, inc : Nat]

\* Every variable has its type, a manager continues a run that is known, and
\* the manager in the middle of a save is the one that holds the mutex.
TypeOK ==
  /\ Sound(mem)
  /\ file \in [Convs -> Files]
  /\ up \in {"up", "down", "broken"}
  /\ op \in OpRecords \cup {NoOp}
  /\ mgr \in [Managers -> MgrRecords \cup {Idle}]
  /\ saves \in Nat /\ errors \in Nat
  /\ acked \in Seq(Acks)
  /\ \A x \in Managers : mgr[x] # Idle /\ mgr[x].prev # None => Known(mem, mgr[x].prev)
  /\ \A x \in Managers : mgr[x].pc = "saving" <=> op # NoOp /\ op.by = x
  /\ up # "up" => op = NoOp /\ \A x \in Managers : mgr[x] = Idle

\* The values of mgr and op can be told apart by their pc.
LEMMA StateFields ==
  /\ Idle \notin MgrRecords /\ Idle.pc = "idle"
  /\ \A y \in MgrRecords : y # Idle /\ y.pc # "idle" /\ (y.pc # "saving" <=> y.pc = "run")
  /\ NoOp \notin OpRecords /\ NoOp.pc = "none"
  /\ \A o \in OpRecords : o # NoOp /\ o.pc # "none"
BY DEF MgrRecords, OpRecords, Idle, NoOp

\* A file stays a file when a record, or a part of one, is appended.
LEMMA WrittenTyped ==
  ASSUME NEW f \in Files, NEW rec \in Records
  PROVE  Written(f, rec) \in Files /\ \A g \in PartlyWritten(f, rec) : g \in Files
<1>1. f.lines \in Seq(Records \cup {Junk}) /\ f.tail \in Tails /\ f = [lines |-> f.lines, tail |-> f.tail]
  BY DEF Files
<1>. DEFINE e == IF f.tail = <<>> THEN rec ELSE Junk
<1>2. Append(f.lines, e) \in Seq(Records \cup {Junk})
  BY <1>1
<1>3. <<>> \in Tails /\ <<Junk>> \in Tails /\ <<rec>> \in Tails
  BY DEF Tails
<1>4. Written(f, rec) \in Files
  <2>. HIDE DEF e
  <2>1. [lines |-> Append(f.lines, e), tail |-> <<>>] \in Files
    BY <1>2, <1>3 DEF Files
  <2>. QED
    BY <2>1 DEF Written, e
<1>5. ASSUME NEW t \in Tails PROVE [f EXCEPT !.tail = t] \in Files
  BY <1>1 DEF Files
<1>6. \A g \in PartlyWritten(f, rec) : g \in Files
  BY <1>3, <1>5 DEF PartlyWritten
<1>. QED
  BY <1>4, <1>6

\* A file stays a file when its last line is dropped.
LEMMA FrontTyped ==
  ASSUME NEW f \in Files
  PROVE  [f EXCEPT !.lines = Front(@)] \in Files
<1>1. f.lines \in Seq(Records \cup {Junk}) /\ f.tail \in Tails
  BY DEF Files
<1>2. Front(f.lines) \in Seq(Records \cup {Junk})
  <2>. DEFINE s == f.lines
  <2>. HIDE DEF s
  <2>1. s \in Seq(Records \cup {Junk}) /\ Len(s) \in Nat
    BY <1>1 DEF s
  <2>2. SubSeq(s, 1, Len(s) - 1) \in Seq(Records \cup {Junk})
    BY <2>1
  <2>. QED
    BY <2>2 DEF Front, s
<1>. QED
  BY <1>1, <1>2 DEF Files

\* The first state is typed.
LEMMA InitTypeOK == Init => TypeOK
<1>. SUFFICES ASSUME Init PROVE TypeOK
  OBVIOUS
<1>1. [lines |-> <<>>, tail |-> <<>>] \in Files
  <2>1. <<>> \in Seq(Records \cup {Junk})
    OBVIOUS
  <2>. QED
    BY <2>1 DEF Files, Tails
<1>2. file \in [Convs -> Files]
  BY <1>1 DEF Init
<1>3. Sound(mem)
  BY EmptySound DEF Init
<1>4. acked \in Seq(Acks)
  BY DEF Init
<1>. QED
  BY <1>2, <1>3, <1>4, StateFields DEF Init, TypeOK

\* The facts of a new run: the first one of an empty thread, or one that goes on
\* from a run of the thread that was opened.
LEMMA NewRunFacts ==
  ASSUME TypeOK, NEW x \in Managers, NEW t \in Threads, NEW asked \in Runs \cup {None}, NewRun(x, t, asked)
  PROVE  /\ up = "up" /\ mgr[x] = Idle /\ UNCHANGED <<mem, file, up, op, saves, crashes, errors, acked>>
         /\ \E y \in MgrRecords :
               /\ mgr' = [mgr EXCEPT ![x] = y] /\ y.pc = "run"
               /\ \/ /\ y.prev = None /\ y.thread = t /\ y.run \notin used
                     /\ mem.thread[t].runs = <<>>
                     /\ used' = used \cup {y.run, t, y.conv}
                  \/ /\ Known(mem, y.prev) /\ y.thread = mem.run[y.prev].thread /\ y.conv = mem.run[y.prev].conv
                     /\ \E i \in DOMAIN mem.thread[t].runs : mem.thread[t].runs[i] = y.prev
                     /\ IF mem.run[y.prev].complete THEN y.run \notin used ELSE y.run = y.prev
                     /\ used' = used \cup {y.run}
<1>. DEFINE runs == Load(mem, t, asked).runs
            prev == IF runs = <<>> THEN None ELSE Last(runs)
            s == mem.thread[t].runs
<1>1. runs \in Seq(Runs) /\ (\A i \in DOMAIN runs : \E j \in DOMAIN s : runs[i] = s[j] /\ Known(mem, s[j]))
      /\ (runs = <<>> => s = <<>>)
  BY LoadIsPart DEF TypeOK
<1>2. runs # <<>> => Known(mem, prev) /\ \E i \in DOMAIN s : s[i] = prev
  <2>. HIDE DEF runs, s
  <2>. SUFFICES ASSUME runs # <<>> PROVE Known(mem, prev) /\ \E i \in DOMAIN s : s[i] = prev
    OBVIOUS
  <2>1. DOMAIN runs = 1..Len(runs) /\ Len(runs) \in DOMAIN runs
    BY <1>1
  <2>. QED
    BY <1>1, <2>1 DEF Last
<1>3. runs = <<>> <=> prev = None
  BY <1>2, NoneIsNoId DEF Known
<1>4. CASE prev = None
  <2>1. PICK r \in Fresh(Runs), c \in Fresh(Convs) :
           /\ mgr' = [mgr EXCEPT ![x] = [pc |-> "run", thread |-> t, prev |-> None, conv |-> c, run |-> r]]
           /\ used' = used \cup {r, t, c}
    BY <1>4 DEF NewRun, runs
  <2>2. s = <<>>
    BY <1>1, <1>3, <1>4
  <2>. DEFINE y == [pc |-> "run", thread |-> t, prev |-> None, conv |-> c, run |-> r]
  <2>3. y \in MgrRecords /\ y.pc = "run" /\ y.prev = None /\ y.thread = t /\ y.run = r /\ y.conv = c /\ r \notin used
    BY DEF MgrRecords, Fresh
  <2>. HIDE DEF runs
  <2>. QED
    BY <2>1, <2>2, <2>3 DEF NewRun
<1>5. CASE prev # None
  <2>. DEFINE u == mem.run[prev]
  <2>1. Known(mem, prev) /\ \E i \in DOMAIN s : s[i] = prev
    BY <1>2, <1>3, <1>5
  <2>2. u \in RunRecords /\ prev \in Runs
    BY <2>1, MemFields DEF TypeOK, Sound
  <2>3. PICK r \in IF u.complete THEN Fresh(Runs) ELSE {prev} :
           /\ mgr' = [mgr EXCEPT ![x] = [pc |-> "run", thread |-> u.thread, prev |-> prev, conv |-> u.conv, run |-> r]]
           /\ used' = used \cup {r}
    BY <1>5 DEF NewRun, runs
  <2>. DEFINE y == [pc |-> "run", thread |-> u.thread, prev |-> prev, conv |-> u.conv, run |-> r]
  <2>. HIDE DEF prev
  <2>4. r \in Runs /\ IF u.complete THEN r \notin used ELSE r = prev
    BY <2>2, <2>3 DEF Fresh
  <2>. HIDE DEF u
  <2>5. y \in MgrRecords /\ y.pc = "run" /\ y.prev = prev /\ y.thread = u.thread /\ y.conv = u.conv /\ y.run = r
    BY <2>2, <2>4 DEF MgrRecords, RunRecords
  <2>. HIDE DEF y
  <2>6. mgr' = [mgr EXCEPT ![x] = y] /\ used' = used \cup {y.run}
    BY <2>3, <2>5 DEF y
  <2>7. /\ Known(mem, y.prev) /\ y.thread = mem.run[y.prev].thread /\ y.conv = mem.run[y.prev].conv
        /\ \E i \in DOMAIN s : s[i] = y.prev
        /\ IF mem.run[y.prev].complete THEN y.run \notin used ELSE y.run = y.prev
    BY <2>1, <2>4, <2>5 DEF u
  <2>. QED
    BY <2>5, <2>6, <2>7 DEF NewRun
<1>. QED
  BY <1>4, <1>5

\* A new manager keeps the types.
LEMMA NewRunTypeOK ==
  ASSUME TypeOK, NEW x \in Managers, NEW t \in Threads, NEW asked \in Runs \cup {None}, NewRun(x, t, asked)
  PROVE  TypeOK'
<1>4. PICK y \in MgrRecords : /\ mgr' = [mgr EXCEPT ![x] = y]
                              /\ y.pc = "run" /\ (y.prev # None => Known(mem, y.prev))
  BY NewRunFacts
<1>5. up = "up" /\ mgr[x] = Idle /\ UNCHANGED <<mem, file, up, op, saves, errors, acked>>
  BY DEF NewRun
<1>6. mgr' \in [Managers -> MgrRecords \cup {Idle}]
  BY <1>4 DEF TypeOK
<1>7. \A z \in Managers : mgr'[z] = IF z = x THEN y ELSE mgr[z]
  BY <1>4 DEF TypeOK
<1>8. \A z \in Managers : mgr'[z].pc = "saving" <=> op' # NoOp /\ op'.by = z
  BY <1>4, <1>5, <1>7, StateFields DEF TypeOK
<1>9. \A z \in Managers : mgr'[z] # Idle /\ mgr'[z].prev # None => Known(mem', mgr'[z].prev)
  BY <1>4, <1>5, <1>7 DEF TypeOK
<1>. QED
  BY <1>5, <1>6, <1>8, <1>9 DEF TypeOK

\* The facts of a save.
LEMMA SaveFacts ==
  ASSUME TypeOK, NEW x \in Managers, NEW complete \in BOOLEAN, Save(x, complete)
  PROVE  /\ up = "up" /\ op = NoOp /\ mgr[x] \in MgrRecords /\ mgr[x].pc = "run"
         /\ mgr[x].prev = None \/ Known(mem, mgr[x].prev)
         /\ \E fresh : /\ Branches(mem, mgr[x].run, mgr[x].prev) => fresh \in Threads \ used
                       /\ mem' = SaveInMemory(mem, mgr[x].run, mgr[x].prev, mgr[x].thread, mgr[x].conv,
                                              saves + 1, complete, fresh)
         /\ op' = [pc |-> "write", by |-> x, rec |-> MessageRecord(mem', mgr[x].run, saves + 1),
                   conv |-> mem'.run[mgr[x].run].conv]
         /\ used' = used \cup {mem'.run[mgr[x].run].thread}
         /\ mgr' = [mgr EXCEPT ![x].pc = "saving"]
         /\ saves' = saves + 1
         /\ UNCHANGED <<file, up, crashes, errors, acked>>
         /\ Sound(mem') /\ (\A r : Known(mem', r) <=> r = mgr[x].run \/ Known(mem, r))
         /\ \A r \in Runs : Known(mem, r) => mem'.run[r].conv = mem.run[r].conv
         /\ mem'.run[mgr[x].run].complete = complete
         /\ op'.rec \in MessageRecords /\ op' \in OpRecords
<1>. DEFINE m == mgr[x]
<1>1. m.pc = "run" /\ m \in MgrRecords
  BY StateFields DEF Save, TypeOK
<1>2. m.prev = None \/ Known(mem, m.prev)
  BY <1>1, StateFields DEF TypeOK
<1>3. PICK fresh \in IF Branches(mem, m.run, m.prev) THEN Fresh(Threads) ELSE {None} :
          /\ mem' = SaveInMemory(mem, m.run, m.prev, m.thread, m.conv, saves + 1, complete, fresh)
          /\ op' = [pc |-> "write", by |-> x, rec |-> MessageRecord(mem', m.run, saves + 1),
                    conv |-> mem'.run[m.run].conv]
          /\ used' = used \cup {mem'.run[m.run].thread}
  BY DEF Save
<1>4. Branches(mem, m.run, m.prev) => fresh \in Threads \ used
  BY <1>3 DEF Fresh
<1>5. m.run \in Runs /\ m.prev \in Runs \cup {None} /\ m.thread \in Threads /\ m.conv \in Convs
      /\ saves + 1 \in Nat /\ Sound(mem)
  BY <1>1 DEF MgrRecords, TypeOK
<1>. HIDE DEF m
<1>6. /\ Sound(mem') /\ (\A r : Known(mem', r) <=> r = m.run \/ Known(mem, r))
      /\ \A r \in Runs : Known(mem, r) => mem'.run[r].conv = mem.run[r].conv
      /\ mem'.run[m.run].complete = complete
      /\ MessageRecord(mem', m.run, saves + 1) \in MessageRecords
  <2>. DEFINE n == SaveInMemory(mem, m.run, m.prev, m.thread, m.conv, saves + 1, complete, fresh)
  <2>1. Branches(mem, m.run, m.prev) => fresh \in Threads
    BY <1>4
  <2>2. /\ Sound(n) /\ (\A r : Known(n, r) <=> r = m.run \/ Known(mem, r))
        /\ \A r \in Runs : Known(mem, r) => n.run[r].conv = mem.run[r].conv
        /\ n.run[m.run].complete = complete
        /\ MessageRecord(n, m.run, saves + 1) \in MessageRecords
    BY <1>2, <1>5, <2>1, SaveSound
  <2>3. mem' = n
    BY <1>3
  <2>. HIDE DEF n
  <2>. QED
    BY <2>2, <2>3
<1>7. op' \in OpRecords /\ op'.rec \in MessageRecords
  <2>1. mem'.run[m.run].conv \in Convs
    BY <1>6 DEF MessageRecords, MessageRecord
  <2>. QED
    BY <1>3, <1>6, <2>1 DEF OpRecords, Records
<1>8. /\ up = "up" /\ op = NoOp /\ mgr' = [mgr EXCEPT ![x].pc = "saving"]
      /\ saves' = saves + 1 /\ UNCHANGED <<file, up, crashes, errors, acked>>
  BY DEF Save
<1>. QED
  BY <1>1, <1>2, <1>3, <1>4, <1>6, <1>7, <1>8 DEF m

\* A manager that begins or ends a save.
LEMMA MgrPc ==
  ASSUME TypeOK, NEW x \in Managers, mgr[x] \in MgrRecords, NEW p \in {"run", "saving"},
         mgr' = [mgr EXCEPT ![x].pc = p]
  PROVE  /\ mgr' \in [Managers -> MgrRecords \cup {Idle}] /\ mgr'[x] \in MgrRecords /\ mgr'[x].pc = p
         /\ mgr'[x].thread = mgr[x].thread /\ mgr'[x].prev = mgr[x].prev
         /\ mgr'[x].conv = mgr[x].conv /\ mgr'[x].run = mgr[x].run
         /\ \A z \in Managers : z # x => mgr'[z] = mgr[z]
<1>1. mgr \in [Managers -> MgrRecords \cup {Idle}]
  BY DEF TypeOK
<1>. DEFINE y == [mgr[x] EXCEPT !.pc = p]
<1>2. /\ y \in MgrRecords /\ y.pc = p /\ y.thread = mgr[x].thread
      /\ y.prev = mgr[x].prev /\ y.conv = mgr[x].conv /\ y.run = mgr[x].run
  BY DEF MgrRecords
<1>3. mgr' = [mgr EXCEPT ![x] = y]
  OBVIOUS
<1>. HIDE DEF y
<1>. QED
  BY <1>1, <1>2, <1>3

\* A save keeps the types.
LEMMA SaveTypeOK ==
  ASSUME TypeOK, NEW x \in Managers, NEW complete \in BOOLEAN, Save(x, complete)
  PROVE  TypeOK'
<1>1. /\ up = "up" /\ op = NoOp /\ mgr[x] \in MgrRecords
      /\ op'.by = x /\ mgr' = [mgr EXCEPT ![x].pc = "saving"] /\ saves' = saves + 1
      /\ UNCHANGED <<file, up, crashes, errors, acked>>
      /\ Sound(mem') /\ (\A r : Known(mem, r) => Known(mem', r))
      /\ op' \in OpRecords
  BY SaveFacts
<1>2. /\ mgr' \in [Managers -> MgrRecords \cup {Idle}] /\ mgr'[x] \in MgrRecords /\ mgr'[x].pc = "saving"
      /\ mgr'[x].prev = mgr[x].prev /\ \A z \in Managers : z # x => mgr'[z] = mgr[z]
  BY <1>1, MgrPc
<1>3. \A z \in Managers : mgr'[z].pc = "saving" <=> op' # NoOp /\ op'.by = z
  BY <1>1, <1>2, StateFields DEF TypeOK
<1>4. \A z \in Managers : mgr'[z] # Idle /\ mgr'[z].prev # None => Known(mem', mgr'[z].prev)
  BY <1>1, <1>2, StateFields DEF TypeOK
<1>. QED
  BY <1>1, <1>2, <1>3, <1>4 DEF TypeOK

\* What a saved summary reads and what it changes.
LEMMA SaveSummaryFacts ==
  ASSUME TypeOK, NEW x \in Managers, SaveSummary(x)
  PROVE  /\ up = "up" /\ op = NoOp /\ mgr[x] \in MgrRecords /\ mgr[x].pc = "run"
         /\ mgr[x].prev \in Runs /\ Known(mem, mgr[x].prev)
         /\ \E r \in Runs : /\ mem' = SaveSummaryInMemory(mem, mgr[x].thread, r)
                            /\ op' = [pc |-> "write", by |-> x, rec |-> SummaryRecord(mgr[x].thread, r),
                                      conv |-> mgr[x].conv]
                            /\ SummaryRecord(mgr[x].thread, r) \in SummaryRecords
         /\ op' \in OpRecords /\ op'.rec \in SummaryRecords
         /\ mgr' = [mgr EXCEPT ![x].pc = "saving"]
         /\ saves' = saves + 1
         /\ Sound(mem') /\ mem'.run = mem.run /\ mem'.thread = mem.thread
         /\ \A r : Known(mem', r) <=> Known(mem, r)
         /\ UNCHANGED <<file, up, used, crashes, errors, acked>>
<1>. DEFINE m == mgr[x]
<1>1. m.pc = "run" /\ m \in MgrRecords /\ m.prev # None /\ Known(mem, m.prev)
  BY StateFields DEF SaveSummary, TypeOK
<1>2. m.thread \in Threads /\ m.prev \in Runs /\ m.conv \in Convs /\ Sound(mem)
  BY <1>1 DEF MgrRecords, TypeOK
<1>. DEFINE runs == Load(mem, m.thread, m.prev).runs
<1>3. PICK r \in ToSet(runs) : /\ mem' = SaveSummaryInMemory(mem, m.thread, r)
                               /\ op' = [pc |-> "write", by |-> x, rec |-> SummaryRecord(m.thread, r), conv |-> m.conv]
  BY DEF SaveSummary
<1>4. runs \in Seq(Runs)
  BY <1>2, LoadIsPart
<1>. HIDE DEF runs
<1>5. r \in Runs
  BY <1>3, <1>4 DEF ToSet
<1>. HIDE DEF m
<1>6. SummaryRecord(m.thread, r) \in SummaryRecords
  BY <1>2, <1>5 DEF SummaryRecord, SummaryRecords
<1>7. op' \in OpRecords /\ op'.rec \in SummaryRecords
  BY <1>2, <1>3, <1>6 DEF OpRecords, Records
<1>8. Sound(mem') /\ mem'.run = mem.run /\ mem'.thread = mem.thread
  <2>. DEFINE n == SaveSummaryInMemory(mem, m.thread, r)
  <2>1. Sound(n) /\ n.run = mem.run /\ n.thread = mem.thread
    BY <1>2, <1>5, SummarySound
  <2>2. mem' = n
    BY <1>3
  <2>. HIDE DEF n
  <2>. QED
    BY <2>1, <2>2
<1>9. \A z : Known(mem', z) <=> Known(mem, z)
  BY <1>8 DEF Known
<1>10. /\ up = "up" /\ op = NoOp /\ mgr' = [mgr EXCEPT ![x].pc = "saving"] /\ saves' = saves + 1
       /\ UNCHANGED <<file, up, used, crashes, errors, acked>>
  BY DEF SaveSummary
<1>. QED
  BY <1>1, <1>2, <1>3, <1>5, <1>6, <1>7, <1>8, <1>9, <1>10 DEF m

\* A saved summary keeps the types.
LEMMA SaveSummaryTypeOK ==
  ASSUME TypeOK, NEW x \in Managers, SaveSummary(x)
  PROVE  TypeOK'
<1>1. /\ up = "up" /\ op = NoOp /\ mgr[x] \in MgrRecords
      /\ op'.by = x /\ mgr' = [mgr EXCEPT ![x].pc = "saving"] /\ saves' = saves + 1
      /\ UNCHANGED <<file, up, used, crashes, errors, acked>>
      /\ Sound(mem') /\ (\A r : Known(mem', r) <=> Known(mem, r))
      /\ op' \in OpRecords
  BY SaveSummaryFacts
<1>2. /\ mgr' \in [Managers -> MgrRecords \cup {Idle}] /\ mgr'[x] \in MgrRecords /\ mgr'[x].pc = "saving"
      /\ mgr'[x].prev = mgr[x].prev /\ \A z \in Managers : z # x => mgr'[z] = mgr[z]
  BY <1>1, MgrPc
<1>3. \A z \in Managers : mgr'[z].pc = "saving" <=> op' # NoOp /\ op'.by = z
  BY <1>1, <1>2, StateFields DEF TypeOK
<1>4. \A z \in Managers : mgr'[z] # Idle /\ mgr'[z].prev # None => Known(mem', mgr'[z].prev)
  BY <1>1, <1>2, StateFields DEF TypeOK
<1>. QED
  BY <1>1, <1>2, <1>3, <1>4 DEF TypeOK

\* The save that holds the mutex.
LEMMA OpFields ==
  ASSUME TypeOK, op # NoOp
  PROVE  /\ op \in OpRecords /\ op.by \in Managers /\ op.rec \in Records /\ op.conv \in Convs
         /\ op.pc \in {"write", "sync"} /\ up = "up"
         /\ mgr[op.by] \in MgrRecords /\ mgr[op.by].pc = "saving"
<1>1. op \in OpRecords /\ up = "up"
  BY DEF TypeOK
<1>2. op.by \in Managers /\ op.rec \in Records /\ op.conv \in Convs /\ op.pc \in {"write", "sync"}
  BY <1>1 DEF OpRecords
<1>3. mgr[op.by].pc = "saving"
  BY <1>2 DEF TypeOK
<1>. QED
  BY <1>1, <1>2, <1>3, StateFields DEF TypeOK

\* A write keeps the types, and goes on to the sync with the same record.
LEMMA WriteTypeOK ==
  ASSUME TypeOK, Write
  PROVE  TypeOK' /\ op' \in OpRecords /\ op'.by = op.by /\ op'.rec = op.rec /\ op'.conv = op.conv /\ op'.pc = "sync"
<1>1. op # NoOp
  BY StateFields DEF Write
<1>2. op \in OpRecords /\ op.rec \in Records /\ op.conv \in Convs
  BY <1>1, OpFields
<1>3. file' \in [Convs -> Files]
  BY <1>2, WrittenTyped DEF Write, TypeOK
<1>4. op' = [op EXCEPT !.pc = "sync"]
  BY DEF Write
<1>5. op' \in OpRecords /\ op'.by = op.by /\ op'.rec = op.rec /\ op'.conv = op.conv /\ op'.pc = "sync"
  BY <1>2, <1>4 DEF OpRecords
<1>6. UNCHANGED <<mem, up, mgr, saves, errors, acked>>
  BY DEF Write
<1>. QED
  BY <1>1, <1>3, <1>5, <1>6, StateFields DEF TypeOK

\* A sync keeps the types.
LEMMA SyncTypeOK ==
  ASSUME TypeOK, Sync
  PROVE  TypeOK'
<1>1. op # NoOp
  BY StateFields DEF Sync
<1>2. op \in OpRecords /\ op.rec \in Records /\ op.by \in Managers /\ mgr[op.by] \in MgrRecords
  BY <1>1, OpFields
<1>3. UNCHANGED <<mem, file, up, saves, errors>> /\ op' = NoOp
  BY DEF Sync
<1>4. acked' \in Seq(Acks)
  <2>1. CASE op.rec.type = "summary"
    BY <2>1 DEF Sync, TypeOK
  <2>2. CASE op.rec.type # "summary"
    <3>1. op.rec \in MessageRecords
      BY <1>2, <2>2, NotJunk DEF Records
    <3>2. [run |-> op.rec.run, inc |-> op.rec.inc] \in Acks
      BY <3>1 DEF MessageRecords, Acks
    <3>3. acked' = Append(acked, [run |-> op.rec.run, inc |-> op.rec.inc])
      BY <2>2 DEF Sync
    <3>. QED
      BY <3>2, <3>3 DEF TypeOK
  <2>. QED
    BY <2>1, <2>2
<1>5. /\ mgr' \in [Managers -> MgrRecords \cup {Idle}] /\ \A z \in Managers : z # op.by => mgr'[z] = mgr[z]
      /\ mgr'[op.by] = Idle \/ (mgr'[op.by].pc = "run" /\ mgr'[op.by].prev = mgr[op.by].prev)
  <2>1. CASE mgr' = [mgr EXCEPT ![op.by] = Idle]
    BY <1>2, <2>1 DEF TypeOK
  <2>2. CASE mgr' = [mgr EXCEPT ![op.by].pc = "run"]
    BY <1>2, <2>2, MgrPc
  <2>. QED
    BY <2>1, <2>2 DEF Sync
<1>6. \A z \in Managers : mgr'[z].pc # "saving"
  BY <1>2, <1>5, StateFields DEF TypeOK
<1>7. \A z \in Managers : mgr'[z] # Idle /\ mgr'[z].prev # None => Known(mem', mgr'[z].prev)
  BY <1>2, <1>3, <1>5, StateFields DEF TypeOK
<1>. QED
  BY <1>1, <1>3, <1>4, <1>5, <1>6, <1>7, StateFields DEF TypeOK

\* A manager that leaves keeps the types.
LEMMA LeaveTypeOK ==
  ASSUME TypeOK, NEW x \in Managers, Leave(x)
  PROVE  TypeOK'
BY StateFields DEF TypeOK, Leave

\* A failing write keeps the types.
LEMMA WriteFailsTypeOK ==
  ASSUME TypeOK, WriteFails
  PROVE  TypeOK'
<1>1. op # NoOp
  BY StateFields DEF WriteFails
<1>2. op \in OpRecords /\ op.rec \in Records /\ op.by \in Managers /\ op.conv \in Convs
  BY <1>1, OpFields
<1>3. file' \in [Convs -> Files]
  BY <1>2, WrittenTyped DEF WriteFails, TypeOK
<1>4. /\ mgr' = [mgr EXCEPT ![op.by] = Idle] /\ op' = NoOp /\ errors' = errors + 1
      /\ UNCHANGED <<mem, up, saves, acked>>
  BY DEF WriteFails
<1>. QED
  BY <1>1, <1>2, <1>3, <1>4, StateFields DEF TypeOK

\* A failing sync keeps the types.
LEMMA SyncFailsTypeOK ==
  ASSUME TypeOK, SyncFails
  PROVE  TypeOK'
<1>1. op # NoOp
  BY StateFields DEF SyncFails
<1>2. op.by \in Managers
  BY <1>1, OpFields
<1>3. /\ mgr' = [mgr EXCEPT ![op.by] = Idle] /\ op' = NoOp /\ errors' = errors + 1
      /\ UNCHANGED <<mem, file, up, saves, acked>>
  BY DEF SyncFails
<1>. QED
  BY <1>1, <1>2, <1>3, StateFields DEF TypeOK

\* A crash keeps the types.
LEMMA CrashTypeOK ==
  ASSUME TypeOK, Crash
  PROVE  TypeOK'
<1>1. /\ up' = "down" /\ op' = NoOp /\ mem' = EmptyMem /\ mgr' = [x \in Managers |-> Idle]
      /\ UNCHANGED <<saves, errors, acked>>
  BY DEF Crash
<1>2. Sound(mem')
  BY <1>1, EmptySound
<1>3. file' \in [Convs -> Files]
  <2>1. CASE op.pc = "write"
    <3>1. op.rec \in Records /\ op.conv \in Convs
      BY <2>1, StateFields, OpFields
    <3>. QED
      BY <2>1, <3>1, WrittenTyped DEF Crash, TypeOK
  <2>2. CASE op.pc = "sync" /\ Last(file[op.conv].lines) = op.rec
    <3>1. op.rec \in Records /\ op.conv \in Convs
      BY <2>2, StateFields, OpFields
    <3>2. [file[op.conv] EXCEPT !.lines = Front(@)] \in Files
      BY <3>1, FrontTyped DEF TypeOK
    <3>3. PICK f \in PartlyWritten([file[op.conv] EXCEPT !.lines = Front(@)], op.rec) \cup {file[op.conv]} :
             file' = [file EXCEPT ![op.conv] = f]
      BY <2>2 DEF Crash
    <3>4. f \in Files
      BY <3>1, <3>2, <3>3, WrittenTyped DEF TypeOK
    <3>. QED
      BY <3>1, <3>3, <3>4 DEF TypeOK
  <2>3. CASE op.pc # "write" /\ ~(op.pc = "sync" /\ Last(file[op.conv].lines) = op.rec)
    BY <2>3 DEF Crash, TypeOK
  <2>. QED
    BY <2>1, <2>2, <2>3
<1>. QED
  BY <1>1, <1>2, <1>3, StateFields DEF TypeOK

\* Opening the files keeps the types.
LEMMA OpenTypeOK ==
  ASSUME TypeOK, Open
  PROVE  TypeOK'
<1>1. up = "down" /\ op = NoOp /\ (\A x \in Managers : mgr[x] = Idle) /\ UNCHANGED <<file, op, mgr, saves, errors, acked>>
  BY DEF Open, TypeOK
<1>2. Sound(mem') /\ up' \in {"up", "broken"}
  <2>1. CASE Replayable(file)
    <3>1. \A c \in Convs : Readable(file[c]) \in Seq(Records)
      BY <2>1, ReadableLines DEF Replayable, TypeOK
    <3>. QED
      BY <2>1, <3>1, ReplaySound DEF Open
  <2>2. CASE ~Replayable(file)
    BY <2>2 DEF Open, TypeOK
  <2>. QED
    BY <2>1, <2>2
<1>. QED
  BY <1>1, <1>2, StateFields DEF TypeOK

\* Every step keeps the types.
LEMMA NextTypeOK ==
  ASSUME TypeOK, [Next]_vars
  PROVE  TypeOK'
<1>1. CASE UNCHANGED vars
  BY <1>1 DEF TypeOK, vars
<1>2. CASE Next
  BY <1>2, NewRunTypeOK, SaveTypeOK, SaveSummaryTypeOK, LeaveTypeOK, WriteTypeOK, SyncTypeOK,
     WriteFailsTypeOK, SyncFailsTypeOK, CrashTypeOK, OpenTypeOK DEF Next
<1>. QED
  BY <1>1, <1>2

\* The variables keep their types, whatever managers work on one thread,
\* whichever writes fail and wherever the process dies.
THEOREM TypeCorrect == Spec => []TypeOK
<1>1. Init => TypeOK
  BY InitTypeOK
<1>2. TypeOK /\ [Next]_vars => TypeOK'
  BY NextTypeOK
<1>. QED
  BY <1>1, <1>2, PTL DEF Spec

-----------------------------------------------------------------------------
(* The managers and the memory, when a claim keeps managers apart.         *)

\* The save of x under way makes its run complete.
Completing(x) == op # NoOp /\ op.by = x /\ op.rec.type = "message" /\ op.rec.complete

\* The ids a manager holds are minted.  Its thread is empty until its first run
\* is saved, or else goes on from a run that is at home there and is complete
\* unless it is the manager's own.
MgrFits(x) ==
  LET y == mgr[x]
  IN  /\ y.thread \in used /\ y.run \in used
      /\ y.prev = None /\ ~Known(mem, y.run) => mem.thread[y.thread] = NoThread
      /\ y.prev # None =>
           /\ mem.run[y.prev].thread = y.thread /\ mem.run[y.prev].conv = y.conv
           /\ ~Known(mem, y.run) => mem.run[y.prev].complete
      /\ Known(mem, y.run) /\ mem.run[y.run].complete => Completing(x)

\* Two managers have two runs, and no other works where x starts a thread.
Apart(x, z) ==
  /\ mgr[x].run # mgr[z].run
  /\ mgr[x].prev = None /\ ~Known(mem, mgr[x].run) => mgr[z].thread # mgr[x].thread

\* The message under way is what the memory says of its manager's run.
OpFits ==
  op # NoOp /\ op.rec.type = "message" =>
    op.rec.run = mgr[op.by].run /\ Known(mem, op.rec.run) /\ mem.run[op.rec.run].complete = op.rec.complete

Settled ==
  /\ Good(mem) /\ IdsIn(mem, used)
  /\ \A x \in Managers : mgr[x] # Idle => MgrFits(x)
  /\ \A x, z \in Managers : x # z /\ mgr[x] # Idle /\ mgr[z] # Idle => Apart(x, z)
  /\ OpFits

MemInv == up = "up" /\ errors = 0 => Settled

\* More used ids: a memory's ids are still among them.
LEMMA IdsGrow ==
  ASSUME NEW m, NEW ids, IdsIn(m, ids), NEW more
  PROVE  IdsIn(m, ids \cup more)
BY DEF IdsIn

\* A thread some run lives in exists.
LEMMA HomeExists ==
  ASSUME NEW m, Sound(m), NEW r, Known(m, r)
  PROVE  /\ m.run[r].thread \in Threads /\ m.run[r].conv \in Convs /\ m.thread[m.run[r].thread] # NoThread
         /\ m.run[r] \in RunRecords
<1>1. r \in Runs /\ m.run[r] \in RunRecords
  BY MemFields DEF Sound
<1>. QED
  BY <1>1 DEF Sound, RunRecords

\* A new manager fits the memory, and the claim keeps it apart from the others.
LEMMA NewRunSettled ==
  ASSUME TypeOK, Settled, ~Concurrent,
         NEW x \in Managers, NEW t \in Threads, NEW asked \in Runs \cup {None}, NewRun(x, t, asked)
  PROVE  Settled'
<1>1. up = "up" /\ mgr[x] = Idle /\ UNCHANGED <<mem, file, up, op, saves, crashes, errors, acked>>
  BY NewRunFacts
<1>2. PICK y \in MgrRecords :
         /\ mgr' = [mgr EXCEPT ![x] = y] /\ y.pc = "run"
         /\ \/ /\ y.prev = None /\ y.thread = t /\ y.run \notin used
               /\ mem.thread[t].runs = <<>>
               /\ used' = used \cup {y.run, t, y.conv}
            \/ /\ Known(mem, y.prev) /\ y.thread = mem.run[y.prev].thread /\ y.conv = mem.run[y.prev].conv
               /\ \E i \in DOMAIN mem.thread[t].runs : mem.thread[t].runs[i] = y.prev
               /\ IF mem.run[y.prev].complete THEN y.run \notin used ELSE y.run = y.prev
               /\ used' = used \cup {y.run}
  BY NewRunFacts
<1>3. \A z \in Managers : mgr'[z] = IF z = x THEN y ELSE mgr[z]
  BY <1>2 DEF TypeOK
<1>4. \A z \in Managers : mgr[z].thread # t /\ ~WorksIn(z, t)
  BY DEF NewRun
<1>5. Sound(mem) /\ Good(mem) /\ IdsIn(mem, used)
  BY DEF TypeOK, Settled
<1>6. y.run \in Runs /\ y.thread \in Threads /\ y # Idle
  BY StateFields DEF MgrRecords
<1>7. y.prev # None => Known(mem, y.prev) /\ y.thread = mem.run[y.prev].thread
  BY <1>2
<1>8. MgrFits(x)'
  <2>1. CASE y.prev = None
    <3>1. y.thread = t /\ y.run \notin used /\ mem.thread[t].runs = <<>> /\ used' = used \cup {y.run, t, y.conv}
      BY <1>2, <2>1, NoneIsNoId DEF Known
    <3>2. mem.thread[t] = NoThread
      BY <1>5, <3>1 DEF Good, Chained
    <3>3. ~Known(mem, y.run)
      BY <1>5, <3>1 DEF IdsIn, Known
    <3>. QED
      BY <1>1, <1>3, <2>1, <3>1, <3>2, <3>3 DEF MgrFits
  <2>2. CASE y.prev # None
    <3>1. /\ Known(mem, y.prev) /\ y.thread = mem.run[y.prev].thread /\ y.conv = mem.run[y.prev].conv
          /\ IF mem.run[y.prev].complete THEN y.run \notin used ELSE y.run = y.prev
          /\ used' = used \cup {y.run}
      BY <1>2, <2>2
    <3>2. y.thread \in used
      BY <1>5, <1>6, <3>1, HomeExists DEF IdsIn
    <3>3. CASE mem.run[y.prev].complete
      <4>1. ~Known(mem, y.run)
        BY <1>5, <3>1, <3>3 DEF IdsIn, Known
      <4>. QED
        BY <1>1, <1>3, <2>2, <3>1, <3>2, <3>3, <4>1 DEF MgrFits
    <3>4. CASE ~mem.run[y.prev].complete
      BY <1>1, <1>3, <2>2, <3>1, <3>2, <3>4 DEF MgrFits
    <3>. QED
      BY <3>3, <3>4
  <2>. QED
    BY <2>1, <2>2
<1>9. ASSUME NEW z \in Managers, mgr[z] # Idle PROVE z # x /\ MgrFits(z)'
  <2>1. MgrFits(z) /\ z # x
    BY <1>1, <1>9 DEF Settled
  <2>2. used \subseteq used'
    BY <1>2
  <2>3. Completing(z) <=> Completing(z)'
    BY <1>1 DEF Completing
  <2>. QED
    BY <1>1, <1>3, <2>1, <2>2, <2>3 DEF MgrFits
<1>10. ASSUME NEW z \in Managers, mgr[z] # Idle PROVE Apart(x, z)' /\ Apart(z, x)'
  <2>1. MgrFits(z) /\ z # x /\ mgr'[x] = y /\ mgr'[z] = mgr[z]
    BY <1>1, <1>3, <1>10 DEF Settled
  <2>2. y.run # mgr[z].run
    <3>1. CASE y.run \notin used
      BY <2>1, <3>1 DEF MgrFits
    <3>2. CASE y.run \in used
      <4>1. Known(mem, y.prev) /\ y.run = y.prev /\ ~mem.run[y.prev].complete
        BY <1>2, <3>2
      <4>2. PICK i \in DOMAIN mem.thread[t].runs : mem.thread[t].runs[i] = y.prev
        BY <1>2, <3>2
      <4>3. mem.run[y.run].thread = t
        BY <1>5, <4>1, <4>2, IncompleteIsLast
      <4>. QED
        BY <1>4, <4>1, <4>3 DEF WorksIn
    <3>. QED
      BY <3>1, <3>2
  <2>3. y.prev = None => y.thread = t
    BY <1>2, NoneIsNoId DEF Known
  <2>4. mgr[z].prev = None /\ ~Known(mem, mgr[z].run) => mgr[z].thread # y.thread
    <3>. SUFFICES ASSUME mgr[z].prev = None, ~Known(mem, mgr[z].run), mgr[z].thread = y.thread PROVE FALSE
      OBVIOUS
    <3>1. mem.thread[y.thread] = NoThread
      BY <2>1 DEF MgrFits
    <3>2. y.prev = None
      BY <1>5, <1>7, <3>1, HomeExists
    <3>. QED
      BY <1>4, <2>3, <3>2
  <2>. QED
    BY <1>1, <1>4, <2>1, <2>2, <2>3, <2>4 DEF Apart
<1>11. \A w, z \in Managers : w # z /\ mgr'[w] # Idle /\ mgr'[z] # Idle => Apart(w, z)'
  <2>. SUFFICES ASSUME NEW w \in Managers, NEW z \in Managers, w # z, mgr'[w] # Idle, mgr'[z] # Idle
                PROVE  Apart(w, z)'
    OBVIOUS
  <2>1. CASE w # x /\ z # x
    BY <1>1, <1>3, <2>1 DEF Apart, Settled
  <2>. QED
    BY <1>3, <1>10, <2>1
<1>12. \A z \in Managers : mgr'[z] # Idle => MgrFits(z)'
  BY <1>3, <1>8, <1>9
<1>13. IdsIn(mem', used')
  <2>1. \E more : used' = used \cup more
    BY <1>2
  <2>. QED
    BY <1>1, <1>5, <2>1, IdsGrow
<1>14. OpFits'
  <2>. SUFFICES ASSUME op # NoOp, op.rec.type = "message"
                PROVE  /\ op.rec.run = mgr'[op.by].run /\ Known(mem, op.rec.run)
                       /\ mem.run[op.rec.run].complete = op.rec.complete
    BY <1>1 DEF OpFits
  <2>1. op.by \in Managers /\ mgr[op.by] \in MgrRecords
    BY OpFields
  <2>2. mgr'[op.by] = mgr[op.by]
    BY <1>1, <1>3, <2>1, StateFields
  <2>3. OpFits
    BY DEF Settled
  <2>. QED
    BY <2>2, <2>3 DEF OpFits
<1>15. Good(mem')
  BY <1>1, <1>5
<1>. QED
  BY <1>11, <1>12, <1>13, <1>14, <1>15 DEF Settled

\* What a save does to a settled memory: its record applied, and nothing to the
\* other runs and threads.
LEMMA SaveInSettled ==
  ASSUME TypeOK, Settled, NEW x \in Managers, NEW complete \in BOOLEAN, Save(x, complete)
  PROVE  LET r == mgr[x].run
             h == mem'.run[r].thread
         IN  /\ Good(mem') /\ mem' = ApplyRecord(mem, op'.rec)
             /\ \A z \in Runs : z # r => mem'.run[z] = mem.run[z]
             /\ Known(mem, r) => mem'.thread = mem.thread /\ mem'.run[r].thread = mem.run[r].thread
                                  /\ ~mem.run[r].complete
             /\ ~Known(mem, r) => \A t \in Threads : t # h => mem'.thread[t] = mem.thread[t]
             /\ ~Known(mem, r) => \/ h \notin used
                                  \/ mgr[x].prev = None /\ h = mgr[x].thread
                                  \/ Known(mem, mgr[x].prev) /\ h = mem.run[mgr[x].prev].thread
<1>. DEFINE m == mgr[x]
<1>1. /\ up = "up" /\ op = NoOp /\ m \in MgrRecords /\ m.pc = "run"
      /\ m.prev = None \/ Known(mem, m.prev)
      /\ op'.rec = MessageRecord(mem', m.run, saves + 1)
  BY SaveFacts
<1>2. PICK fresh : /\ Branches(mem, m.run, m.prev) => fresh \in Threads \ used
                   /\ mem' = SaveInMemory(mem, m.run, m.prev, m.thread, m.conv, saves + 1, complete, fresh)
  BY SaveFacts
<1>3. m.run \in Runs /\ m.prev \in Runs \cup {None} /\ m.thread \in Threads /\ m.conv \in Convs
      /\ saves + 1 \in Nat
  BY <1>1 DEF MgrRecords, TypeOK
<1>4. MgrFits(x) /\ Good(mem) /\ IdsIn(mem, used)
  BY <1>1, StateFields DEF Settled
<1>5. /\ m.prev = None /\ ~Known(mem, m.run) => mem.thread[m.thread] = NoThread
      /\ m.prev # None /\ ~Known(mem, m.run) => mem.run[m.prev].complete
      /\ Known(mem, m.run) => mem.run[m.run].complete # TRUE
  BY <1>1, <1>4 DEF MgrFits, Completing
<1>6. Branches(mem, m.run, m.prev) => fresh \in Threads /\ mem.thread[fresh] = NoThread /\ fresh \notin used
  BY <1>2, <1>4 DEF IdsIn
<1>. HIDE DEF m
<1>7. Known(mem, m.run) => ~mem.run[m.run].complete
  <2>1. Known(mem, m.run) => mem.run[m.run] \in RunRecords
    BY <1>4, HomeExists DEF Good
  <2>. QED
    BY <1>5, <2>1 DEF RunRecords
<1>. DEFINE n == SaveInMemory(mem, m.run, m.prev, m.thread, m.conv, saves + 1, complete, fresh)
<1>8. /\ Good(n)
      /\ n = ApplyRecord(mem, MessageRecord(n, m.run, saves + 1))
      /\ \A z \in Runs : z # m.run => n.run[z] = mem.run[z]
      /\ Known(mem, m.run) => n.thread = mem.thread /\ n.run[m.run].thread = mem.run[m.run].thread
      /\ ~Known(mem, m.run) => /\ n.run[m.run].thread = SavedThread(mem, m.run, m.prev, m.thread, fresh)
                               /\ \A t \in Threads : t # n.run[m.run].thread => n.thread[t] = mem.thread[t]
  BY <1>1, <1>3, <1>4, <1>5, <1>6, <1>7, SaveGood
<1>9. mem' = n
  BY <1>2
<1>. HIDE DEF n
<1>10. LET h == SavedThread(mem, m.run, m.prev, m.thread, fresh)
       IN  \/ h \notin used
           \/ m.prev = None /\ h = m.thread
           \/ Known(mem, m.prev) /\ h = mem.run[m.prev].thread
  BY <1>1, <1>6 DEF SavedThread
<1>11. ~Known(mem, m.run) => \/ n.run[m.run].thread \notin used
                             \/ m.prev = None /\ n.run[m.run].thread = m.thread
                             \/ Known(mem, m.prev) /\ n.run[m.run].thread = mem.run[m.prev].thread
  BY <1>8, <1>10
<1>. QED
  BY <1>1, <1>7, <1>8, <1>9, <1>11 DEF m

\* A save keeps the memory good, and every other manager fits it as before.
LEMMA SaveSettled ==
  ASSUME TypeOK, Settled, NEW x \in Managers, NEW complete \in BOOLEAN, Save(x, complete)
  PROVE  Settled'
<1>. DEFINE r == mgr[x].run
            h == mem'.run[r].thread
<1>1. /\ up = "up" /\ op = NoOp /\ mgr[x] \in MgrRecords
      /\ op'.by = x /\ op'.rec = MessageRecord(mem', r, saves + 1) /\ op' # NoOp
      /\ used' = used \cup {h} /\ mgr' = [mgr EXCEPT ![x].pc = "saving"]
      /\ Sound(mem') /\ (\A z : Known(mem', z) <=> z = r \/ Known(mem, z))
      /\ \A z \in Runs : Known(mem, z) => mem'.run[z].conv = mem.run[z].conv
      /\ mem'.run[r].complete = complete
  BY SaveFacts, StateFields
<1>2. /\ Good(mem') /\ \A z \in Runs : z # r => mem'.run[z] = mem.run[z]
      /\ Known(mem, r) => mem'.thread = mem.thread /\ mem'.run[r].thread = mem.run[r].thread /\ ~mem.run[r].complete
      /\ ~Known(mem, r) => \A t \in Threads : t # h => mem'.thread[t] = mem.thread[t]
      /\ ~Known(mem, r) => \/ h \notin used
                           \/ mgr[x].prev = None /\ h = mgr[x].thread
                           \/ Known(mem, mgr[x].prev) /\ h = mem.run[mgr[x].prev].thread
  BY SaveInSettled
<1>3. /\ mgr'[x] \in MgrRecords /\ mgr'[x].thread = mgr[x].thread /\ mgr'[x].prev = mgr[x].prev
      /\ mgr'[x].conv = mgr[x].conv /\ mgr'[x].run = mgr[x].run
      /\ \A z \in Managers : z # x => mgr'[z] = mgr[z]
  BY <1>1, MgrPc
<1>4. \A z \in Managers : mgr'[z] # Idle => mgr[z] # Idle
  BY <1>1, <1>3, StateFields
<1>5. r \in Runs /\ Good(mem) /\ Sound(mem) /\ IdsIn(mem, used) /\ mgr[x] # Idle
  BY <1>1, StateFields DEF MgrRecords, Settled, TypeOK
<1>. HIDE DEF r, h
<1>6. IdsIn(mem', used')
  <2>1. ASSUME NEW z \in Runs, Known(mem', z) PROVE z \in used'
    <3>1. r \in used
      BY <1>5 DEF Settled, MgrFits, r
    <3>. QED
      BY <1>1, <1>5, <2>1, <3>1 DEF IdsIn
  <2>2. ASSUME NEW t \in Threads, mem'.thread[t] # NoThread PROVE t \in used'
    BY <1>1, <1>2, <1>5, <2>2 DEF IdsIn
  <2>. QED
    BY <2>1, <2>2 DEF IdsIn
<1>7. MgrFits(x)'
  <2>1. MgrFits(x)
    BY <1>5 DEF Settled
  <2>2. mgr[x].thread \in used' /\ r \in used'
    BY <1>1, <2>1 DEF MgrFits, r
  <2>3. Known(mem', r)
    BY <1>1
  <2>4. ASSUME mgr[x].prev # None
        PROVE  mem'.run[mgr[x].prev].thread = mgr[x].thread /\ mem'.run[mgr[x].prev].conv = mgr[x].conv
    <3>1. Known(mem, mgr[x].prev) /\ mem.run[mgr[x].prev].thread = mgr[x].thread /\ mem.run[mgr[x].prev].conv = mgr[x].conv
      BY <1>5, <2>1, <2>4 DEF MgrFits, TypeOK
    <3>2. mgr[x].prev \in Runs
      BY <3>1 DEF Known
    <3>. QED
      BY <1>1, <1>2, <3>1, <3>2
  <2>5. mem'.run[r].complete => Completing(x)'
    BY <1>1 DEF Completing, MessageRecord
  <2>. QED
    BY <1>3, <2>2, <2>3, <2>4, <2>5 DEF MgrFits, r
<1>8. ASSUME NEW z \in Managers, z # x, mgr[z] # Idle PROVE MgrFits(z)'
  <2>. DEFINE y == mgr[z]
  <2>1. MgrFits(z) /\ Apart(z, x) /\ Apart(x, z) /\ ~Completing(z)
    BY <1>1, <1>5, <1>8 DEF Settled, Completing
  <2>2. y.thread \in used' /\ y.run \in used' /\ y.run # r
    BY <1>1, <2>1 DEF MgrFits, Apart, r
  <2>3. y.run \in Runs /\ y.thread \in Threads
    BY <1>8 DEF TypeOK, MgrRecords
  <2>4. ASSUME y.prev = None, ~Known(mem', y.run) PROVE mem'.thread[y.thread] = NoThread
    <3>1. ~Known(mem, y.run) /\ mem.thread[y.thread] = NoThread /\ y.thread \in used
      BY <1>1, <2>1, <2>4 DEF MgrFits
    <3>2. y.thread # mgr[x].thread
      BY <2>1, <2>4, <3>1 DEF Apart
    <3>3. CASE Known(mem, r)
      BY <1>2, <3>1, <3>3
    <3>4. CASE ~Known(mem, r)
      <4>1. y.thread # h
        BY <1>2, <1>5, <3>1, <3>2, <3>4, HomeExists
      <4>. QED
        BY <1>2, <2>3, <3>1, <3>4, <4>1
    <3>. QED
      BY <3>3, <3>4
  <2>5. ASSUME y.prev # None
        PROVE  /\ mem'.run[y.prev].thread = y.thread /\ mem'.run[y.prev].conv = y.conv
               /\ ~Known(mem', y.run) => mem'.run[y.prev].complete
    <3>1. /\ Known(mem, y.prev) /\ mem.run[y.prev].thread = y.thread /\ mem.run[y.prev].conv = y.conv
          /\ ~Known(mem, y.run) => mem.run[y.prev].complete
      BY <1>8, <2>1, <2>5 DEF MgrFits, TypeOK
    <3>2. y.prev \in Runs
      BY <3>1 DEF Known
    <3>. QED
      BY <1>1, <1>2, <3>1, <3>2
  <2>6. ~(Known(mem', y.run) /\ mem'.run[y.run].complete)
    BY <1>1, <1>2, <2>1, <2>2, <2>3 DEF MgrFits
  <2>. QED
    BY <1>3, <1>8, <2>2, <2>4, <2>5, <2>6 DEF MgrFits
<1>9. ASSUME NEW w \in Managers, NEW z \in Managers, w # z, mgr[w] # Idle, mgr[z] # Idle PROVE Apart(w, z)'
  <2>1. Apart(w, z)
    BY <1>9 DEF Settled
  <2>2. /\ mgr'[w].run = mgr[w].run /\ mgr'[w].prev = mgr[w].prev /\ mgr'[w].thread = mgr[w].thread
        /\ mgr'[z].run = mgr[z].run /\ mgr'[z].thread = mgr[z].thread
    BY <1>3
  <2>. QED
    BY <1>1, <2>1, <2>2 DEF Apart
<1>10. OpFits'
  BY <1>1, <1>3 DEF OpFits, MessageRecord, r
<1>. QED
  BY <1>2, <1>4, <1>6, <1>7, <1>8, <1>9, <1>10 DEF Settled

\* A saved summary keeps the memory good; its record replays to the new memory.
LEMMA SaveSummarySettled ==
  ASSUME TypeOK, Settled, NEW x \in Managers, SaveSummary(x)
  PROVE  /\ Settled' /\ mem' = ApplyRecord(mem, op'.rec)
         /\ MgrFits(x) /\ mem.thread[mgr[x].thread] # NoThread
<1>1. /\ op = NoOp /\ mgr[x] \in MgrRecords
      /\ mgr[x].prev \in Runs /\ Known(mem, mgr[x].prev)
      /\ op' \in OpRecords /\ op'.rec \in SummaryRecords
      /\ mgr' = [mgr EXCEPT ![x].pc = "saving"]
      /\ \A r : Known(mem', r) <=> Known(mem, r)
      /\ mem'.run = mem.run /\ mem'.thread = mem.thread
      /\ UNCHANGED <<file, up, used, crashes, errors, acked>>
  BY SaveSummaryFacts
<1>2. PICK r \in Runs : /\ mem' = SaveSummaryInMemory(mem, mgr[x].thread, r)
                        /\ op' = [pc |-> "write", by |-> x, rec |-> SummaryRecord(mgr[x].thread, r),
                                  conv |-> mgr[x].conv]
  BY SaveSummaryFacts
<1>3. /\ mgr'[x] \in MgrRecords /\ mgr'[x].thread = mgr[x].thread /\ mgr'[x].prev = mgr[x].prev
      /\ mgr'[x].conv = mgr[x].conv /\ mgr'[x].run = mgr[x].run
      /\ \A z \in Managers : z # x => mgr'[z] = mgr[z]
  BY <1>1, MgrPc
<1>4. \A z \in Managers : mgr'[z] # Idle => mgr[z] # Idle
  BY <1>1, <1>3, StateFields
<1>5. mgr[x] # Idle /\ mgr[x].thread \in Threads /\ Good(mem)
  BY <1>1, StateFields DEF MgrRecords, Settled
<1>6. MgrFits(x)
  BY <1>5 DEF Settled
<1>7. mem.thread[mgr[x].thread] # NoThread
  <2>1. mem.run[mgr[x].prev].thread = mgr[x].thread
    BY <1>1, <1>6, NoneIsNoId DEF MgrFits
  <2>. QED
    BY <1>1, <1>5, <2>1, HomeExists DEF Good
<1>8. Good(mem') /\ mem' = ApplyRecord(mem, op'.rec)
  <2>. DEFINE n == SaveSummaryInMemory(mem, mgr[x].thread, r)
  <2>1. Good(n) /\ n = ApplyRecord(mem, SummaryRecord(mgr[x].thread, r))
    BY <1>5, <1>7, SummaryGood
  <2>2. mem' = n /\ op'.rec = SummaryRecord(mgr[x].thread, r)
    BY <1>2
  <2>. HIDE DEF n
  <2>. QED
    BY <2>1, <2>2
<1>9. IdsIn(mem', used')
  BY <1>1 DEF IdsIn, Settled
<1>10. ASSUME NEW z \in Managers, mgr[z] # Idle PROVE MgrFits(z)'
  <2>1. MgrFits(z) /\ ~Completing(z)
    BY <1>1, <1>10 DEF Settled, Completing
  <2>2. /\ mgr'[z].run = mgr[z].run /\ mgr'[z].prev = mgr[z].prev /\ mgr'[z].thread = mgr[z].thread
        /\ mgr'[z].conv = mgr[z].conv
    BY <1>3
  <2>. QED
    BY <1>1, <2>1, <2>2 DEF MgrFits
<1>11. ASSUME NEW w \in Managers, NEW z \in Managers, w # z, mgr[w] # Idle, mgr[z] # Idle PROVE Apart(w, z)'
  <2>1. Apart(w, z)
    BY <1>11 DEF Settled
  <2>2. /\ mgr'[w].run = mgr[w].run /\ mgr'[w].prev = mgr[w].prev /\ mgr'[w].thread = mgr[w].thread
        /\ mgr'[z].run = mgr[z].run /\ mgr'[z].thread = mgr[z].thread
    BY <1>3
  <2>. QED
    BY <1>1, <2>1, <2>2 DEF Apart
<1>12. OpFits'
  BY <1>1, NotJunk DEF OpFits
<1>. QED
  BY <1>4, <1>6, <1>7, <1>8, <1>9, <1>10, <1>11, <1>12 DEF Settled

\* A write leaves memory and managers alone.
LEMMA WriteSettled ==
  ASSUME TypeOK, Settled, Write
  PROVE  Settled'
<1>1. op # NoOp /\ op' # NoOp /\ op'.by = op.by /\ op'.rec = op.rec
  BY WriteTypeOK, StateFields DEF Write
<1>2. UNCHANGED <<mem, mgr, used>>
  BY DEF Write
<1>3. \A x \in Managers : Completing(x)' <=> Completing(x)
  BY <1>1 DEF Completing
<1>4. \A x \in Managers : MgrFits(x) => MgrFits(x)'
  BY <1>2, <1>3 DEF MgrFits
<1>5. \A x, z \in Managers : Apart(x, z) => Apart(x, z)'
  BY <1>2 DEF Apart
<1>6. OpFits => OpFits'
  BY <1>1, <1>2 DEF OpFits
<1>7. Good(mem') /\ IdsIn(mem', used')
  BY <1>2 DEF Settled
<1>8. \A x \in Managers : mgr'[x] # Idle <=> mgr[x] # Idle
  BY <1>2
<1>. QED
  BY <1>4, <1>5, <1>6, <1>7, <1>8 DEF Settled

\* A sync lets the manager that waits for it go on, with what it holds.
LEMMA SyncSettled ==
  ASSUME TypeOK, Settled, Sync
  PROVE  Settled'
<1>1. op # NoOp /\ op' = NoOp /\ UNCHANGED <<mem, used>>
  BY StateFields DEF Sync
<1>2. op.by \in Managers /\ mgr[op.by] \in MgrRecords /\ mgr[op.by] # Idle /\ op.rec \in Records
  BY <1>1, OpFields, StateFields
<1>3. /\ \A z \in Managers : z # op.by => mgr'[z] = mgr[z]
      /\ \/ mgr'[op.by] = Idle
         \/ /\ ~(op.rec.type = "message" /\ op.rec.complete)
            /\ mgr'[op.by].run = mgr[op.by].run /\ mgr'[op.by].prev = mgr[op.by].prev
            /\ mgr'[op.by].thread = mgr[op.by].thread /\ mgr'[op.by].conv = mgr[op.by].conv
  <2>1. CASE mgr' = [mgr EXCEPT ![op.by] = Idle]
    BY <1>2, <2>1 DEF TypeOK
  <2>2. CASE mgr' = [mgr EXCEPT ![op.by].pc = "run"] /\ ~(op.rec.type = "message" /\ op.rec.complete)
    BY <1>2, <2>2, MgrPc
  <2>. QED
    BY <1>2, <2>1, <2>2, NotJunk DEF Sync, Records
<1>4. ASSUME NEW z \in Managers, mgr'[z] # Idle
      PROVE  /\ mgr[z] # Idle /\ ~Completing(z)
             /\ mgr'[z].run = mgr[z].run /\ mgr'[z].prev = mgr[z].prev
             /\ mgr'[z].thread = mgr[z].thread /\ mgr'[z].conv = mgr[z].conv
  BY <1>2, <1>3, <1>4 DEF Completing
<1>5. ASSUME NEW z \in Managers, mgr'[z] # Idle PROVE MgrFits(z)'
  <2>1. MgrFits(z)
    BY <1>4, <1>5 DEF Settled
  <2>2. /\ ~Completing(z)
        /\ mgr'[z].run = mgr[z].run /\ mgr'[z].prev = mgr[z].prev
        /\ mgr'[z].thread = mgr[z].thread /\ mgr'[z].conv = mgr[z].conv
    BY <1>4, <1>5
  <2>. QED
    BY <1>1, <2>1, <2>2 DEF MgrFits
<1>6. ASSUME NEW w \in Managers, NEW z \in Managers, w # z, mgr'[w] # Idle, mgr'[z] # Idle PROVE Apart(w, z)'
  <2>1. Apart(w, z)
    BY <1>4, <1>6 DEF Settled
  <2>2. /\ mgr'[w].run = mgr[w].run /\ mgr'[w].prev = mgr[w].prev /\ mgr'[w].thread = mgr[w].thread
        /\ mgr'[z].run = mgr[z].run /\ mgr'[z].thread = mgr[z].thread
    BY <1>4, <1>6
  <2>. QED
    BY <1>1, <2>1, <2>2 DEF Apart
<1>7. Good(mem') /\ IdsIn(mem', used')
  BY <1>1 DEF Settled
<1>8. OpFits'
  BY <1>1 DEF OpFits
<1>. QED
  BY <1>5, <1>6, <1>7, <1>8 DEF Settled

\* A manager that leaves holds nothing any more.
LEMMA LeaveSettled ==
  ASSUME TypeOK, Settled, NEW x \in Managers, Leave(x)
  PROVE  Settled'
<1>1. mgr[x].pc = "run" /\ mgr' = [mgr EXCEPT ![x] = Idle] /\ UNCHANGED <<mem, used, op>>
  BY DEF Leave
<1>2. \A z \in Managers : mgr'[z] # Idle => z # x /\ mgr'[z] = mgr[z]
  BY <1>1 DEF TypeOK
<1>3. \A z \in Managers : Completing(z)' <=> Completing(z)
  BY <1>1 DEF Completing
<1>4. ASSUME NEW z \in Managers, mgr'[z] # Idle PROVE MgrFits(z)'
  <2>1. MgrFits(z) /\ mgr'[z] = mgr[z]
    BY <1>2, <1>4 DEF Settled
  <2>. QED
    BY <1>1, <1>3, <2>1 DEF MgrFits
<1>5. ASSUME NEW w \in Managers, NEW z \in Managers, w # z, mgr'[w] # Idle, mgr'[z] # Idle PROVE Apart(w, z)'
  <2>1. Apart(w, z) /\ mgr'[w] = mgr[w] /\ mgr'[z] = mgr[z]
    BY <1>2, <1>5 DEF Settled
  <2>. QED
    BY <1>1, <2>1 DEF Apart
<1>6. Good(mem') /\ IdsIn(mem', used')
  BY <1>1 DEF Settled
<1>7. OpFits'
  <2>. SUFFICES ASSUME op # NoOp, op.rec.type = "message"
                PROVE  /\ op.rec.run = mgr'[op.by].run /\ Known(mem, op.rec.run)
                       /\ mem.run[op.rec.run].complete = op.rec.complete
    BY <1>1 DEF OpFits
  <2>1. op.by \in Managers /\ mgr[op.by].pc = "saving"
    BY OpFields
  <2>2. mgr'[op.by] = mgr[op.by]
    BY <1>1, <2>1 DEF TypeOK
  <2>3. OpFits
    BY DEF Settled
  <2>. QED
    BY <2>2, <2>3 DEF OpFits
<1>. QED
  BY <1>4, <1>5, <1>6, <1>7 DEF Settled

-----------------------------------------------------------------------------
(* The files and the memory.                                               *)

\* The records of a file, replayed alone, give a good memory that owns them.
FileOK(c, s, ids) ==
  LET m == ReplayLines(EmptyMem, s)
  IN  /\ s \in Seq(Records) /\ Good(m) /\ IdsIn(m, ids)
      /\ \A i \in DOMAIN s : Within(s[i], c, RunOwner(m), ThreadOwner(m))

Owned(fs, ro, to) ==
  \A c \in Convs : \A i \in DOMAIN Readable(fs[c]) : Within(Readable(fs[c])[i], c, ro, to)

\* The part of the memory that belongs to a conversation is its file, replayed,
\* and the record about to be written.
FilesMatch ==
  \A c \in Convs :
    Part(mem, c, RunOwner(mem), ThreadOwner(mem)) =
      IF op.pc = "write" /\ op.conv = c
      THEN ApplyRecord(ReplayLines(EmptyMem, Readable(file[c])), op.rec)
      ELSE ReplayLines(EmptyMem, Readable(file[c]))

\* What a crash may leave of a record that was not synced is the file before it.
Unsynced ==
  op.pc = "sync" =>
    LET f == file[op.conv]
    IN  f.lines # <<>> /\ Last(f.lines) = op.rec /\ f.tail = <<>> /\ FileOK(op.conv, Front(f.lines), used)

FilesSettled ==
  /\ \A c \in Convs : FileOK(c, file[c].lines, used) /\ FileOK(c, Readable(file[c]), used)
  /\ \E ro, to : Owned(file, ro, to)
  /\ up = "up" => FilesMatch /\ Owned(file, RunOwner(mem), ThreadOwner(mem))
  /\ op # NoOp => Within(op.rec, op.conv, RunOwner(mem), ThreadOwner(mem))
  /\ Unsynced

FileInv == errors = 0 /\ ~Glued => FilesSettled

\* More used ids: a file's ids are still among them.
LEMMA FileOKGrow ==
  ASSUME NEW c, NEW s, NEW ids, FileOK(c, s, ids), NEW more
  PROVE  FileOK(c, s, ids \cup more)
BY IdsGrow DEF FileOK

\* The fields of a record.
LEMMA RecordFields ==
  ASSUME NEW rec \in Records
  PROVE  /\ rec.thread \in Threads
         /\ rec.type = "message" => /\ rec \in MessageRecords /\ rec.run \in Runs /\ rec.prev \in Runs \cup {None}
                                    /\ rec.conv \in Convs /\ rec.inc \in Nat
         /\ rec.type # "message" => rec \in SummaryRecords
         /\ rec # Junk
BY NotJunk DEF Records, MessageRecords, SummaryRecords

\* A record belongs to a conversation by the whole memory or by its part alone.
LEMMA WithinPart ==
  ASSUME NEW m \in Mems, NEW ro, NEW to, NEW c \in Convs, NEW rec \in Records
  PROVE  LET p == Part(m, c, ro, to)
         IN  /\ Within(rec, c, RunOwner(p), ThreadOwner(p)) => Within(rec, c, RunOwner(m), ThreadOwner(m))
             /\ (ro = RunOwner(m) /\ to = ThreadOwner(m)) /\ Within(rec, c, ro, to)
                  => Within(rec, c, RunOwner(p), ThreadOwner(p))
<1>. DEFINE p == Part(m, c, ro, to)
<1>1. c # None
  BY NoneIsNoId
<1>2. /\ \A r \in Runs : p.run[r] = IF ro[r] = c THEN m.run[r] ELSE NoRun
      /\ \A t \in Threads : p.thread[t] = IF to[t] = c THEN m.thread[t] ELSE NoThread
  BY DEF Part
<1>. HIDE DEF p
<1>3. NoRun.conv = None /\ NoThread.conv = None
  BY DEF NoRun, NoThread
<1>4. /\ \A r \in Runs : RunOwner(p)[r] = p.run[r].conv /\ RunOwner(m)[r] = m.run[r].conv
      /\ \A t \in Threads : ThreadOwner(p)[t] = p.thread[t].conv /\ ThreadOwner(m)[t] = m.thread[t].conv
  BY DEF RunOwner, ThreadOwner
<1>5. /\ \A r \in Runs : RunOwner(p)[r] = c => RunOwner(m)[r] = c
      /\ \A t \in Threads : ThreadOwner(p)[t] = c => ThreadOwner(m)[t] = c
      /\ ro = RunOwner(m) => \A r \in Runs : ro[r] = c => RunOwner(p)[r] = c
      /\ to = ThreadOwner(m) => \A t \in Threads : to[t] = c => ThreadOwner(p)[t] = c
  BY <1>1, <1>2, <1>3, <1>4
<1>6. /\ rec.thread \in Threads
      /\ rec.type = "message" => rec.run \in Runs /\ rec.prev \in Runs \cup {None}
  BY RecordFields
<1>7. Within(rec, c, RunOwner(p), ThreadOwner(p)) => Within(rec, c, RunOwner(m), ThreadOwner(m))
  BY <1>5, <1>6 DEF Within
<1>8. ro = RunOwner(m) /\ to = ThreadOwner(m) /\ Within(rec, c, ro, to)
        => Within(rec, c, RunOwner(p), ThreadOwner(p))
  BY <1>5, <1>6 DEF Within
<1>. QED
  BY <1>7, <1>8 DEF p

\* What a record of a conversation adds to the memory takes nothing from the
\* conversation it is known under.
LEMMA OwnersGrow ==
  ASSUME NEW m, Good(m), NEW rec \in Records, NEW n, n = ApplyRecord(m, rec), Good(n)
  PROVE  /\ Fits(m, RunOwner(n), ThreadOwner(n))
         /\ \A c \in Convs, x \in Records :
               Within(x, c, RunOwner(m), ThreadOwner(m)) => Within(x, c, RunOwner(n), ThreadOwner(n))
<1>1. m \in Mems /\ n \in Mems /\ Sound(m)
  BY DEF Good, Sound
<1>2. /\ \A r \in Runs : Known(m, r) => n.run[r].conv = m.run[r].conv
      /\ \A t \in Threads : m.thread[t] # NoThread => n.thread[t].conv = m.thread[t].conv
  <2>1. CASE rec.type = "message"
    <3>. DEFINE h == Home(m, rec)
                u == RunAfter(m, rec)
                w == ThreadAfter(m, rec)
    <3>1. rec \in MessageRecords /\ rec.run \in Runs
      BY <2>1, RecordFields
    <3>2. n = Change(m, rec.run, h, u, w)
      BY <1>1, <3>1, ApplyIsChange
    <3>3. h \in Threads
      BY <1>1, <3>1, ApplyTyped
    <3>4. Known(m, rec.run) => u.conv = m.run[rec.run].conv
      BY DEF RunAfter
    <3>5. m.thread[h] # NoThread => w.conv = m.thread[h].conv
      BY DEF ThreadAfter
    <3>. HIDE DEF h, u, w
    <3>6. /\ n.run[rec.run] = u /\ \A x \in Runs : x # rec.run => n.run[x] = m.run[x]
          /\ n.thread[h] = w /\ \A x \in Threads : x # h => n.thread[x] = m.thread[x]
      BY <1>1, <3>1, <3>2, <3>3, ChangeFields
    <3>. QED
      BY <3>4, <3>5, <3>6
  <2>2. CASE rec.type # "message"
    <3>1. n = [m EXCEPT !.summary[rec.thread] = rec.upTo]
      BY <2>2 DEF ApplyRecord, SaveSummaryInMemory
    <3>2. n.run = m.run /\ n.thread = m.thread
      BY <1>1, <3>1 DEF Mems
    <3>. QED
      BY <3>2
  <2>. QED
    BY <2>1, <2>2
<1>3. /\ \A r \in Runs : RunOwner(n)[r] = n.run[r].conv /\ RunOwner(m)[r] = m.run[r].conv
      /\ \A t \in Threads : ThreadOwner(n)[t] = n.thread[t].conv /\ ThreadOwner(m)[t] = m.thread[t].conv
  BY DEF RunOwner, ThreadOwner
<1>4. /\ \A r \in Runs : Known(m, r) => RunOwner(n)[r] = RunOwner(m)[r]
      /\ \A t \in Threads : m.thread[t] # NoThread => ThreadOwner(n)[t] = ThreadOwner(m)[t]
  BY <1>2, <1>3
<1>5. Fits(m, RunOwner(m), ThreadOwner(m))
  BY GoodFits
<1>6. Fits(m, RunOwner(n), ThreadOwner(n))
  <2>1. ASSUME NEW r \in Runs, Known(m, r)
        PROVE  m.run[r].conv = RunOwner(n)[r] /\ ThreadOwner(n)[m.run[r].thread] = RunOwner(n)[r]
    <3>1. m.run[r].thread \in Threads /\ m.thread[m.run[r].thread] # NoThread
      BY <1>1, <2>1, HomeExists
    <3>. QED
      BY <1>4, <1>5, <2>1, <3>1 DEF Fits
  <2>2. ASSUME NEW t \in Threads
        PROVE  /\ m.thread[t] # NoThread => m.thread[t].conv = ThreadOwner(n)[t]
               /\ m.summary[t] # None => ThreadOwner(n)[t] \in Convs
    BY <1>4, <1>5, <2>2 DEF Fits, Good
  <2>3. ASSUME NEW t \in Threads, NEW i \in DOMAIN m.thread[t].runs
        PROVE  RunOwner(n)[m.thread[t].runs[i]] = ThreadOwner(n)[t]
    <3>1. m.thread[t] # NoThread
      BY <2>3 DEF NoThread
    <3>2. Known(m, m.thread[t].runs[i]) /\ m.thread[t].runs[i] \in Runs
      BY <1>1, <2>3 DEF Sound, Known
    <3>3. RunOwner(m)[m.thread[t].runs[i]] = ThreadOwner(m)[t]
      BY <1>5, <2>3 DEF Fits
    <3>. QED
      BY <1>4, <3>1, <3>2, <3>3
  <2>. QED
    BY <1>1, <2>1, <2>2, <2>3 DEF Fits
<1>7. ASSUME NEW c \in Convs
      PROVE  /\ \A r \in Runs : RunOwner(m)[r] = c => RunOwner(n)[r] = c
             /\ \A t \in Threads : ThreadOwner(m)[t] = c => ThreadOwner(n)[t] = c
  BY <1>1, <1>3, <1>4, MemFields, NoneIsNoId
<1>8. ASSUME NEW c \in Convs, NEW x \in Records, Within(x, c, RunOwner(m), ThreadOwner(m))
      PROVE  Within(x, c, RunOwner(n), ThreadOwner(n))
  BY <1>7, <1>8, RecordFields DEF Within
<1>. QED
  BY <1>6, <1>8

\* The record of a run that is known belongs to the run's conversation.
LEMMA RecordOwned ==
  ASSUME NEW n, Good(n), NEW r, Known(n, r), NEW inc \in Nat
  PROVE  Within(MessageRecord(n, r, inc), n.run[r].conv, RunOwner(n), ThreadOwner(n))
<1>. DEFINE rec == MessageRecord(n, r, inc)
            c == n.run[r].conv
<1>1. n.run[r] \in RunRecords /\ r \in Runs /\ n.run[r].thread \in Threads
  BY HomeExists DEF Good, Known
<1>2. rec.thread = n.run[r].thread /\ rec.conv = c /\ rec.run = r /\ rec.prev = n.run[r].prev
  BY DEF MessageRecord
<1>3. n.thread[n.run[r].thread].conv = c
  BY <1>1 DEF Good, AtHome
<1>4. n.run[r].prev # None => n.run[r].prev \in Runs /\ n.run[n.run[r].prev].conv = c
  BY PrevKnown
<1>. HIDE DEF rec, c
<1>5. Within(rec, c, RunOwner(n), ThreadOwner(n))
  BY <1>1, <1>2, <1>3, <1>4 DEF Within, RunOwner, ThreadOwner, c
<1>. QED
  BY <1>5 DEF rec, c

\* A file that had the record appended is replayed to the memory's part.
LEMMA OneMoreLine ==
  ASSUME NEW m, Good(m), NEW ids, IdsIn(m, ids), NEW c \in Convs,
         NEW s \in Seq(Records), NEW rec \in Records,
         Part(m, c, RunOwner(m), ThreadOwner(m)) = ApplyRecord(ReplayLines(EmptyMem, s), rec),
         \A i \in DOMAIN s : Within(s[i], c, RunOwner(m), ThreadOwner(m)),
         Within(rec, c, RunOwner(m), ThreadOwner(m))
  PROVE  /\ ReplayLines(EmptyMem, Append(s, rec)) = Part(m, c, RunOwner(m), ThreadOwner(m))
         /\ FileOK(c, Append(s, rec), ids)
         /\ \A i \in DOMAIN Append(s, rec) : Within(Append(s, rec)[i], c, RunOwner(m), ThreadOwner(m))
<1>. DEFINE q == Append(s, rec)
            p == Part(m, c, RunOwner(m), ThreadOwner(m))
<1>1. q \in Seq(Records) /\ \A i \in DOMAIN q : q[i] \in Records /\ (q[i] = rec \/ \E j \in DOMAIN s : q[i] = s[j])
  OBVIOUS
<1>2. ReplayLines(EmptyMem, q) = p
  BY ReplayOneMore
<1>3. Fits(m, RunOwner(m), ThreadOwner(m))
  BY GoodFits
<1>4. Good(p) /\ IdsIn(p, ids)
  BY <1>3, GoodPart
<1>. HIDE DEF q
<1>5. \A i \in DOMAIN q : Within(q[i], c, RunOwner(m), ThreadOwner(m))
  BY <1>1
<1>6. m \in Mems
  BY DEF Good, Sound
<1>7. \A i \in DOMAIN q : Within(q[i], c, RunOwner(p), ThreadOwner(p))
  <2>1. \A i \in DOMAIN q : q[i] \in Records
    BY <1>1
  <2>. QED
    BY <1>5, <1>6, <2>1, WithinPart
<1>. HIDE DEF p
<1>8. FileOK(c, q, ids)
  BY <1>1, <1>2, <1>4, <1>7 DEF FileOK
<1>. QED
  BY <1>2, <1>5, <1>8 DEF p, q

\* A save leaves the files alone; the memory is they and the record to be written.
LEMMA SavedFiles ==
  ASSUME Settled, FilesSettled, op = NoOp, op' \in OpRecords, op'.pc = "write",
         mem' = ApplyRecord(mem, op'.rec), Good(mem'),
         Within(op'.rec, op'.conv, RunOwner(mem'), ThreadOwner(mem')),
         UNCHANGED <<file, up>>, NEW more, used' = used \cup more, up = "up"
  PROVE  FilesSettled'
<1>. DEFINE c == op'.conv
            rec == op'.rec
            ro == RunOwner(mem')
            to == ThreadOwner(mem')
<1>1. c \in Convs /\ rec \in Records /\ Good(mem) /\ op.pc # "write" /\ op'.pc # "sync"
  BY StateFields DEF OpRecords, Settled
<1>2. /\ Fits(mem, ro, to)
      /\ \A d \in Convs, x \in Records : Within(x, d, RunOwner(mem), ThreadOwner(mem)) => Within(x, d, ro, to)
  BY <1>1, OwnersGrow
<1>3. /\ Part(mem', c, ro, to) = ApplyRecord(Part(mem, c, ro, to), rec)
      /\ \A d : d # c => Part(mem', d, ro, to) = Part(mem, d, ro, to)
  BY <1>1, <1>2, ApplyLocal
<1>4. \A d \in Convs : Part(mem, d, ro, to) = ReplayLines(EmptyMem, Readable(file[d]))
  <2>. SUFFICES ASSUME NEW d \in Convs PROVE Part(mem, d, ro, to) = ReplayLines(EmptyMem, Readable(file[d]))
    OBVIOUS
  <2>1. Part(mem, d, ro, to) = Part(mem, d, RunOwner(mem), ThreadOwner(mem))
    BY <1>1, <1>2, PartOwn
  <2>. QED
    BY <1>1, <2>1 DEF FilesSettled, FilesMatch
<1>5. FilesMatch'
  BY <1>3, <1>4 DEF FilesMatch
<1>6. Owned(file', ro, to)
  <2>. SUFFICES ASSUME NEW d \in Convs, NEW i \in DOMAIN Readable(file[d])
                PROVE  Within(Readable(file[d])[i], d, ro, to)
    BY DEF Owned
  <2>1. Readable(file[d]) \in Seq(Records)
    BY DEF FilesSettled, FileOK
  <2>2. Readable(file[d])[i] \in Records
    BY <2>1
  <2>3. Within(Readable(file[d])[i], d, RunOwner(mem), ThreadOwner(mem))
    BY DEF FilesSettled, Owned
  <2>. QED
    BY <1>2, <2>2, <2>3
<1>7. \A d \in Convs : FileOK(d, file'[d].lines, used') /\ FileOK(d, Readable(file'[d]), used')
  BY FileOKGrow DEF FilesSettled
<1>8. (\E a, b : Owned(file, a, b))'
  BY DEF FilesSettled
<1>9. Unsynced'
  BY <1>1 DEF Unsynced
<1>. QED
  BY <1>5, <1>6, <1>7, <1>8, <1>9 DEF FilesSettled

\* A step that changes neither the memory nor the files.
LEMMA SameFiles ==
  ASSUME FilesSettled, UNCHANGED <<mem, file, up>>, NEW more, used' = used \cup more,
         op' = op \/ (op' = NoOp /\ op.pc # "write")
  PROVE  FilesSettled'
<1>1. \A c \in Convs : FileOK(c, file'[c].lines, used') /\ FileOK(c, Readable(file'[c]), used')
  BY FileOKGrow DEF FilesSettled
<1>2. Unsynced'
  <2>1. CASE op' = op
    BY <2>1, FileOKGrow DEF FilesSettled, Unsynced
  <2>2. CASE op' = NoOp
    BY <2>2, StateFields DEF Unsynced
  <2>. QED
    BY <2>1, <2>2
<1>3. FilesMatch => FilesMatch'
  BY StateFields DEF FilesMatch
<1>4. (\E a, b : Owned(file, a, b))'
  BY DEF FilesSettled
<1>5. up' = "up" => Owned(file', RunOwner(mem'), ThreadOwner(mem'))
  BY DEF FilesSettled
<1>6. op' # NoOp => Within(op'.rec, op'.conv, RunOwner(mem'), ThreadOwner(mem'))
  BY DEF FilesSettled
<1>. QED
  BY <1>1, <1>2, <1>3, <1>4, <1>5, <1>6 DEF FilesSettled

\* A file and the record about to be written replay to the conversation's part.
LEMMA WrittenLines ==
  ASSUME TypeOK, FilesSettled, Settled, op.pc = "write", ~Glued
  PROVE  LET c == op.conv
             q == Append(file[c].lines, op.rec)
         IN  /\ op # NoOp /\ c \in Convs /\ op.rec \in Records /\ up = "up"
             /\ file[c].lines \in Seq(Records)
             /\ file[c].tail = <<>> =>
                  /\ Readable(file[c]) = file[c].lines
                  /\ FileOK(c, q, used)
                  /\ ReplayLines(EmptyMem, q) = Part(mem, c, RunOwner(mem), ThreadOwner(mem))
                  /\ \A i \in DOMAIN q : Within(q[i], c, RunOwner(mem), ThreadOwner(mem))
<1>. DEFINE c == op.conv
            s == file[c].lines
<1>1. op # NoOp /\ c \in Convs /\ op.rec \in Records /\ up = "up" /\ Good(mem) /\ IdsIn(mem, used)
  BY StateFields, OpFields DEF Settled
<1>2. s \in Seq(Records) /\ (file[c].tail = <<>> => Readable(file[c]) = s)
  BY <1>1, ReadableLines DEF TypeOK, Glued, Replayable
<1>3. /\ Part(mem, c, RunOwner(mem), ThreadOwner(mem)) = ApplyRecord(ReplayLines(EmptyMem, Readable(file[c])), op.rec)
      /\ \A i \in DOMAIN Readable(file[c]) : Within(Readable(file[c])[i], c, RunOwner(mem), ThreadOwner(mem))
      /\ Within(op.rec, c, RunOwner(mem), ThreadOwner(mem))
  BY <1>1 DEF FilesSettled, FilesMatch, Owned
<1>. HIDE DEF c, s
<1>4. ASSUME file[c].tail = <<>>
      PROVE  /\ FileOK(c, Append(s, op.rec), used)
             /\ ReplayLines(EmptyMem, Append(s, op.rec)) = Part(mem, c, RunOwner(mem), ThreadOwner(mem))
             /\ \A i \in DOMAIN Append(s, op.rec) : Within(Append(s, op.rec)[i], c, RunOwner(mem), ThreadOwner(mem))
  BY <1>1, <1>2, <1>3, <1>4, OneMoreLine
<1>. QED
  BY <1>1, <1>2, <1>4 DEF c, s

\* Front and last of a sequence that was appended to.
LEMMA FrontOfAppend ==
  ASSUME NEW S, NEW s \in Seq(S), NEW e \in S
  PROVE  Front(Append(s, e)) = s /\ Last(Append(s, e)) = e /\ Append(s, e) # <<>> /\ Append(s, e) \in Seq(S)
<1>1. Len(s) \in Nat /\ Append(s, e) \in Seq(S) /\ Len(Append(s, e)) = Len(s) + 1 /\ Append(s, e)[Len(s) + 1] = e
  OBVIOUS
<1>2. SubSeq(Append(s, e), 1, Len(s)) = s
  OBVIOUS
<1>. QED
  BY <1>1, <1>2 DEF Front, Last

\* A write puts the record in the file: the file gives all of its conversation's part.
LEMMA WriteFiles ==
  ASSUME TypeOK, Settled, FilesSettled, ~Glued, Write, ~Glued'
  PROVE  FilesSettled'
<1>. DEFINE c == op.conv
            s == file[c].lines
            q == Append(s, op.rec)
            f == Written(file[c], op.rec)
<1>1. op.pc = "write" /\ file' = [file EXCEPT ![c] = f] /\ UNCHANGED <<mem, up, used>>
  BY DEF Write
<1>2. op # NoOp /\ c \in Convs /\ op.rec \in Records /\ up = "up" /\ s \in Seq(Records)
  BY <1>1, WrittenLines
<1>3. op'.rec = op.rec /\ op'.conv = c /\ op'.pc = "sync" /\ op' \in OpRecords
  BY WriteTypeOK
<1>4. file'[c] = f /\ \A d \in Convs : d # c => file'[d] = file[d]
  BY <1>1, <1>2 DEF TypeOK
<1>5. file[c].tail = <<>>
  <2>. SUFFICES ASSUME file[c].tail # <<>> PROVE FALSE
    OBVIOUS
  <2>1. f.lines = Append(s, Junk)
    BY DEF Written
  <2>2. Junk \notin ToSet(f.lines)
    BY <1>2, <1>4 DEF Glued, Replayable
  <2>3. s \in Seq(Records \cup {Junk}) /\ Junk \in Records \cup {Junk}
    BY <1>2 DEF TypeOK, Files
  <2>. HIDE DEF s
  <2>4. Append(s, Junk)[Len(s) + 1] = Junk /\ Len(s) + 1 \in DOMAIN Append(s, Junk)
    BY <2>3
  <2>. QED
    BY <2>1, <2>2, <2>4 DEF ToSet
<1>6. /\ Readable(file[c]) = s
      /\ FileOK(c, q, used)
      /\ ReplayLines(EmptyMem, q) = Part(mem, c, RunOwner(mem), ThreadOwner(mem))
      /\ \A i \in DOMAIN q : Within(q[i], c, RunOwner(mem), ThreadOwner(mem))
  BY <1>1, <1>5, WrittenLines
<1>7. Front(q) = s /\ Last(q) = op.rec /\ q # <<>> /\ q \in Seq(Records)
  BY <1>2, FrontOfAppend
<1>8. f.lines = q /\ f.tail = <<>>
  BY <1>5 DEF Written
<1>9. Readable(f) = q
  <2>. HIDE DEF f, q
  <2>1. q \o <<>> = q
    BY <1>7
  <2>2. <<>> # <<Junk>>
    OBVIOUS
  <2>. QED
    BY <1>8, <2>1, <2>2 DEF Readable
<1>. HIDE DEF c, s, q, f
<1>10. \A d \in Convs : FileOK(d, file'[d].lines, used') /\ FileOK(d, Readable(file'[d]), used')
  BY <1>1, <1>4, <1>6, <1>8, <1>9 DEF FilesSettled
<1>11. Owned(file', RunOwner(mem'), ThreadOwner(mem'))
  BY <1>1, <1>2, <1>4, <1>6, <1>9 DEF FilesSettled, Owned
<1>12. FilesMatch'
  <2>1. \A d \in Convs : d # c => Part(mem, d, RunOwner(mem), ThreadOwner(mem)) = ReplayLines(EmptyMem, Readable(file[d]))
    BY <1>2 DEF FilesSettled, FilesMatch, c
  <2>2. Part(mem, c, RunOwner(mem), ThreadOwner(mem)) = ReplayLines(EmptyMem, Readable(file'[c]))
    BY <1>4, <1>6, <1>9
  <2>. QED
    BY <1>1, <1>3, <1>4, <2>1, <2>2 DEF FilesMatch
<1>13. Unsynced'
  <2>1. FileOK(c, s, used)
    BY <1>2 DEF FilesSettled, s
  <2>. QED
    BY <1>1, <1>3, <1>4, <1>7, <1>8, <2>1 DEF Unsynced
<1>14. Within(op'.rec, op'.conv, RunOwner(mem'), ThreadOwner(mem'))
  BY <1>1, <1>2, <1>3 DEF FilesSettled, c
<1>15. (\E a, b : Owned(file, a, b))'
  BY <1>11
<1>. QED
  BY <1>10, <1>11, <1>12, <1>13, <1>14, <1>15 DEF FilesSettled

\* A file without a junk line is read to its end.
LEMMA LinesReadable ==
  ASSUME NEW f \in Files, Junk \notin ToSet(f.lines), NEW i \in DOMAIN f.lines
  PROVE  i \in DOMAIN Readable(f) /\ Readable(f)[i] = f.lines[i]
<1>. DEFINE s == f.lines
<1>1. s \in Seq(Records) /\ f.tail \in Tails /\ i \in DOMAIN s
  BY ReadableLines DEF Files
<1>2. Readable(f) = s \/ \E rec \in Records : Readable(f) = Append(s, rec)
  BY <1>1, ReadableLines DEF Tails
<1>. HIDE DEF s
<1>3. \A rec \in Records : i \in DOMAIN Append(s, rec) /\ Append(s, rec)[i] = s[i]
  BY <1>1
<1>4. i \in DOMAIN Readable(f) /\ Readable(f)[i] = s[i]
  BY <1>1, <1>2, <1>3
<1>. QED
  BY <1>4 DEF s

\* A sequence that is not empty is its front and its last element.
LEMMA FrontAndLast ==
  ASSUME NEW S, NEW s \in Seq(S), s # <<>>
  PROVE  /\ Front(s) \in Seq(S) /\ Last(s) \in S /\ s = Append(Front(s), Last(s))
         /\ \A i \in DOMAIN Front(s) : i \in DOMAIN s /\ Front(s)[i] = s[i]
         /\ \A i \in DOMAIN s : s[i] = Last(s) \/ \E j \in DOMAIN Front(s) : s[i] = Front(s)[j]
<1>1. PICK n \in Nat : Len(s) = n + 1 /\ n = Len(s) - 1
  BY EmptySeq, LenProperties
<1>2. DOMAIN s = 1..(n + 1) /\ \A i \in 1..(n + 1) : s[i] \in S
  BY <1>1, LenProperties, ElementOfSeq
<1>3. Front(s) = SubSeq(s, 1, n) /\ Last(s) = s[n + 1]
  BY <1>1 DEF Front, Last
<1>4. /\ SubSeq(s, 1, n) \in Seq(S) /\ Len(SubSeq(s, 1, n)) = n
      /\ \A i \in 1..n : SubSeq(s, 1, n)[i] = s[i]
  BY <1>1, <1>2
<1>5. s = Append(SubSeq(s, 1, n), s[n + 1])
  BY <1>1, <1>2, <1>4, SMTT(60)
<1>6. DOMAIN SubSeq(s, 1, n) = 1..n
  BY <1>4
<1>7. \A i \in 1..(n + 1) : s[i] = s[n + 1] \/ \E j \in 1..n : s[i] = SubSeq(s, 1, n)[j]
  <2>. SUFFICES ASSUME NEW i \in 1..(n + 1), i # n + 1 PROVE \E j \in 1..n : s[i] = SubSeq(s, 1, n)[j]
    OBVIOUS
  <2>1. i \in 1..n
    OBVIOUS
  <2>. QED
    BY <1>4, <2>1
<1>8. 1..n \subseteq 1..(n + 1) /\ n + 1 \in 1..(n + 1)
  OBVIOUS
<1>. QED
  BY <1>2, <1>3, <1>4, <1>5, <1>6, <1>7, <1>8

\* What is left of a record: nothing, part of it, or a line but for its newline.
LEMMA PartlyReadable ==
  ASSUME NEW g \in Files, NEW rec \in Records, NEW f \in PartlyWritten(g, rec)
  PROVE  /\ f.lines = g.lines
         /\ f = g \/ Readable(f) = g.lines \/ (g.tail = <<>> /\ Readable(f) = Append(g.lines, rec))
<1>1. g.lines \in Seq(Records \cup {Junk}) /\ g = [lines |-> g.lines, tail |-> g.tail]
  BY DEF Files
<1>2. rec # Junk /\ rec \in Records \cup {Junk}
  BY RecordFields
<1>3. g.lines \o <<>> = g.lines /\ g.lines \o <<rec>> = Append(g.lines, rec)
  BY <1>1, <1>2, AppendIsConcat
<1>4. CASE f = g
  BY <1>4
<1>5. CASE f = [g EXCEPT !.tail = <<Junk>>]
  <2>1. f.lines = g.lines /\ f.tail = <<Junk>>
    BY <1>1, <1>5
  <2>. QED
    BY <1>3, <2>1 DEF Readable
<1>6. CASE g.tail = <<>> /\ f = [g EXCEPT !.tail = <<rec>>]
  <2>1. f.lines = g.lines /\ f.tail = <<rec>>
    BY <1>1, <1>6
  <2>2. <<rec>> # <<Junk>>
    BY <1>2
  <2>. QED
    BY <1>3, <1>6, <2>1, <2>2 DEF Readable
<1>. QED
  BY <1>4, <1>5, <1>6 DEF PartlyWritten

\* Once two records share a line, no write parts them.
LEMMA WriteKeepsGlued ==
  ASSUME TypeOK, Write, Glued
  PROVE  Glued'
<1>1. PICK d \in Convs : Junk \in ToSet(file[d].lines)
  BY DEF Glued, Replayable
<1>2. op.conv \in Convs /\ file[op.conv] \in Files /\ op.rec \in Records
  BY StateFields, OpFields DEF Write, TypeOK
<1>3. Junk \in ToSet(Written(file[d], op.rec).lines)
  <2>. DEFINE s == file[d].lines
              e == IF file[d].tail = <<>> THEN op.rec ELSE Junk
  <2>1. s \in Seq(Records \cup {Junk}) /\ e \in Records \cup {Junk} /\ Junk \in ToSet(s)
    BY <1>1, <1>2 DEF TypeOK, Files
  <2>2. Written(file[d], op.rec).lines = Append(s, e)
    BY DEF Written
  <2>. HIDE DEF s, e
  <2>3. PICK i \in DOMAIN s : s[i] = Junk
    BY <2>1 DEF ToSet
  <2>4. i \in DOMAIN Append(s, e) /\ Append(s, e)[i] = Junk
    BY <2>1, <2>3
  <2>. QED
    BY <2>2, <2>4 DEF ToSet
<1>4. Junk \in ToSet(file'[d].lines)
  BY <1>1, <1>2, <1>3 DEF Write, TypeOK
<1>. QED
  BY <1>4 DEF Glued, Replayable

\* Once two records share a line, no crash parts them.
LEMMA CrashKeepsGlued ==
  ASSUME TypeOK, Crash, Glued
  PROVE  Glued'
<1>1. PICK d \in Convs : Junk \in ToSet(file[d].lines)
  BY DEF Glued, Replayable
<1>. SUFFICES Junk \in ToSet(file'[d].lines)
  BY DEF Glued, Replayable
<1>. DEFINE c == op.conv
<1>2. CASE op.pc = "write"
  <2>1. c \in Convs /\ op.rec \in Records /\ file[c] \in Files
    BY <1>2, StateFields, OpFields DEF TypeOK
  <2>2. PICK f \in PartlyWritten(file[c], op.rec) : file' = [file EXCEPT ![c] = f]
    BY <1>2 DEF Crash
  <2>3. f.lines = file[c].lines
    BY <2>1, PartlyReadable
  <2>. QED
    BY <1>1, <2>1, <2>2, <2>3 DEF TypeOK
<1>3. CASE op.pc = "sync" /\ Last(file[c].lines) = op.rec
  <2>. DEFINE g == [file[c] EXCEPT !.lines = Front(@)]
  <2>1. c \in Convs /\ op.rec \in Records /\ op.rec # Junk /\ file[c] \in Files /\ g \in Files
    BY <1>3, StateFields, OpFields, RecordFields, FrontTyped DEF TypeOK
  <2>2. PICK f \in PartlyWritten(g, op.rec) \cup {file[c]} : file' = [file EXCEPT ![c] = f]
    BY <1>3 DEF Crash
  <2>3. f.lines = Front(file[c].lines) \/ f.lines = file[c].lines
    <3>1. g.lines = Front(file[c].lines)
      BY <2>1 DEF Files
    <3>. HIDE DEF g
    <3>. QED
      BY <2>1, <2>2, <3>1, PartlyReadable
  <2>4. d = c => Junk \in ToSet(Front(file[c].lines))
    <3>. SUFFICES ASSUME d = c PROVE Junk \in ToSet(Front(file[c].lines))
      OBVIOUS
    <3>. DEFINE s == file[c].lines
    <3>1. s \in Seq(Records \cup {Junk}) /\ s # <<>> /\ Last(s) # Junk
      BY <1>1, <1>3, <2>1 DEF Files, ToSet
    <3>2. PICK i \in DOMAIN s : s[i] = Junk
      BY <1>1 DEF ToSet
    <3>. HIDE DEF s
    <3>3. \E j \in DOMAIN Front(s) : Junk = Front(s)[j]
      BY <3>1, <3>2, FrontAndLast
    <3>. QED
      BY <3>3 DEF ToSet, s
  <2>. QED
    BY <1>1, <2>1, <2>2, <2>3, <2>4 DEF TypeOK
<1>4. CASE op.pc # "write" /\ ~(op.pc = "sync" /\ Last(file[c].lines) = op.rec)
  BY <1>1, <1>4 DEF Crash
<1>. QED
  BY <1>2, <1>3, <1>4

\* A crash loses the memory and at most the record that was not synced.
LEMMA CrashFiles ==
  ASSUME TypeOK, Settled, FilesSettled, ~Glued, Crash
  PROVE  FilesSettled'
<1>. DEFINE c == op.conv
            Ours(s) == \A i \in DOMAIN s : Within(s[i], c, RunOwner(mem), ThreadOwner(mem))
<1>1. up = "up" /\ up' = "down" /\ op' = NoOp /\ used' = used
  BY DEF Crash
<1>2. \/ file' = file
      \/ \E f : /\ c \in Convs /\ file' = [file EXCEPT ![c] = f]
                /\ FileOK(c, f.lines, used) /\ FileOK(c, Readable(f), used) /\ Ours(Readable(f))
  <2>1. CASE op.pc = "write"
    <3>1. c \in Convs /\ op.rec \in Records /\ file[c] \in Files
      BY <2>1, StateFields, OpFields DEF TypeOK
    <3>2. PICK f \in PartlyWritten(file[c], op.rec) : file' = [file EXCEPT ![c] = f]
      BY <2>1 DEF Crash
    <3>3. FileOK(c, file[c].lines, used) /\ FileOK(c, Readable(file[c]), used) /\ Ours(Readable(file[c]))
      BY <1>1, <3>1 DEF FilesSettled, Owned
    <3>4. Junk \notin ToSet(file[c].lines)
      BY <3>1 DEF Glued, Replayable
    <3>5. Ours(file[c].lines)
      BY <3>1, <3>3, <3>4, LinesReadable
    <3>6. file[c].tail = <<>> => FileOK(c, Append(file[c].lines, op.rec), used) /\ Ours(Append(file[c].lines, op.rec))
      BY <2>1, WrittenLines
    <3>7. /\ f.lines = file[c].lines
          /\ \/ f = file[c] \/ Readable(f) = file[c].lines
             \/ (file[c].tail = <<>> /\ Readable(f) = Append(file[c].lines, op.rec))
      BY <3>1, PartlyReadable
    <3>. HIDE DEF Ours, c
    <3>. QED
      BY <3>1, <3>2, <3>3, <3>5, <3>6, <3>7
  <2>2. CASE op.pc = "sync" /\ Last(file[c].lines) = op.rec
    <3>. DEFINE g == [file[c] EXCEPT !.lines = Front(@)]
                s == file[c].lines
    <3>1. c \in Convs /\ op.rec \in Records /\ file[c] \in Files /\ g \in Files
      BY <2>2, StateFields, OpFields, FrontTyped DEF TypeOK
    <3>2. PICK f \in PartlyWritten(g, op.rec) \cup {file[c]} : file' = [file EXCEPT ![c] = f]
      BY <2>2 DEF Crash
    <3>3. FileOK(c, s, used) /\ FileOK(c, Readable(file[c]), used) /\ Ours(Readable(file[c]))
      BY <1>1, <3>1 DEF FilesSettled, Owned
    <3>4. Junk \notin ToSet(s)
      BY <3>1 DEF Glued, Replayable
    <3>5. Ours(s) /\ s \in Seq(Records)
      BY <3>1, <3>3, <3>4, LinesReadable, ReadableLines
    <3>6. s # <<>> /\ file[c].tail = <<>> /\ FileOK(c, Front(s), used)
      BY <2>2 DEF FilesSettled, Unsynced
    <3>7. g.lines = Front(s) /\ g.tail = <<>>
      BY <3>1, <3>6 DEF Files
    <3>8. Append(g.lines, op.rec) = s /\ Ours(g.lines)
      <4>. HIDE DEF s, g
      <4>1. s = Append(Front(s), Last(s)) /\ \A i \in DOMAIN Front(s) : i \in DOMAIN s /\ Front(s)[i] = s[i]
        BY <3>5, <3>6, FrontAndLast
      <4>2. Last(s) = op.rec
        BY <2>2 DEF s
      <4>3. Ours(Front(s))
        BY <3>5, <4>1
      <4>. QED
        BY <3>7, <4>1, <4>2, <4>3
    <3>9. Readable(g) = g.lines
      <4>1. g.lines \o <<>> = g.lines
        BY <3>1 DEF Files
      <4>. QED
        BY <3>7, <4>1 DEF Readable
    <3>. HIDE DEF g, s, Ours, c
    <3>10. f = file[c] \/ (f.lines = g.lines /\ (f = g \/ Readable(f) = g.lines \/ Readable(f) = s))
      BY <3>1, <3>2, <3>8, PartlyReadable
    <3>11. CASE f = file[c]
      BY <3>1, <3>2, <3>3, <3>11 DEF s
    <3>12. CASE f.lines = g.lines /\ Readable(f) = g.lines
      BY <3>1, <3>2, <3>6, <3>7, <3>8, <3>12
    <3>13. CASE f.lines = g.lines /\ Readable(f) = s
      BY <3>1, <3>2, <3>3, <3>5, <3>6, <3>7, <3>13
    <3>. QED
      BY <3>9, <3>10, <3>11, <3>12, <3>13
  <2>3. CASE op.pc # "write" /\ ~(op.pc = "sync" /\ Last(file[c].lines) = op.rec)
    BY <2>3 DEF Crash
  <2>. QED
    BY <2>1, <2>2, <2>3
<1>3. /\ \A d \in Convs : FileOK(d, file'[d].lines, used') /\ FileOK(d, Readable(file'[d]), used')
      /\ Owned(file', RunOwner(mem), ThreadOwner(mem))
  <2>1. CASE file' = file
    BY <1>1, <2>1 DEF FilesSettled
  <2>2. CASE file' # file
    <3>1. PICK f : /\ c \in Convs /\ file' = [file EXCEPT ![c] = f]
                   /\ FileOK(c, f.lines, used) /\ FileOK(c, Readable(f), used) /\ Ours(Readable(f))
      BY <1>2, <2>2
    <3>2. file'[c] = f /\ \A d \in Convs : d # c => file'[d] = file[d]
      BY <3>1 DEF TypeOK
    <3>. HIDE DEF c
    <3>3. \A d \in Convs : FileOK(d, file'[d].lines, used') /\ FileOK(d, Readable(file'[d]), used')
      BY <1>1, <3>1, <3>2 DEF FilesSettled
    <3>4. Owned(file', RunOwner(mem), ThreadOwner(mem))
      BY <1>1, <3>1, <3>2 DEF FilesSettled, Owned
    <3>. QED
      BY <3>3, <3>4
  <2>. QED
    BY <2>1, <2>2
<1>4. (\E a, b : Owned(file, a, b))'
  BY <1>3
<1>5. Unsynced'
  BY <1>1, StateFields DEF Unsynced
<1>. QED
  BY <1>1, <1>3, <1>4, <1>5 DEF FilesSettled

\* The empty memory is good and names no id.
LEMMA EmptyGood == Good(EmptyMem) /\ \A ids : IdsIn(EmptyMem, ids)
<1>1. Sound(EmptyMem)
  BY EmptySound
<1>2. /\ \A r \in Runs : EmptyMem.run[r] = NoRun
      /\ \A t \in Threads : EmptyMem.thread[t] = NoThread /\ EmptyMem.summary[t] = None
  BY DEF EmptyMem
<1>3. \A r \in Runs : ~Known(EmptyMem, r)
  BY <1>2 DEF Known
<1>. QED
  BY <1>1, <1>2, <1>3 DEF Good, IdsIn

\* The memory that the files give is good, and no manager is at work.
LEMMA OpenSettled ==
  ASSUME TypeOK, FilesSettled, ~Glued, Open
  PROVE  Settled' /\ FilesSettled'
<1>1. /\ op = NoOp /\ (\A x \in Managers : mgr[x] = Idle) /\ up' = "up" /\ mem' = Replay(file)
      /\ UNCHANGED <<file, op, mgr, used>>
  BY DEF Open, TypeOK, Glued
<1>2. PICK ro, to : Owned(file, ro, to)
  BY DEF FilesSettled
<1>3. \A c \in Convs : FileOK(c, Readable(file[c]), used) /\ Readable(file[c]) \in Seq(Records)
  BY DEF FilesSettled, FileOK
<1>4. /\ Fits(mem', ro, to)
      /\ \A c \in Convs : Part(mem', c, ro, to) = ReplayLines(EmptyMem, Readable(file[c]))
  BY <1>1, <1>2, <1>3, ReplayJoins DEF Owned
<1>5. Good(mem') /\ IdsIn(mem', used)
  BY <1>3, <1>4, GoodJoin DEF FileOK
<1>6. \A c \in Convs : Part(mem', c, RunOwner(mem'), ThreadOwner(mem')) = ReplayLines(EmptyMem, Readable(file[c]))
  <2>. SUFFICES ASSUME NEW c \in Convs
                PROVE  Part(mem', c, RunOwner(mem'), ThreadOwner(mem')) = ReplayLines(EmptyMem, Readable(file[c]))
    OBVIOUS
  <2>1. Part(mem', c, ro, to) = Part(mem', c, RunOwner(mem'), ThreadOwner(mem'))
    BY <1>4, <1>5, PartOwn
  <2>. QED
    BY <1>4, <2>1
<1>7. Owned(file, RunOwner(mem'), ThreadOwner(mem'))
  <2>. SUFFICES ASSUME NEW c \in Convs, NEW i \in DOMAIN Readable(file[c])
                PROVE  Within(Readable(file[c])[i], c, RunOwner(mem'), ThreadOwner(mem'))
    BY DEF Owned
  <2>. DEFINE p == ReplayLines(EmptyMem, Readable(file[c]))
              rec == Readable(file[c])[i]
  <2>1. rec \in Records
    BY <1>3
  <2>2. Within(rec, c, RunOwner(p), ThreadOwner(p))
    BY <1>3 DEF FileOK
  <2>3. p = Part(mem', c, ro, to) /\ mem' \in Mems
    BY <1>4, <1>5 DEF Good, Sound
  <2>. HIDE DEF p, rec
  <2>4. Within(rec, c, RunOwner(mem'), ThreadOwner(mem'))
    BY <2>1, <2>2, <2>3, WithinPart
  <2>. QED
    BY <2>4 DEF rec
<1>8. Settled'
  <2>1. OpFits'
    BY <1>1 DEF OpFits
  <2>. QED
    BY <1>1, <1>5, <2>1 DEF Settled
<1>9. FilesSettled'
  <2>1. FilesMatch'
    BY <1>1, <1>6, StateFields DEF FilesMatch
  <2>2. Unsynced'
    BY <1>1, StateFields DEF Unsynced
  <2>3. \A c \in Convs : FileOK(c, file'[c].lines, used') /\ FileOK(c, Readable(file'[c]), used')
    BY <1>1 DEF FilesSettled
  <2>4. Owned(file', RunOwner(mem'), ThreadOwner(mem'))
    BY <1>1, <1>7
  <2>5. (\E a, b : Owned(file, a, b))'
    BY <2>4
  <2>. QED
    BY <1>1, <2>1, <2>2, <2>3, <2>4, <2>5 DEF FilesSettled
<1>. QED
  BY <1>8, <1>9

PersistInv == TypeOK /\ MemInv /\ FileInv

\* The invariant holds of the first state.
LEMMA InitPersist == Init => PersistInv
<1>. SUFFICES ASSUME Init PROVE PersistInv
  OBVIOUS
<1>1. TypeOK
  BY InitTypeOK
<1>2. /\ mem = EmptyMem /\ op = NoOp /\ (\A x \in Managers : mgr[x] = Idle) /\ up = "up"
      /\ \A c \in Convs : file[c] = [lines |-> <<>>, tail |-> <<>>]
  BY DEF Init
<1>3. Settled
  <2>1. OpFits
    BY <1>2 DEF OpFits
  <2>. QED
    BY <1>2, <2>1, EmptyGood DEF Settled
<1>4. <<>> \in Seq(Records) /\ DOMAIN <<>> = {} /\ <<>> \o <<>> = <<>> /\ <<>> # <<Junk>>
  OBVIOUS
<1>5. \A c \in Convs : file[c].lines = <<>> /\ Readable(file[c]) = <<>>
  BY <1>2, <1>4 DEF Readable
<1>6. \A c : FileOK(c, <<>>, used)
  BY <1>4, ReplayNothing, EmptyGood DEF FileOK
<1>7. \A a, b : Owned(file, a, b)
  BY <1>4, <1>5 DEF Owned
<1>8. FilesMatch
  <2>1. \A c : Part(mem, c, RunOwner(mem), ThreadOwner(mem)) = EmptyMem
    BY <1>2, EmptyFits
  <2>. QED
    BY <1>2, <1>5, <2>1, ReplayNothing, StateFields DEF FilesMatch
<1>9. Unsynced
  BY <1>2, StateFields DEF Unsynced
<1>10. FilesSettled
  BY <1>2, <1>5, <1>6, <1>7, <1>8, <1>9 DEF FilesSettled
<1>. QED
  BY <1>1, <1>3, <1>10 DEF PersistInv, MemInv, FileInv

\* A save keeps the invariant.
LEMMA SavePersist ==
  ASSUME PersistInv, NEW x \in Managers, NEW complete \in BOOLEAN, Save(x, complete)
  PROVE  MemInv' /\ FileInv'
<1>1. /\ op = NoOp /\ op' = [pc |-> "write", by |-> x, rec |-> MessageRecord(mem', mgr[x].run, saves + 1),
                             conv |-> mem'.run[mgr[x].run].conv]
      /\ op' \in OpRecords /\ UNCHANGED <<file, up, errors>> /\ up = "up"
      /\ \E more : used' = used \cup more
      /\ Known(mem', mgr[x].run)
      /\ TypeOK /\ saves + 1 \in Nat
  <2>1. TypeOK /\ saves + 1 \in Nat
    BY DEF PersistInv, TypeOK
  <2>. QED
    BY <2>1, SaveFacts
<1>2. ASSUME errors = 0 PROVE Settled /\ Settled' /\ Good(mem') /\ mem' = ApplyRecord(mem, op'.rec)
  <2>1. Settled
    BY <1>1, <1>2 DEF PersistInv, MemInv
  <2>. QED
    BY <1>1, <2>1, SaveSettled, SaveInSettled
<1>3. ASSUME errors = 0, ~Glued PROVE FilesSettled'
  <2>1. FilesSettled
    BY <1>3 DEF PersistInv, FileInv
  <2>2. Within(op'.rec, op'.conv, RunOwner(mem'), ThreadOwner(mem'))
    BY <1>1, <1>2, <1>3, RecordOwned
  <2>3. op'.pc = "write"
    BY <1>1
  <2>. QED
    BY <1>1, <1>2, <1>3, <2>1, <2>2, <2>3, SavedFiles
<1>4. Glued' <=> Glued
  BY <1>1 DEF Glued, Replayable
<1>. QED
  BY <1>1, <1>2, <1>3, <1>4 DEF MemInv, FileInv

\* A saved summary keeps the invariant.
LEMMA SaveSummaryPersist ==
  ASSUME PersistInv, NEW x \in Managers, SaveSummary(x)
  PROVE  MemInv' /\ FileInv'
<1>1. /\ op = NoOp /\ mgr[x] \in MgrRecords /\ Known(mem, mgr[x].prev) /\ mgr[x].prev # None
      /\ op' \in OpRecords /\ UNCHANGED <<file, up, errors, used>> /\ up = "up"
      /\ mem'.run = mem.run /\ mem'.thread = mem.thread
      /\ \E r \in Runs : op' = [pc |-> "write", by |-> x, rec |-> SummaryRecord(mgr[x].thread, r), conv |-> mgr[x].conv]
      /\ TypeOK
  BY SaveSummaryFacts, NoneIsNoId DEF PersistInv
<1>2. ASSUME errors = 0 PROVE Settled /\ Settled' /\ Good(mem') /\ mem' = ApplyRecord(mem, op'.rec) /\ MgrFits(x)
  <2>1. Settled
    BY <1>1, <1>2 DEF PersistInv, MemInv
  <2>2. Settled' /\ mem' = ApplyRecord(mem, op'.rec) /\ MgrFits(x)
    BY <1>1, <2>1, SaveSummarySettled
  <2>. QED
    BY <2>1, <2>2 DEF Settled
<1>3. ASSUME errors = 0, ~Glued PROVE FilesSettled'
  <2>1. FilesSettled
    BY <1>3 DEF PersistInv, FileInv
  <2>2. /\ op'.pc = "write" /\ op'.rec.thread = mgr[x].thread /\ op'.rec.type = "summary" /\ op'.conv = mgr[x].conv
    BY <1>1 DEF SummaryRecord
  <2>3. mem'.thread[mgr[x].thread].conv = mgr[x].conv /\ mgr[x].thread \in Threads
    <3>1. mem.run[mgr[x].prev].thread = mgr[x].thread /\ mem.run[mgr[x].prev].conv = mgr[x].conv
      BY <1>1, <1>2, <1>3 DEF MgrFits
    <3>2. mem.thread[mem.run[mgr[x].prev].thread].conv = mem.run[mgr[x].prev].conv
      BY <1>1, <1>2, <1>3 DEF Good, AtHome, Settled, Known
    <3>. QED
      BY <1>1, <3>1, <3>2 DEF MgrRecords
  <2>4. Within(op'.rec, op'.conv, RunOwner(mem'), ThreadOwner(mem'))
    BY <2>2, <2>3 DEF Within, ThreadOwner
  <2>5. used' = used \cup {}
    BY <1>1
  <2>. QED
    BY <1>1, <1>2, <1>3, <2>1, <2>2, <2>4, <2>5, SavedFiles
<1>4. Glued' <=> Glued
  BY <1>1 DEF Glued, Replayable
<1>. QED
  BY <1>1, <1>2, <1>3, <1>4 DEF MemInv, FileInv

\* A step that touches neither memory nor files keeps the invariant.
LEMMA QuietPersist ==
  ASSUME PersistInv, UNCHANGED <<mem, file, up, errors>>, NEW more, used' = used \cup more,
         op' = op \/ (op' = NoOp /\ op.pc # "write"), Settled => Settled'
  PROVE  MemInv' /\ FileInv'
<1>1. Glued' <=> Glued
  BY DEF Glued, Replayable
<1>2. FilesSettled => FilesSettled'
  BY SameFiles
<1>. QED
  BY <1>1, <1>2 DEF PersistInv, MemInv, FileInv

\* Every step keeps the invariant.
LEMMA NextPersist ==
  ASSUME PersistInv, ~Concurrent, [Next]_vars
  PROVE  PersistInv'
<1>1. TypeOK /\ TypeOK'
  BY NextTypeOK DEF PersistInv
<1>. SUFFICES MemInv' /\ FileInv'
  BY <1>1 DEF PersistInv
<1>2. ASSUME NEW x \in Managers, NEW t \in Threads, NEW asked \in Runs \cup {None}, NewRun(x, t, asked)
      PROVE  MemInv' /\ FileInv'
  <2>1. Settled => Settled'
    BY <1>1, <1>2, NewRunSettled
  <2>2. UNCHANGED <<mem, file, up, errors>> /\ op' = op /\ \E more : used' = used \cup more
    BY <1>1, <1>2, NewRunFacts
  <2>. QED
    BY <2>1, <2>2, QuietPersist
<1>3. ASSUME NEW x \in Managers, NEW complete \in BOOLEAN, Save(x, complete)
      PROVE  MemInv' /\ FileInv'
  BY <1>3, SavePersist
<1>4. ASSUME NEW x \in Managers, SaveSummary(x)
      PROVE  MemInv' /\ FileInv'
  BY <1>4, SaveSummaryPersist
<1>5. ASSUME NEW x \in Managers, Leave(x)
      PROVE  MemInv' /\ FileInv'
  <2>1. Settled => Settled'
    BY <1>1, <1>5, LeaveSettled
  <2>2. UNCHANGED <<mem, file, up, errors>> /\ op' = op /\ used' = used \cup {}
    BY <1>5 DEF Leave
  <2>. QED
    BY <2>1, <2>2, QuietPersist
<1>6. CASE Write
  <2>1. UNCHANGED <<up, errors>> /\ up = "up"
    BY <1>1, <1>6, StateFields, OpFields DEF Write
  <2>2. MemInv'
    BY <1>1, <1>6, <2>1, WriteSettled DEF PersistInv, MemInv
  <2>3. Glued => Glued'
    BY <1>1, <1>6, WriteKeepsGlued
  <2>4. FileInv'
    BY <1>1, <1>6, <2>1, <2>3, WriteFiles DEF PersistInv, MemInv, FileInv
  <2>. QED
    BY <2>2, <2>4
<1>7. CASE Sync
  <2>1. Settled => Settled'
    BY <1>1, <1>7, SyncSettled
  <2>2. UNCHANGED <<mem, file, up, errors>> /\ op' = NoOp /\ op.pc # "write" /\ used' = used \cup {}
    BY <1>7 DEF Sync
  <2>. QED
    BY <2>1, <2>2, QuietPersist
<1>8. CASE WriteFails
  <2>1. errors' # 0
    BY <1>1, <1>8 DEF WriteFails, TypeOK
  <2>. QED
    BY <2>1 DEF MemInv, FileInv
<1>9. CASE Crash
  <2>1. up = "up" /\ up' = "down" /\ UNCHANGED errors
    BY <1>9 DEF Crash
  <2>2. FileInv'
    BY <1>1, <1>9, <2>1, CrashKeepsGlued, CrashFiles DEF PersistInv, MemInv, FileInv
  <2>. QED
    BY <2>1, <2>2 DEF MemInv
<1>10. CASE Open
  <2>1. UNCHANGED <<file, errors>> /\ (Glued' <=> Glued) /\ (Glued => up' = "broken")
    BY <1>10 DEF Open, Glued, Replayable
  <2>. QED
    BY <1>1, <1>10, <2>1, OpenSettled DEF PersistInv, MemInv, FileInv
<1>12. CASE SyncFails
  <2>1. errors' # 0
    BY <1>1, <1>12 DEF SyncFails, TypeOK
  <2>. QED
    BY <2>1 DEF MemInv, FileInv
<1>11. CASE UNCHANGED vars
  <2>1. UNCHANGED <<mem, file, up, errors, mgr, op, used>>
    BY <1>11 DEF vars
  <2>2. Settled => Settled'
    BY <2>1 DEF Settled, MgrFits, Completing, Apart, OpFits
  <2>3. used' = used \cup {}
    BY <2>1
  <2>. QED
    BY <2>1, <2>2, <2>3, QuietPersist
<1>. QED
  BY <1>2, <1>3, <1>4, <1>5, <1>6, <1>7, <1>8, <1>9, <1>10, <1>11, <1>12 DEF Next

\* The invariant holds in every state.
LEMMA AlwaysPersist ==
  ASSUME ~Concurrent
  PROVE  Spec => []PersistInv
<1>1. Init => PersistInv
  BY InitPersist
<1>2. PersistInv /\ [Next]_vars => PersistInv'
  BY NextPersist
<1>. QED
  BY <1>1, <1>2, PTL DEF Spec

\* Replaying the files of a conversation store gives back the memory, as long as
\* no write has failed and no two managers work on one thread.
THEOREM RestartLosesNothing ==
  ASSUME ~Concurrent
  PROVE  Spec => []ReplayRebuilds
<1>1. PersistInv => ReplayRebuilds
  <2>. SUFFICES ASSUME PersistInv, up = "up", op = NoOp, errors = 0, ~Glued PROVE Replay(file) = mem
    BY DEF ReplayRebuilds
  <2>. DEFINE ro == RunOwner(mem)
              to == ThreadOwner(mem)
  <2>1. Good(mem) /\ FilesSettled
    BY DEF PersistInv, MemInv, FileInv, Settled
  <2>2. /\ \A c \in Convs : Readable(file[c]) \in Seq(Records)
        /\ Owned(file, ro, to) /\ FilesMatch
    BY <2>1 DEF FilesSettled, FileOK
  <2>3. /\ Fits(Replay(file), ro, to)
        /\ \A c \in Convs : Part(Replay(file), c, ro, to) = ReplayLines(EmptyMem, Readable(file[c]))
    BY <2>2, ReplayJoins DEF Owned
  <2>4. \A c \in Convs : Part(mem, c, ro, to) = ReplayLines(EmptyMem, Readable(file[c]))
    BY <2>2, StateFields DEF FilesMatch
  <2>5. Fits(mem, ro, to)
    BY <2>1, GoodFits
  <2>6. \A c \in Convs : Part(Replay(file), c, ro, to) = Part(mem, c, ro, to)
    BY <2>3, <2>4
  <2>. HIDE DEF ro, to
  <2>. QED
    BY <2>3, <2>5, <2>6, PartsDetermine
<1>. QED
  BY <1>1, AlwaysPersist, PTL

\* What is loaded for a run is the chain of runs it goes on from, restarts and
\* branches included, as long as no write has failed and no two managers work on
\* one thread.
THEOREM HistoryIsAChain ==
  ASSUME ~Concurrent
  PROVE  Spec => []ChainLoaded
<1>1. PersistInv => ChainLoaded
  <2>. SUFFICES ASSUME PersistInv, up = "up", errors = 0 PROVE ChainLoaded
    BY DEF ChainLoaded
  <2>1. Good(mem)
    BY DEF PersistInv, MemInv, Settled
  <2>2. ASSUME NEW r \in Runs, Known(mem, r) PROVE GoesBack(mem, r)
    BY <2>1, <2>2, LoadedChain
  <2>. QED
    BY <2>2, ZenonT(60) DEF ChainLoaded, GoesBack
<1>. QED
  BY <1>1, AlwaysPersist, PTL

-----------------------------------------------------------------------------
(* What a replay recovers.                                                 *)

Increasing(s) == \A k, l \in DOMAIN s : k < l => s[k] < s[l]

\* The message records of X have been applied, and nothing else: each run has the
\* increments saved for it, in order and once.
Holds(m, X) ==
  /\ Sound(m)
  /\ \A x \in X : /\ Known(m, x.run) /\ m.run[x.run].conv = x.conv
                  /\ \E k \in DOMAIN m.run[x.run].msgs : m.run[x.run].msgs[k] = x.inc
  /\ \A r \in Runs : Known(m, r) =>
        /\ Increasing(m.run[r].msgs)
        /\ \A k \in DOMAIN m.run[r].msgs : \E x \in X : x.run = r /\ x.inc = m.run[r].msgs[k]
        /\ \E x \in X : x.run = r

MessagesUpTo(s, n) == {rec \in MessageRecords : \E i \in DOMAIN s : i <= n /\ s[i] = rec}
Messages(s) == {rec \in MessageRecords : \E i \in DOMAIN s : s[i] = rec}

\* The increments of a file come in the order of their saves, under the file's
\* conversation, and no run is in two files.
InOrder(fs) ==
  /\ \A c \in Convs : Readable(fs[c]) \in Seq(Records)
  /\ \A c \in Convs : \A i, j \in DOMAIN Readable(fs[c]) :
        LET s == Readable(fs[c])
        IN  i < j /\ s[i] \in MessageRecords /\ s[j] \in MessageRecords => s[i].inc < s[j].inc
  /\ \A c \in Convs : \A rec \in Messages(Readable(fs[c])) : rec.conv = c
  /\ \A c, d \in Convs : \A x \in Messages(Readable(fs[c])), y \in Messages(Readable(fs[d])) :
        x.run = y.run => c = d

\* An increasing sequence goes on increasing with a larger number.
LEMMA IncreasingAppend ==
  ASSUME NEW s \in Seq(Nat), NEW e \in Nat, Increasing(s), \A k \in DOMAIN s : s[k] < e
  PROVE  /\ Increasing(Append(s, e))
         /\ \A k \in DOMAIN s : k \in DOMAIN Append(s, e) /\ Append(s, e)[k] = s[k]
         /\ \E k \in DOMAIN Append(s, e) : Append(s, e)[k] = e
         /\ \A k \in DOMAIN Append(s, e) : Append(s, e)[k] = e \/ (k \in DOMAIN s /\ Append(s, e)[k] = s[k])
<1>1. /\ Len(s) \in Nat /\ DOMAIN s = 1..Len(s) /\ DOMAIN Append(s, e) = 1..(Len(s) + 1)
      /\ \A k \in 1..Len(s) : Append(s, e)[k] = s[k]
      /\ Append(s, e)[Len(s) + 1] = e
  OBVIOUS
<1>. DEFINE q == Append(s, e)
<1>2. /\ DOMAIN q = 1..(Len(s) + 1) /\ (\A k \in 1..Len(s) : q[k] = s[k]) /\ q[Len(s) + 1] = e
  BY <1>1
<1>. HIDE DEF q
<1>3. /\ \A k \in DOMAIN s : k \in DOMAIN q /\ q[k] = s[k]
      /\ \E k \in DOMAIN q : q[k] = e
      /\ \A k \in DOMAIN q : q[k] = e \/ (k \in DOMAIN s /\ q[k] = s[k])
  BY <1>1, <1>2
<1>4. ASSUME NEW k \in DOMAIN q, NEW l \in DOMAIN q, k < l PROVE q[k] < q[l]
  <2>1. k \in DOMAIN s /\ q[k] = s[k]
    BY <1>1, <1>2, <1>4
  <2>2. CASE l = Len(s) + 1
    BY <1>2, <2>1, <2>2
  <2>3. CASE l # Len(s) + 1
    <3>1. l \in DOMAIN s /\ q[l] = s[l]
      BY <1>1, <1>2, <2>3
    <3>. QED
      BY <1>4, <2>1, <3>1 DEF Increasing
  <2>. QED
    BY <2>2, <2>3
<1>5. Increasing(q)
  BY <1>4 DEF Increasing
<1>. QED
  BY <1>3, <1>5 DEF q

\* A message record applied: what the memory held it holds, and the record's increment.
LEMMA ApplyHolds ==
  ASSUME NEW m, NEW X \in SUBSET MessageRecords, Holds(m, X), NEW rec \in MessageRecords,
         \A x \in X : x.run = rec.run => x.inc < rec.inc /\ x.conv = rec.conv
  PROVE  Holds(ApplyRecord(m, rec), X \cup {rec})
<1>. DEFINE r == rec.run
            n == ApplyRecord(m, rec)
            u == RunAfter(m, rec)
<1>1. /\ Sound(n) /\ \A x : Known(n, x) <=> x = r \/ Known(m, x)
  <2>1. rec.type = "message" /\ rec \in Records
    BY NotJunk DEF Records
  <2>. QED
    BY <2>1, ApplySound DEF Holds
<1>2. r \in Runs /\ rec.inc \in Nat /\ Sound(m) /\ m \in Mems
  BY DEF MessageRecords, Holds, Sound
<1>3. n.run[r] = u /\ \A x \in Runs : x # r => n.run[x] = m.run[x]
  <2>. DEFINE h == Home(m, rec)
              w == ThreadAfter(m, rec)
  <2>1. n = Change(m, r, h, u, w) /\ h \in Threads
    BY <1>2, ApplyIsChange, ApplyTyped
  <2>. HIDE DEF n, h, u, w
  <2>. QED
    BY <1>2, <2>1, ChangeFields
<1>4. u.conv = rec.conv /\ Increasing(u.msgs)
      /\ (\E k \in DOMAIN u.msgs : u.msgs[k] = rec.inc)
      /\ (Known(m, r) => \A k \in DOMAIN m.run[r].msgs : k \in DOMAIN u.msgs /\ u.msgs[k] = m.run[r].msgs[k])
      /\ \A k \in DOMAIN u.msgs :
           \/ u.msgs[k] = rec.inc
           \/ (Known(m, r) /\ k \in DOMAIN m.run[r].msgs /\ u.msgs[k] = m.run[r].msgs[k])
  <2>1. CASE Known(m, r)
    <3>. DEFINE s == m.run[r].msgs
    <3>1. u.msgs = Append(s, rec.inc) /\ u.conv = m.run[r].conv
      BY <2>1 DEF RunAfter
    <3>2. m.run[r] \in RunRecords
      BY <1>2, <2>1, HomeExists
    <3>3. s \in Seq(Nat) /\ Increasing(s)
      BY <1>2, <2>1, <3>2 DEF Holds, RunRecords
    <3>4. \A k \in DOMAIN s : s[k] < rec.inc
      BY <1>2, <2>1 DEF Holds
    <3>5. m.run[r].conv = rec.conv
      BY <1>2, <2>1 DEF Holds
    <3>. HIDE DEF s, u
    <3>6. /\ Increasing(Append(s, rec.inc))
          /\ \A k \in DOMAIN s : k \in DOMAIN Append(s, rec.inc) /\ Append(s, rec.inc)[k] = s[k]
          /\ \E k \in DOMAIN Append(s, rec.inc) : Append(s, rec.inc)[k] = rec.inc
          /\ \A k \in DOMAIN Append(s, rec.inc) :
                Append(s, rec.inc)[k] = rec.inc \/ (k \in DOMAIN s /\ Append(s, rec.inc)[k] = s[k])
      BY <1>2, <3>3, <3>4, IncreasingAppend
    <3>. QED
      BY <2>1, <3>1, <3>5, <3>6 DEF s
  <2>2. CASE ~Known(m, r)
    <3>1. u.msgs = <<rec.inc>> /\ u.conv = rec.conv
      BY <2>2 DEF RunAfter
    <3>2. DOMAIN <<rec.inc>> = {1} /\ <<rec.inc>>[1] = rec.inc
      OBVIOUS
    <3>. HIDE DEF u
    <3>. QED
      BY <2>2, <3>1, <3>2 DEF Increasing
  <2>. QED
    BY <2>1, <2>2
<1>. HIDE DEF n, u
<1>5. ASSUME NEW x \in X \cup {rec}
      PROVE  /\ Known(n, x.run) /\ n.run[x.run].conv = x.conv
             /\ \E k \in DOMAIN n.run[x.run].msgs : n.run[x.run].msgs[k] = x.inc
  <2>1. CASE x = rec
    BY <1>1, <1>3, <1>4, <2>1
  <2>2. CASE x \in X /\ x.run = r
    <3>1. Known(m, r) /\ \E k \in DOMAIN m.run[r].msgs : m.run[r].msgs[k] = x.inc
      BY <2>2 DEF Holds
    <3>2. x.conv = rec.conv
      BY <2>2
    <3>. QED
      BY <1>1, <1>3, <1>4, <2>2, <3>1, <3>2
  <2>3. CASE x \in X /\ x.run # r
    <3>1. /\ Known(m, x.run) /\ m.run[x.run].conv = x.conv
          /\ \E k \in DOMAIN m.run[x.run].msgs : m.run[x.run].msgs[k] = x.inc
      BY <2>3 DEF Holds
    <3>2. n.run[x.run] = m.run[x.run]
      BY <1>3, <2>3, <3>1 DEF Known
    <3>. QED
      BY <1>1, <3>1, <3>2
  <2>. QED
    BY <2>1, <2>2, <2>3
<1>6. ASSUME NEW z \in Runs, Known(n, z)
      PROVE  /\ Increasing(n.run[z].msgs)
             /\ \A k \in DOMAIN n.run[z].msgs : \E x \in X \cup {rec} : x.run = z /\ x.inc = n.run[z].msgs[k]
             /\ \E x \in X \cup {rec} : x.run = z
  <2>1. CASE z = r
    <3>1. \A k \in DOMAIN u.msgs : \E x \in X \cup {rec} : x.run = r /\ x.inc = u.msgs[k]
      <4>. SUFFICES ASSUME NEW k \in DOMAIN u.msgs PROVE \E x \in X \cup {rec} : x.run = r /\ x.inc = u.msgs[k]
        OBVIOUS
      <4>1. CASE u.msgs[k] = rec.inc
        BY <4>1
      <4>2. CASE Known(m, r) /\ k \in DOMAIN m.run[r].msgs /\ u.msgs[k] = m.run[r].msgs[k]
        BY <1>2, <4>2 DEF Holds
      <4>. QED
        BY <1>4, <4>1, <4>2
    <3>. QED
      BY <1>3, <1>4, <2>1, <3>1
  <2>2. CASE z # r
    BY <1>1, <1>3, <1>6, <2>2 DEF Holds
  <2>. QED
    BY <2>1, <2>2
<1>7. Holds(n, X \cup {rec})
  BY <1>1, <1>5, <1>6 DEF Holds
<1>. QED
  BY <1>7 DEF n

\* A summary record applied: no increment is lost.
LEMMA SummaryHolds ==
  ASSUME NEW m, NEW X, Holds(m, X), NEW rec \in SummaryRecords
  PROVE  Holds(ApplyRecord(m, rec), X)
<1>1. /\ rec.thread \in Threads /\ rec.upTo \in Runs
      /\ ApplyRecord(m, rec) = SaveSummaryInMemory(m, rec.thread, rec.upTo)
  BY NotJunk DEF SummaryRecords, ApplyRecord
<1>. DEFINE n == SaveSummaryInMemory(m, rec.thread, rec.upTo)
<1>2. Sound(n) /\ n.run = m.run
  BY <1>1, SummarySound DEF Holds
<1>. HIDE DEF n
<1>3. \A r : Known(n, r) <=> Known(m, r)
  BY <1>2 DEF Known
<1>4. Holds(n, X)
  BY <1>2, <1>3 DEF Holds
<1>. QED
  BY <1>1, <1>4 DEF n

\* A file replayed: what the memory held it holds, and every increment of the file.
LEMMA FileHolds ==
  ASSUME NEW m, NEW X \in SUBSET MessageRecords, Holds(m, X), NEW c, NEW s \in Seq(Records),
         \A i, j \in DOMAIN s : i < j /\ s[i] \in MessageRecords /\ s[j] \in MessageRecords => s[i].inc < s[j].inc,
         \A rec \in Messages(s) : rec.conv = c /\ \A x \in X : x.run # rec.run
  PROVE  Holds(ReplayLines(m, s), X \cup Messages(s))
<1>1. Len(s) \in Nat /\ DOMAIN s = 1..Len(s)
  BY LenProperties
<1>. DEFINE Y(n) == X \cup MessagesUpTo(s, n)
            F == [n \in 0..Len(s) |-> {x \in Mems : Holds(x, Y(n))}]
<1>2. m \in F[0]
  <2>1. MessagesUpTo(s, 0) = {}
    BY <1>1 DEF MessagesUpTo
  <2>2. m \in Mems /\ Holds(m, Y(0))
    BY <2>1 DEF Holds, Sound
  <2>. QED
    BY <1>1, <2>2
<1>3. ASSUME NEW n \in 1..Len(s), NEW x \in F[n - 1] PROVE ApplyRecord(x, s[n]) \in F[n]
  <2>1. n \in 0..Len(s) /\ n - 1 \in 0..Len(s) /\ n \in DOMAIN s /\ s[n] \in Records
    BY <1>1
  <2>2. Holds(x, Y(n - 1))
    BY <2>1
  <2>3. Holds(ApplyRecord(x, s[n]), Y(n))
    <3>1. CASE s[n] \in MessageRecords
      <4>1. MessagesUpTo(s, n) = MessagesUpTo(s, n - 1) \cup {s[n]}
        BY <1>1, <2>1, <3>1 DEF MessagesUpTo
      <4>2. \A z \in Y(n - 1) : z.run = s[n].run => z.inc < s[n].inc /\ z.conv = s[n].conv
        <5>. SUFFICES ASSUME NEW z \in Y(n - 1), z.run = s[n].run PROVE z.inc < s[n].inc /\ z.conv = s[n].conv
          OBVIOUS
        <5>1. s[n] \in Messages(s)
          BY <2>1, <3>1 DEF Messages
        <5>2. z \in MessagesUpTo(s, n - 1)
          BY <5>1
        <5>3. PICK i \in DOMAIN s : i <= n - 1 /\ s[i] = z /\ z \in MessageRecords
          BY <5>2 DEF MessagesUpTo
        <5>4. i < n /\ z \in Messages(s)
          BY <1>1, <2>1, <5>3 DEF Messages
        <5>. QED
          BY <2>1, <3>1, <5>1, <5>3, <5>4
      <4>3. Y(n - 1) \in SUBSET MessageRecords /\ Y(n) = Y(n - 1) \cup {s[n]}
        BY <4>1 DEF MessagesUpTo
      <4>. HIDE DEF Y
      <4>4. Holds(ApplyRecord(x, s[n]), Y(n - 1) \cup {s[n]})
        BY <2>2, <3>1, <4>2, <4>3, ApplyHolds
      <4>. QED
        BY <4>3, <4>4
    <3>2. CASE s[n] \notin MessageRecords
      <4>1. s[n] \in SummaryRecords
        BY <2>1, <3>2 DEF Records
      <4>2. MessagesUpTo(s, n) = MessagesUpTo(s, n - 1)
        BY <1>1, <2>1, <3>2 DEF MessagesUpTo
      <4>3. Y(n) = Y(n - 1)
        BY <4>2
      <4>. HIDE DEF Y
      <4>. QED
        BY <2>2, <4>1, <4>3, SummaryHolds
    <3>. QED
      BY <3>1, <3>2
  <2>4. ApplyRecord(x, s[n]) \in Mems
    BY <2>3 DEF Holds, Sound
  <2>. QED
    BY <2>1, <2>3, <2>4
<1>4. ReplayLines(m, s) \in F[Len(s)]
  <2>. HIDE DEF F
  <2>. QED
    BY <1>2, <1>3, ReplayInduction
<1>5. MessagesUpTo(s, Len(s)) = Messages(s)
  BY <1>1 DEF MessagesUpTo, Messages
<1>. QED
  BY <1>1, <1>4, <1>5

\* All files replayed: the memory holds every increment in them.
LEMMA ReplayHolds ==
  ASSUME NEW fs, InOrder(fs)
  PROVE  Holds(Replay(fs), UNION {Messages(Readable(fs[c])) : c \in Convs})
<1>. DEFINE N == Cardinality(Convs)
            q == SetToSeq(Convs)
            Rs(c) == Messages(Readable(fs[c]))
<1>1. /\ N \in Nat /\ q \in [1..N -> Convs]
      /\ \A i, j \in 1..N : q[i] = q[j] => i = j
      /\ \A c \in Convs : \E i \in 1..N : q[i] = c
  BY OrderOfFiles
<1>. HIDE DEF N, q
<1>2. /\ \A c : Rs(c) \in SUBSET MessageRecords
      /\ \A c \in Convs : \A rec \in Rs(c) : rec.conv = c
      /\ \A c, d \in Convs : \A x \in Rs(c), y \in Rs(d) : x.run = y.run => c = d
  BY DEF InOrder, Messages
<1>. HIDE DEF Rs
<1>. DEFINE X(n) == UNION {Rs(q[i]) : i \in 1..n}
            F == [n \in 0..N |-> {x \in Mems : Holds(x, X(n))}]
<1>3. EmptyMem \in F[0]
  <2>1. X(0) = {}
    OBVIOUS
  <2>2. Sound(EmptyMem) /\ \A r \in Runs : ~Known(EmptyMem, r)
    BY EmptySound DEF EmptyMem, Known
  <2>3. Holds(EmptyMem, X(0)) /\ EmptyMem \in Mems
    BY <2>1, <2>2 DEF Holds, Sound
  <2>. QED
    BY <1>1, <2>3
<1>4. ASSUME NEW n \in 1..N, NEW x \in F[n - 1] PROVE ReplayFile(x, fs[q[n]]) \in F[n]
  <2>. DEFINE c == q[n]
              s == Readable(fs[c])
  <2>1. n \in 0..N /\ n - 1 \in 0..N /\ c \in Convs
    BY <1>1
  <2>2. Holds(x, X(n - 1)) /\ X(n - 1) \in SUBSET MessageRecords
    BY <1>2, <2>1
  <2>3. s \in Seq(Records)
        /\ \A i, j \in DOMAIN s : i < j /\ s[i] \in MessageRecords /\ s[j] \in MessageRecords => s[i].inc < s[j].inc
    BY <2>1 DEF InOrder
  <2>4. \A rec \in Messages(s) : rec.conv = c /\ \A z \in X(n - 1) : z.run # rec.run
    <3>. SUFFICES ASSUME NEW rec \in Rs(c) PROVE rec.conv = c /\ \A z \in X(n - 1) : z.run # rec.run
      BY DEF Rs
    <3>1. ASSUME NEW z \in X(n - 1), z.run = rec.run PROVE FALSE
      <4>1. PICK i \in 1..(n - 1) : z \in Rs(q[i])
        OBVIOUS
      <4>2. i \in 1..N /\ i # n /\ q[i] \in Convs
        BY <1>1
      <4>3. q[i] = c
        BY <1>2, <2>1, <3>1, <4>1, <4>2
      <4>. QED
        BY <1>1, <4>2, <4>3
    <3>. QED
      BY <1>2, <2>1, <3>1
  <2>5. X(n) = X(n - 1) \cup Messages(s)
    <3>1. 1..n = (1..(n - 1)) \cup {n}
      BY <1>1
    <3>2. Messages(s) = Rs(q[n])
      BY DEF Rs
    <3>. HIDE DEF s
    <3>. QED
      BY <3>1, <3>2
  <2>. HIDE DEF X, s
  <2>6. Holds(ReplayLines(x, s), X(n - 1) \cup Messages(s))
    BY <2>2, <2>3, <2>4, FileHolds
  <2>7. ReplayFile(x, fs[q[n]]) = ReplayLines(x, s)
    BY DEF ReplayFile, s
  <2>8. Holds(ReplayFile(x, fs[q[n]]), X(n)) /\ ReplayFile(x, fs[q[n]]) \in Mems
    BY <2>5, <2>6, <2>7 DEF Holds, Sound
  <2>. QED
    BY <2>1, <2>8
<1>5. Replay(fs) \in F[N]
  <2>. HIDE DEF F
  <2>. QED
    BY <1>3, <1>4, FilesInduction DEF N, q
<1>6. Holds(Replay(fs), X(N))
  BY <1>1, <1>5
<1>7. X(N) = UNION {Rs(c) : c \in Convs}
  BY <1>1
<1>. QED
  BY <1>6, <1>7 DEF Rs

\* The increments in the files and in the memory, while no torn write is glued
\* to another: numbered as they were saved, those acknowledged in whole lines,
\* and only the one under way not yet certain.
LinesKept ==
  /\ InOrder(file)
  /\ \A c \in Convs : \A rec \in Messages(Readable(file[c])) :
        /\ rec.inc <= saves /\ (op.pc = "write" => rec.inc < saves)
        /\ up = "up" => Known(mem, rec.run) /\ mem.run[rec.run].conv = c
  /\ op # NoOp /\ op.rec \in MessageRecords =>
        /\ op.rec.inc = saves /\ op.rec.conv = op.conv
        /\ Known(mem, op.rec.run) /\ mem.run[op.rec.run].conv = op.conv
  /\ op.pc = "sync" =>
        LET f == file[op.conv] IN f.lines # <<>> /\ Last(f.lines) = op.rec /\ f.tail = <<>>

AcksKept ==
  /\ \A i \in DOMAIN acked :
        /\ \E c \in Convs : \E rec \in Messages(file[c].lines) : rec.run = acked[i].run /\ rec.inc = acked[i].inc
        /\ acked[i].inc <= saves
        /\ op # NoOp /\ op.rec \in MessageRecords => acked[i].inc < saves
  /\ \A i, j \in DOMAIN acked : i < j => acked[i].inc < acked[j].inc

AckInv == ~Glued => LinesKept /\ AcksKept

\* A file that lost its last records, or gained a later one.
LEMMA ShorterInOrder ==
  ASSUME NEW fs, fs \in [Convs -> Files], InOrder(fs), NEW c \in Convs, NEW f,
         Readable(f) \in Seq(Records),
         \A i \in DOMAIN Readable(f) : i \in DOMAIN Readable(fs[c]) /\ Readable(f)[i] = Readable(fs[c])[i]
  PROVE  /\ InOrder([fs EXCEPT ![c] = f])
         /\ Messages(Readable(f)) \subseteq Messages(Readable(fs[c]))
<1>. DEFINE gs == [fs EXCEPT ![c] = f]
<1>1. gs[c] = f /\ \A d \in Convs : d # c => gs[d] = fs[d]
  OBVIOUS
<1>. HIDE DEF gs
<1>2. Messages(Readable(f)) \subseteq Messages(Readable(fs[c]))
  BY DEF Messages
<1>3. \A d \in Convs : Readable(gs[d]) \in Seq(Records) /\ Messages(Readable(gs[d])) \subseteq Messages(Readable(fs[d]))
  BY <1>1, <1>2 DEF InOrder
<1>4. ASSUME NEW d \in Convs, NEW i \in DOMAIN Readable(gs[d]), NEW j \in DOMAIN Readable(gs[d]), i < j,
             Readable(gs[d])[i] \in MessageRecords, Readable(gs[d])[j] \in MessageRecords
      PROVE  Readable(gs[d])[i].inc < Readable(gs[d])[j].inc
  <2>1. /\ i \in DOMAIN Readable(fs[d]) /\ j \in DOMAIN Readable(fs[d])
        /\ Readable(gs[d])[i] = Readable(fs[d])[i] /\ Readable(gs[d])[j] = Readable(fs[d])[j]
    BY <1>1, <1>4
  <2>. QED
    BY <1>4, <2>1 DEF InOrder
<1>5. InOrder(gs)
  BY <1>3, <1>4 DEF InOrder
<1>. QED
  BY <1>2, <1>5 DEF gs

ComesNext(fs, c, rec) ==
  rec \in MessageRecords =>
    /\ rec.conv = c
    /\ \A x \in Messages(Readable(fs[c])) : x.inc < rec.inc
    /\ \A d \in Convs : \A x \in Messages(Readable(fs[d])) : x.run = rec.run => d = c

\* The files stay in order when the record with the next number is written.
LEMMA LongerInOrder ==
  ASSUME NEW fs, fs \in [Convs -> Files], InOrder(fs), NEW c \in Convs, NEW f, NEW rec \in Records,
         Readable(f) = Append(Readable(fs[c]), rec), ComesNext(fs, c, rec)
  PROVE  /\ InOrder([fs EXCEPT ![c] = f])
         /\ \A x \in Messages(Readable(f)) : x \in Messages(Readable(fs[c])) \/ x = rec
<1>. DEFINE gs == [fs EXCEPT ![c] = f]
            s == Readable(fs[c])
            q == Append(s, rec)
<1>1. gs[c] = f /\ \A d \in Convs : d # c => gs[d] = fs[d]
  OBVIOUS
<1>2. s \in Seq(Records)
  BY DEF InOrder
<1>. HIDE DEF gs, s
<1>3. /\ q \in Seq(Records) /\ Len(s) \in Nat /\ DOMAIN s = 1..Len(s)
      /\ DOMAIN q = 1..(Len(s) + 1) /\ (\A i \in 1..Len(s) : q[i] = s[i]) /\ q[Len(s) + 1] = rec
  BY <1>2
<1>. HIDE DEF q
<1>4. Messages(q) = Messages(s) \cup ({rec} \cap MessageRecords)
  BY <1>3 DEF Messages
<1>5. Readable(gs[c]) = q
  BY <1>1 DEF q, s
<1>6. ASSUME NEW i \in DOMAIN q, NEW j \in DOMAIN q, i < j, q[i] \in MessageRecords, q[j] \in MessageRecords
      PROVE  q[i].inc < q[j].inc
  <2>1. i \in DOMAIN s /\ q[i] = s[i] /\ s[i] \in Messages(s)
    BY <1>3, <1>6 DEF Messages
  <2>2. CASE j = Len(s) + 1
    BY <1>3, <1>6, <2>1, <2>2 DEF s, ComesNext
  <2>3. CASE j # Len(s) + 1
    <3>1. j \in DOMAIN s /\ q[j] = s[j]
      BY <1>3, <2>3
    <3>. QED
      BY <1>6, <2>1, <3>1 DEF InOrder, s
  <2>. QED
    BY <2>2, <2>3
<1>7. \A d \in Convs : Readable(gs[d]) \in Seq(Records)
  BY <1>1, <1>3, <1>5 DEF InOrder
<1>8. \A d \in Convs : \A i, j \in DOMAIN Readable(gs[d]) :
         i < j /\ Readable(gs[d])[i] \in MessageRecords /\ Readable(gs[d])[j] \in MessageRecords
           => Readable(gs[d])[i].inc < Readable(gs[d])[j].inc
  BY <1>1, <1>5, <1>6 DEF InOrder
<1>9. \A d \in Convs : \A x \in Messages(Readable(gs[d])) :
         x \in Messages(Readable(fs[d])) \/ (d = c /\ x = rec /\ rec \in MessageRecords)
  BY <1>1, <1>4, <1>5 DEF s
<1>10. \A d \in Convs : \A x \in Messages(Readable(gs[d])) : x.conv = d
  BY <1>9 DEF InOrder, ComesNext
<1>11. \A d, e \in Convs : \A x \in Messages(Readable(gs[d])), y \in Messages(Readable(gs[e])) :
          x.run = y.run => d = e
  <2>. SUFFICES ASSUME NEW d \in Convs, NEW e \in Convs, NEW x \in Messages(Readable(gs[d])),
                       NEW y \in Messages(Readable(gs[e])), x.run = y.run
                PROVE  d = e
    OBVIOUS
  <2>1. CASE x \in Messages(Readable(fs[d])) /\ y \in Messages(Readable(fs[e]))
    BY <2>1 DEF InOrder
  <2>2. CASE d = c /\ x = rec /\ rec \in MessageRecords
    BY <1>9, <2>2 DEF ComesNext
  <2>3. CASE e = c /\ y = rec /\ rec \in MessageRecords
    BY <1>9, <2>3 DEF ComesNext
  <2>. QED
    BY <1>9, <2>1, <2>2, <2>3
<1>12. InOrder(gs)
  BY <1>7, <1>8, <1>10, <1>11 DEF InOrder
<1>13. q = Readable(f)
  BY DEF q, s
<1>14. \A x \in Messages(Readable(f)) : x \in Messages(s) \/ x = rec
  BY <1>4, <1>13
<1>. QED
  BY <1>12, <1>14 DEF gs, s

\* A record not yet written goes to the end of its file, whole or in part.
LEMMA NextLineInOrder ==
  ASSUME TypeOK, LinesKept, op.pc = "write", NEW f, Readable(f) = Append(Readable(file[op.conv]), op.rec)
  PROVE  /\ InOrder([file EXCEPT ![op.conv] = f])
         /\ \A x \in Messages(Readable(f)) : x \in Messages(Readable(file[op.conv])) \/ x = op.rec
<1>. DEFINE c == op.conv
            rec == op.rec
<1>1. op # NoOp /\ c \in Convs /\ rec \in Records /\ up = "up" /\ file \in [Convs -> Files] /\ InOrder(file)
  BY StateFields, OpFields DEF TypeOK, LinesKept
<1>2. rec \in MessageRecords => rec.conv = c /\ rec.inc = saves /\ mem.run[rec.run].conv = c
  BY <1>1 DEF LinesKept
<1>3. rec \in MessageRecords => \A x \in Messages(Readable(file[c])) : x.inc < rec.inc
  BY <1>1, <1>2 DEF LinesKept
<1>4. rec \in MessageRecords => \A d \in Convs : \A x \in Messages(Readable(file[d])) : x.run = rec.run => d = c
  BY <1>1, <1>2 DEF LinesKept
<1>5. ComesNext(file, c, rec) /\ Readable(f) = Append(Readable(file[c]), rec)
  BY <1>2, <1>3, <1>4 DEF ComesNext
<1>. HIDE DEF c, rec
<1>6. /\ InOrder([file EXCEPT ![c] = f])
      /\ \A x \in Messages(Readable(f)) : x \in Messages(Readable(file[c])) \/ x = rec
  BY <1>1, <1>5, LongerInOrder
<1>. QED
  BY <1>6 DEF c, rec

\* What a write that fails, or that a crash cuts short, leaves in the file.
LEMMA PartlyInOrder ==
  ASSUME TypeOK, ~Glued, LinesKept, op.pc = "write", NEW f \in PartlyWritten(file[op.conv], op.rec)
  PROVE  /\ InOrder([file EXCEPT ![op.conv] = f])
         /\ f.lines = file[op.conv].lines
         /\ \A x \in Messages(Readable(f)) : x \in Messages(Readable(file[op.conv])) \/ x = op.rec
<1>. DEFINE c == op.conv
            g == file[c]
<1>1. op # NoOp /\ c \in Convs /\ op.rec \in Records /\ file \in [Convs -> Files] /\ g \in Files /\ InOrder(file)
  BY StateFields, OpFields DEF TypeOK, LinesKept
<1>2. Junk \notin ToSet(g.lines)
  BY <1>1 DEF Glued, Replayable
<1>3. /\ f.lines = g.lines
      /\ f = g \/ Readable(f) = g.lines \/ (g.tail = <<>> /\ Readable(f) = Append(g.lines, op.rec))
  BY <1>1, PartlyReadable
<1>4. g.lines \in Seq(Records) /\ Readable(g) \in Seq(Records) /\ (g.tail = <<>> => Readable(g) = g.lines)
  BY <1>1, <1>2, ReadableLines
<1>5. \A i \in DOMAIN g.lines : i \in DOMAIN Readable(g) /\ Readable(g)[i] = g.lines[i]
  BY <1>1, <1>2, LinesReadable
<1>6. CASE f = g \/ Readable(f) = g.lines
  <2>1. /\ Readable(f) \in Seq(Records)
        /\ \A i \in DOMAIN Readable(f) : i \in DOMAIN Readable(g) /\ Readable(f)[i] = Readable(g)[i]
    BY <1>4, <1>5, <1>6
  <2>2. InOrder([file EXCEPT ![c] = f]) /\ Messages(Readable(f)) \subseteq Messages(Readable(g))
    BY <1>1, <2>1, ShorterInOrder
  <2>. QED
    BY <1>3, <2>2
<1>7. CASE g.tail = <<>> /\ Readable(f) = Append(g.lines, op.rec)
  <2>1. Readable(f) = Append(Readable(g), op.rec)
    BY <1>4, <1>7
  <2>. QED
    BY <1>3, <2>1, NextLineInOrder
<1>. QED
  BY <1>3, <1>6, <1>7

\* The numbers of saves, of acknowledged increments and of records are numbers.
LEMMA AckNumbers ==
  ASSUME TypeOK
  PROVE  /\ saves \in Nat /\ \A i \in DOMAIN acked : acked[i].inc \in Nat /\ acked[i].run \in Runs
         /\ \A s : \A rec \in Messages(s) : rec \in MessageRecords /\ rec.inc \in Nat /\ rec.run \in Runs
<1>1. saves \in Nat /\ \A i \in DOMAIN acked : acked[i] \in Acks
  BY DEF TypeOK
<1>2. \A s : \A rec \in Messages(s) : rec \in MessageRecords
  BY DEF Messages
<1>. QED
  BY <1>1, <1>2 DEF Acks, MessageRecords

\* A save takes a number above all that were written or acknowledged.
LEMMA SaveAcks ==
  ASSUME TypeOK, LinesKept, AcksKept, NEW x \in Managers, NEW complete \in BOOLEAN, Save(x, complete)
  PROVE  LinesKept' /\ AcksKept'
<1>. DEFINE r == mgr[x].run
<1>1. /\ op' = [pc |-> "write", by |-> x, rec |-> MessageRecord(mem', r, saves + 1), conv |-> mem'.run[r].conv]
      /\ saves' = saves + 1 /\ UNCHANGED <<file, up, acked>>
      /\ \A z : Known(mem', z) <=> z = r \/ Known(mem, z)
      /\ \A z \in Runs : Known(mem, z) => mem'.run[z].conv = mem.run[z].conv
  BY SaveFacts
<1>. HIDE DEF r
<1>2. /\ op'.pc = "write" /\ op'.rec.run = r /\ op'.rec.inc = saves + 1
      /\ op'.rec.conv = op'.conv /\ op'.conv = mem'.run[r].conv
  BY <1>1 DEF MessageRecord
<1>3. InOrder(file')
  BY <1>1 DEF LinesKept
<1>4. ASSUME NEW c \in Convs, NEW rec \in Messages(Readable(file'[c]))
      PROVE  rec.inc < saves' /\ (up' = "up" => Known(mem', rec.run) /\ mem'.run[rec.run].conv = c)
  <2>1. rec.inc <= saves /\ (up = "up" => Known(mem, rec.run) /\ mem.run[rec.run].conv = c)
    BY <1>1, <1>4 DEF LinesKept
  <2>2. rec.inc \in Nat /\ saves \in Nat /\ rec.run \in Runs
    BY AckNumbers
  <2>. QED
    BY <1>1, <2>1, <2>2
<1>5. LinesKept'
  <2>1. \A c \in Convs : \A rec \in Messages(Readable(file'[c])) : rec.inc <= saves'
    BY <1>1, <1>4, AckNumbers
  <2>. QED
    BY <1>1, <1>2, <1>3, <1>4, <2>1 DEF LinesKept
<1>6. AcksKept'
  <2>1. \A i \in DOMAIN acked : acked[i].inc < saves' /\ acked[i].inc <= saves'
    BY <1>1, AckNumbers DEF AcksKept
  <2>. QED
    BY <1>1, <2>1 DEF AcksKept
<1>. QED
  BY <1>5, <1>6

\* A saved summary has no increment to keep.
LEMMA SaveSummaryAcks ==
  ASSUME TypeOK, LinesKept, AcksKept, NEW x \in Managers, SaveSummary(x)
  PROVE  LinesKept' /\ AcksKept'
<1>1. /\ op'.rec \notin MessageRecords /\ op'.pc = "write"
      /\ saves' = saves + 1 /\ mem'.run = mem.run /\ UNCHANGED <<file, up, acked>>
      /\ \A r : Known(mem', r) <=> Known(mem, r)
  BY SaveSummaryFacts, NotJunk
<1>2. ASSUME NEW c \in Convs, NEW rec \in Messages(Readable(file'[c]))
      PROVE  /\ rec.inc < saves' /\ rec.inc <= saves'
             /\ up' = "up" => Known(mem', rec.run) /\ mem'.run[rec.run].conv = c
  <2>1. rec.inc <= saves /\ (up = "up" => Known(mem, rec.run) /\ mem.run[rec.run].conv = c)
    BY <1>1, <1>2 DEF LinesKept
  <2>2. rec.inc \in Nat /\ saves \in Nat
    BY AckNumbers
  <2>. QED
    BY <1>1, <2>1, <2>2
<1>3. LinesKept'
  BY <1>1, <1>2 DEF LinesKept
<1>4. AcksKept'
  <2>1. \A i \in DOMAIN acked : acked[i].inc <= saves'
    BY <1>1, AckNumbers DEF AcksKept
  <2>. QED
    BY <1>1, <2>1 DEF AcksKept
<1>. QED
  BY <1>3, <1>4

\* A step that leaves the memory, the files and the acknowledged saves alone.
LEMMA QuietAcks ==
  ASSUME LinesKept, AcksKept, UNCHANGED <<mem, file, up, saves, acked>>, op' = op
  PROVE  LinesKept' /\ AcksKept'
<1>1. LinesKept'
  BY DEF LinesKept
<1>2. AcksKept'
  BY DEF AcksKept
<1>. QED
  BY <1>1, <1>2

\* A sync acknowledges an increment whose record is in its file.
LEMMA SyncAcks ==
  ASSUME TypeOK, ~Glued, LinesKept, AcksKept, Sync
  PROVE  LinesKept' /\ AcksKept'
<1>1. op.pc = "sync" /\ op # NoOp /\ op' = NoOp /\ UNCHANGED <<mem, file, up, saves>>
  BY StateFields DEF Sync
<1>2. LinesKept'
  BY <1>1, StateFields DEF LinesKept
<1>3. CASE op.rec.type = "summary"
  <2>1. UNCHANGED acked
    BY <1>3 DEF Sync
  <2>. QED
    BY <1>1, <1>2, <2>1 DEF AcksKept
<1>4. CASE op.rec.type # "summary"
  <2>. DEFINE a == [run |-> op.rec.run, inc |-> op.rec.inc]
              c == op.conv
  <2>1. acked' = Append(acked, a)
    BY <1>4 DEF Sync
  <2>2. op.rec \in MessageRecords /\ c \in Convs /\ op.rec.inc = saves
    <3>1. op.rec \in Records /\ c \in Convs
      BY <1>1, OpFields
    <3>. QED
      BY <1>1, <1>4, <3>1, NotJunk DEF Records, LinesKept
  <2>3. op.rec \in Messages(file[c].lines)
    <3>. DEFINE s == file[c].lines
    <3>1. s # <<>> /\ Last(s) = op.rec /\ s \in Seq(Records \cup {Junk})
      BY <1>1, <2>2 DEF LinesKept, TypeOK, Files
    <3>. HIDE DEF s
    <3>2. Len(s) \in DOMAIN s /\ s[Len(s)] = op.rec
      BY <3>1 DEF Last
    <3>. QED
      BY <2>2, <3>2 DEF Messages, s
  <2>4. a \in Acks /\ a.run = op.rec.run /\ a.inc = saves /\ acked \in Seq(Acks)
    BY <2>2 DEF Acks, MessageRecords, TypeOK
  <2>. HIDE DEF a, c
  <2>5. /\ DOMAIN acked = 1..Len(acked) /\ Len(acked) \in Nat
        /\ DOMAIN acked' = 1..(Len(acked) + 1)
        /\ \A i \in 1..Len(acked) : acked'[i] = acked[i]
        /\ acked'[Len(acked) + 1] = a
    BY <2>1, <2>4
  <2>6. ASSUME NEW i \in DOMAIN acked'
        PROVE  /\ \E d \in Convs : \E rec \in Messages(file[d].lines) : rec.run = acked'[i].run /\ rec.inc = acked'[i].inc
               /\ acked'[i].inc <= saves
    <3>1. CASE i = Len(acked) + 1
      BY <2>2, <2>3, <2>4, <2>5, <3>1, AckNumbers DEF a
    <3>2. CASE i # Len(acked) + 1
      <4>1. i \in DOMAIN acked /\ acked'[i] = acked[i]
        BY <2>5, <2>6, <3>2
      <4>. QED
        BY <4>1 DEF AcksKept
    <3>. QED
      BY <3>1, <3>2
  <2>7. ASSUME NEW i \in DOMAIN acked', NEW j \in DOMAIN acked', i < j PROVE acked'[i].inc < acked'[j].inc
    <3>1. i \in DOMAIN acked /\ acked'[i] = acked[i]
      BY <2>5, <2>7
    <3>2. CASE j = Len(acked) + 1
      BY <1>1, <2>2, <2>4, <2>5, <3>1, <3>2 DEF AcksKept
    <3>3. CASE j # Len(acked) + 1
      <4>1. j \in DOMAIN acked /\ acked'[j] = acked[j]
        BY <2>5, <2>7, <3>3
      <4>. QED
        BY <2>7, <3>1, <4>1 DEF AcksKept
    <3>. QED
      BY <3>2, <3>3
  <2>8. AcksKept'
    BY <1>1, <2>6, <2>7 DEF AcksKept
  <2>. QED
    BY <1>2, <2>8
<1>. QED
  BY <1>3, <1>4

\* A write keeps the files in order and every acknowledged increment in them.
LEMMA WriteAcks ==
  ASSUME TypeOK, ~Glued, LinesKept, AcksKept, Write, ~Glued'
  PROVE  LinesKept' /\ AcksKept'
<1>. DEFINE c == op.conv
            g == file[c]
            f == Written(g, op.rec)
<1>1. op.pc = "write" /\ file' = [file EXCEPT ![c] = f] /\ UNCHANGED <<mem, up, saves, acked>>
  BY DEF Write
<1>2. op # NoOp /\ c \in Convs /\ op.rec \in Records /\ up = "up" /\ g \in Files /\ Junk \notin ToSet(g.lines)
  BY <1>1, StateFields, OpFields DEF TypeOK, Glued, Replayable
<1>3. op' # NoOp /\ op'.rec = op.rec /\ op'.conv = c /\ op'.pc = "sync"
  BY WriteTypeOK, StateFields
<1>4. file'[c] = f /\ \A d \in Convs : d # c => file'[d] = file[d]
  BY <1>1, <1>2 DEF TypeOK
<1>5. g.tail = <<>>
  <2>. SUFFICES ASSUME g.tail # <<>> PROVE FALSE
    OBVIOUS
  <2>. DEFINE s == g.lines
  <2>1. f.lines = Append(s, Junk)
    BY DEF Written
  <2>2. Junk \notin ToSet(f.lines)
    BY <1>2, <1>4 DEF Glued, Replayable
  <2>3. s \in Seq(Records \cup {Junk}) /\ Junk \in Records \cup {Junk}
    BY <1>2 DEF Files
  <2>. HIDE DEF s, f
  <2>4. Append(s, Junk)[Len(s) + 1] = Junk /\ Len(s) + 1 \in DOMAIN Append(s, Junk)
    BY <2>3
  <2>. QED
    BY <2>1, <2>2, <2>4 DEF ToSet
<1>6. g.lines \in Seq(Records) /\ Readable(g) = g.lines
  BY <1>2, <1>5, ReadableLines
<1>7. f.lines = Append(g.lines, op.rec) /\ f.tail = <<>>
  BY <1>5 DEF Written
<1>. HIDE DEF f, g
<1>8. /\ Append(g.lines, op.rec) # <<>> /\ Last(Append(g.lines, op.rec)) = op.rec
      /\ Append(g.lines, op.rec) \in Seq(Records)
  BY <1>2, <1>6, FrontOfAppend
<1>9. Readable(f) = Append(Readable(g), op.rec)
  <2>1. Append(g.lines, op.rec) \o <<>> = Append(g.lines, op.rec)
    BY <1>8
  <2>2. <<>> # <<Junk>>
    OBVIOUS
  <2>. QED
    BY <1>6, <1>7, <2>1, <2>2 DEF Readable
<1>10. /\ InOrder(file')
       /\ \A x \in Messages(Readable(f)) : x \in Messages(Readable(g)) \/ x = op.rec
  BY <1>1, <1>9, NextLineInOrder DEF g
<1>11. ASSUME NEW d \in Convs, NEW rec \in Messages(Readable(file'[d]))
       PROVE  rec.inc <= saves /\ Known(mem, rec.run) /\ mem.run[rec.run].conv = d
  <2>1. CASE rec \in Messages(Readable(file[d]))
    BY <1>2, <2>1 DEF LinesKept
  <2>2. CASE d = c /\ rec = op.rec
    <3>1. op.rec \in MessageRecords
      BY <2>2 DEF Messages
    <3>. QED
      BY <1>2, <2>2, <3>1, AckNumbers DEF LinesKept
  <2>. QED
    BY <1>4, <1>10, <2>1, <2>2 DEF g
<1>12. LinesKept'
  <2>1. op.rec \in MessageRecords =>
          /\ op.rec.inc = saves /\ op.rec.conv = c /\ Known(mem, op.rec.run) /\ mem.run[op.rec.run].conv = c
    BY <1>2 DEF LinesKept
  <2>. HIDE DEF c
  <2>. QED
    BY <1>1, <1>3, <1>4, <1>7, <1>8, <1>10, <1>11, <2>1 DEF LinesKept
<1>13. AcksKept'
  <2>1. \A d \in Convs : Messages(file[d].lines) \subseteq Messages(file'[d].lines)
    <3>1. \A i \in DOMAIN g.lines : i \in DOMAIN Append(g.lines, op.rec) /\ Append(g.lines, op.rec)[i] = g.lines[i]
      BY <1>2, <1>6
    <3>2. Messages(g.lines) \subseteq Messages(f.lines)
      BY <1>7, <3>1 DEF Messages
    <3>. QED
      BY <1>4, <3>2 DEF g
  <2>2. \A i \in DOMAIN acked' : \E d \in Convs : \E rec \in Messages(file'[d].lines) :
           rec.run = acked'[i].run /\ rec.inc = acked'[i].inc
    BY <1>1, <2>1 DEF AcksKept
  <2>. QED
    BY <1>1, <1>2, <1>3, <2>2 DEF AcksKept
<1>. QED
  BY <1>12, <1>13

\* A failing write leaves what was acknowledged where it is.
LEMMA WriteFailsAcks ==
  ASSUME TypeOK, ~Glued, LinesKept, AcksKept, WriteFails
  PROVE  LinesKept' /\ AcksKept'
<1>. DEFINE c == op.conv
<1>1. op.pc = "write" /\ op' = NoOp /\ UNCHANGED <<mem, up, saves, acked>>
  BY DEF WriteFails
<1>2. op # NoOp /\ c \in Convs /\ op.rec \in Records /\ up = "up"
  BY <1>1, StateFields, OpFields
<1>3. PICK f \in PartlyWritten(file[c], op.rec) : file' = [file EXCEPT ![c] = f]
  BY DEF WriteFails
<1>4. file'[c] = f /\ \A d \in Convs : d # c => file'[d] = file[d]
  BY <1>2, <1>3 DEF TypeOK
<1>5. /\ InOrder(file') /\ f.lines = file[c].lines
      /\ \A x \in Messages(Readable(f)) : x \in Messages(Readable(file[c])) \/ x = op.rec
  BY <1>1, <1>3, PartlyInOrder
<1>6. ASSUME NEW d \in Convs, NEW rec \in Messages(Readable(file'[d]))
      PROVE  rec.inc <= saves /\ Known(mem, rec.run) /\ mem.run[rec.run].conv = d
  <2>1. CASE rec \in Messages(Readable(file[d]))
    BY <1>2, <2>1 DEF LinesKept
  <2>2. CASE d = c /\ rec = op.rec
    <3>1. op.rec \in MessageRecords
      BY <2>2 DEF Messages
    <3>. QED
      BY <1>2, <2>2, <3>1, AckNumbers DEF LinesKept
  <2>. QED
    BY <1>4, <1>5, <2>1, <2>2
<1>7. LinesKept'
  BY <1>1, <1>5, <1>6, StateFields DEF LinesKept
<1>8. AcksKept'
  <2>1. \A d \in Convs : file'[d].lines = file[d].lines
    BY <1>4, <1>5
  <2>. QED
    BY <1>1, <2>1 DEF AcksKept
<1>. QED
  BY <1>7, <1>8

\* A crash can drop only a record that was not acknowledged.
LEMMA CrashAcks ==
  ASSUME TypeOK, ~Glued, LinesKept, AcksKept, Crash
  PROVE  LinesKept' /\ AcksKept'
<1>. DEFINE c == op.conv
            s == file[c].lines
<1>1. up' = "down" /\ op' = NoOp /\ UNCHANGED <<saves, acked>>
  BY DEF Crash
<1>2. /\ InOrder(file')
      /\ \A d \in Convs : \A rec \in Messages(Readable(file'[d])) : rec.inc <= saves
      /\ \A i \in DOMAIN acked : \E d \in Convs : \E rec \in Messages(file'[d].lines) :
            rec.run = acked[i].run /\ rec.inc = acked[i].inc
  <2>1. CASE op.pc = "write"
    <3>1. op # NoOp /\ c \in Convs /\ op.rec \in Records
      BY <2>1, StateFields, OpFields
    <3>2. PICK f \in PartlyWritten(file[c], op.rec) : file' = [file EXCEPT ![c] = f]
      BY <2>1 DEF Crash
    <3>3. file'[c] = f /\ \A d \in Convs : d # c => file'[d] = file[d]
      BY <3>1, <3>2 DEF TypeOK
    <3>4. /\ InOrder(file') /\ f.lines = file[c].lines
          /\ \A x \in Messages(Readable(f)) : x \in Messages(Readable(file[c])) \/ x = op.rec
      BY <2>1, <3>2, PartlyInOrder
    <3>5. ASSUME NEW d \in Convs, NEW rec \in Messages(Readable(file'[d])) PROVE rec.inc <= saves
      <4>1. CASE rec \in Messages(Readable(file[d]))
        BY <4>1 DEF LinesKept
      <4>2. CASE d = c /\ rec = op.rec
        <5>1. op.rec \in MessageRecords
          BY <4>2 DEF Messages
        <5>. QED
          BY <3>1, <4>2, <5>1, AckNumbers DEF LinesKept
      <4>. QED
        BY <3>3, <3>4, <4>1, <4>2
    <3>6. \A d \in Convs : file'[d].lines = file[d].lines
      BY <3>3, <3>4
    <3>. QED
      BY <3>4, <3>5, <3>6 DEF AcksKept
  <2>2. CASE op.pc = "sync" /\ Last(s) = op.rec
    <3>. DEFINE g == [file[c] EXCEPT !.lines = Front(@)]
    <3>1. op # NoOp /\ c \in Convs /\ op.rec \in Records /\ file[c] \in Files /\ g \in Files /\ Junk \notin ToSet(s)
      BY <2>2, StateFields, OpFields, FrontTyped DEF TypeOK, Glued, Replayable
    <3>2. PICK f \in PartlyWritten(g, op.rec) \cup {file[c]} : file' = [file EXCEPT ![c] = f]
      BY <2>2 DEF Crash
    <3>3. file'[c] = f /\ \A d \in Convs : d # c => file'[d] = file[d]
      BY <3>1, <3>2 DEF TypeOK
    <3>4. s # <<>> /\ file[c].tail = <<>> /\ s \in Seq(Records) /\ Readable(file[c]) = s
      BY <2>2, <3>1, ReadableLines DEF LinesKept
    <3>5. g.lines = Front(s) /\ g.tail = <<>>
      BY <3>1, <3>4 DEF Files
    <3>. HIDE DEF g, s
    <3>6. /\ Front(s) \in Seq(Records) /\ s = Append(Front(s), op.rec)
          /\ \A i \in DOMAIN Front(s) : i \in DOMAIN s /\ Front(s)[i] = s[i]
          /\ \A i \in DOMAIN s : s[i] = op.rec \/ \E j \in DOMAIN Front(s) : s[i] = Front(s)[j]
      BY <2>2, <3>4, FrontAndLast
    <3>7. Readable(g) = Front(s)
      <4>1. Front(s) \o <<>> = Front(s)
        BY <3>6
      <4>. QED
        BY <3>5, <4>1 DEF Readable
    <3>8. f.lines \in {s, Front(s)} /\ Readable(f) \in {s, Front(s)}
      <4>1. CASE f = file[c]
        BY <3>4, <4>1 DEF s
      <4>2. CASE f \in PartlyWritten(g, op.rec)
        <5>1. /\ f.lines = g.lines
              /\ f = g \/ Readable(f) = g.lines \/ (g.tail = <<>> /\ Readable(f) = Append(g.lines, op.rec))
          BY <3>1, <4>2, PartlyReadable
        <5>. QED
          BY <3>5, <3>6, <3>7, <5>1
      <4>. QED
        BY <3>2, <4>1, <4>2
    <3>9. InOrder(file') /\ Messages(Readable(f)) \subseteq Messages(Readable(file[c]))
      <4>1. /\ Readable(f) \in Seq(Records)
            /\ \A i \in DOMAIN Readable(f) : i \in DOMAIN Readable(file[c]) /\ Readable(f)[i] = Readable(file[c])[i]
        BY <3>4, <3>6, <3>8
      <4>2. file \in [Convs -> Files] /\ InOrder(file)
        BY DEF TypeOK, LinesKept
      <4>. HIDE DEF c
      <4>3. InOrder([file EXCEPT ![c] = f]) /\ Messages(Readable(f)) \subseteq Messages(Readable(file[c]))
        BY <3>1, <4>1, <4>2, ShorterInOrder
      <4>. QED
        BY <3>2, <4>3 DEF c
    <3>10. \A d \in Convs : \A rec \in Messages(Readable(file'[d])) : rec.inc <= saves
      BY <3>3, <3>9 DEF LinesKept
    <3>11. ASSUME NEW i \in DOMAIN acked
           PROVE  \E d \in Convs : \E rec \in Messages(file'[d].lines) : rec.run = acked[i].run /\ rec.inc = acked[i].inc
      <4>1. PICK d \in Convs : \E rec \in Messages(file[d].lines) : rec.run = acked[i].run /\ rec.inc = acked[i].inc
        BY <3>11 DEF AcksKept
      <4>2. PICK rec \in Messages(file[d].lines) : rec.run = acked[i].run /\ rec.inc = acked[i].inc
        BY <4>1
      <4>3. rec # op.rec
        <5>. SUFFICES ASSUME rec = op.rec PROVE FALSE
          OBVIOUS
        <5>1. op.rec \in MessageRecords
          BY <4>2 DEF Messages
        <5>2. op.rec.inc = saves /\ acked[i].inc < saves
          BY <3>1, <3>11, <5>1 DEF LinesKept, AcksKept
        <5>. QED
          BY <4>2, <5>2, AckNumbers
      <4>4. rec \in Messages(file'[d].lines)
        <5>1. CASE d # c
          BY <3>3, <4>2, <5>1
        <5>2. CASE d = c
          <6>1. rec \in Messages(s)
            BY <4>2, <5>2 DEF s
          <6>2. PICK k \in DOMAIN s : s[k] = rec /\ rec \in MessageRecords
            BY <6>1 DEF Messages
          <6>3. rec \in Messages(Front(s))
            BY <3>6, <4>3, <6>2 DEF Messages
          <6>. QED
            BY <3>3, <3>8, <5>2, <6>1, <6>3
        <5>. QED
          BY <5>1, <5>2
      <4>. QED
        BY <4>2, <4>4
    <3>. QED
      BY <3>9, <3>10, <3>11
  <2>3. CASE op.pc # "write" /\ ~(op.pc = "sync" /\ Last(s) = op.rec)
    <3>1. file' = file
      BY <2>3 DEF Crash
    <3>. QED
      BY <3>1 DEF LinesKept, AcksKept
  <2>. QED
    BY <2>1, <2>2, <2>3
<1>3. LinesKept'
  BY <1>1, <1>2, StateFields DEF LinesKept
<1>4. AcksKept'
  BY <1>1, <1>2 DEF AcksKept
<1>. QED
  BY <1>3, <1>4

\* Opening the files changes no file.
LEMMA OpenAcks ==
  ASSUME TypeOK, ~Glued, LinesKept, AcksKept, Open
  PROVE  LinesKept' /\ AcksKept'
<1>1. op = NoOp /\ op' = NoOp /\ mem' = Replay(file) /\ UNCHANGED <<file, saves, acked>>
  BY DEF Open, TypeOK, Glued
<1>2. Holds(mem', UNION {Messages(Readable(file[c])) : c \in Convs}) /\ InOrder(file)
  BY <1>1, ReplayHolds DEF LinesKept
<1>3. ASSUME NEW c \in Convs, NEW rec \in Messages(Readable(file[c]))
      PROVE  Known(mem', rec.run) /\ mem'.run[rec.run].conv = c
  <2>1. Known(mem', rec.run) /\ mem'.run[rec.run].conv = rec.conv
    BY <1>2 DEF Holds
  <2>2. rec.conv = c
    BY <1>2 DEF InOrder
  <2>. QED
    BY <2>1, <2>2
<1>4. LinesKept'
  BY <1>1, <1>2, <1>3, StateFields DEF LinesKept
<1>5. AcksKept'
  BY <1>1 DEF AcksKept
<1>. QED
  BY <1>4, <1>5

\* Every step keeps the invariant.
LEMMA NextAcks ==
  ASSUME TypeOK, AckInv, [Next]_vars
  PROVE  AckInv'
<1>1. CASE Write
  BY <1>1, WriteKeepsGlued, WriteAcks DEF AckInv
<1>2. CASE Crash
  BY <1>2, CrashKeepsGlued, CrashAcks DEF AckInv
<1>3. CASE WriteFails
  <2>1. Glued' <=> Glued
    <3>1. op.conv \in Convs /\ op.rec \in Records /\ file[op.conv] \in Files
      BY <1>3, StateFields, OpFields DEF WriteFails, TypeOK
    <3>2. PICK f \in PartlyWritten(file[op.conv], op.rec) : file' = [file EXCEPT ![op.conv] = f]
      BY <1>3 DEF WriteFails
    <3>3. f.lines = file[op.conv].lines
      BY <3>1, PartlyReadable
    <3>4. \A d \in Convs : file'[d].lines = file[d].lines
      BY <3>1, <3>2, <3>3 DEF TypeOK
    <3>. QED
      BY <3>4 DEF Glued, Replayable
  <2>. QED
    BY <1>3, <2>1, WriteFailsAcks DEF AckInv
<1>4. ASSUME file' = file, LinesKept /\ AcksKept /\ ~Glued => LinesKept' /\ AcksKept' PROVE AckInv'
  BY <1>4 DEF AckInv, Glued, Replayable
<1>5. CASE Open
  <2>1. file' = file
    BY <1>5 DEF Open
  <2>. QED
    BY <1>4, <1>5, <2>1, OpenAcks
<1>6. CASE Sync
  <2>1. file' = file
    BY <1>6 DEF Sync
  <2>. QED
    BY <1>4, <1>6, <2>1, SyncAcks
<1>7. ASSUME NEW x \in Managers, NEW complete \in BOOLEAN, Save(x, complete) PROVE AckInv'
  <2>1. file' = file
    BY <1>7 DEF Save
  <2>. QED
    BY <1>4, <1>7, <2>1, SaveAcks
<1>8. ASSUME NEW x \in Managers, SaveSummary(x) PROVE AckInv'
  <2>1. file' = file
    BY <1>8 DEF SaveSummary
  <2>. QED
    BY <1>4, <1>8, <2>1, SaveSummaryAcks
<1>9. ASSUME UNCHANGED <<mem, file, up, saves, acked>>, op' = op PROVE AckInv'
  BY <1>4, <1>9, QuietAcks
<1>10. ASSUME NEW x \in Managers, Leave(x) PROVE AckInv'
  BY <1>9, <1>10 DEF Leave
<1>11. ASSUME NEW x \in Managers, NEW t \in Threads, NEW asked \in Runs \cup {None}, NewRun(x, t, asked) PROVE AckInv'
  BY <1>9, <1>11 DEF NewRun
<1>12. CASE UNCHANGED vars
  BY <1>9, <1>12 DEF vars
<1>13. CASE SyncFails
  <2>1. op.pc = "sync" /\ op' = NoOp /\ UNCHANGED <<mem, file, up, saves, acked>>
    BY <1>13 DEF SyncFails
  <2>2. LinesKept => LinesKept'
    BY <2>1, StateFields DEF LinesKept
  <2>3. AcksKept => AcksKept'
    BY <2>1 DEF AcksKept
  <2>. QED
    BY <1>4, <2>1, <2>2, <2>3
<1>. QED
  BY <1>1, <1>2, <1>3, <1>5, <1>6, <1>7, <1>8, <1>10, <1>11, <1>12, <1>13 DEF Next

\* What is kept in the files is what a replay recovers.
LEMMA AckInvSuffices ==
  ASSUME TypeOK, AckInv
  PROVE  AckedSurvives
<1>. SUFFICES ASSUME ~Glued, NEW i \in DOMAIN acked
              PROVE  LET msgs == Replay(file).run[acked[i].run].msgs
                         at == {k \in DOMAIN msgs : msgs[k] = acked[i].inc}
                     IN  /\ Cardinality(at) = 1
                         /\ \A j \in 1..(i - 1) : acked[j].run = acked[i].run =>
                              \E k \in DOMAIN msgs : msgs[k] = acked[j].inc /\ \A l \in at : k < l
  BY DEF AckedSurvives
<1>. DEFINE m == Replay(file)
            r == acked[i].run
            msgs == m.run[r].msgs
            at == {k \in DOMAIN msgs : msgs[k] = acked[i].inc}
            X == UNION {Messages(Readable(file[c])) : c \in Convs}
<1>1. LinesKept /\ AcksKept /\ DOMAIN acked = 1..Len(acked) /\ Len(acked) \in Nat
  BY DEF AckInv, TypeOK
<1>2. Holds(m, X)
  BY <1>1, ReplayHolds DEF LinesKept
<1>3. ASSUME NEW j \in DOMAIN acked
      PROVE  Known(m, acked[j].run) /\ \E k \in DOMAIN m.run[acked[j].run].msgs : m.run[acked[j].run].msgs[k] = acked[j].inc
  <2>1. PICK c \in Convs : \E rec \in Messages(file[c].lines) : rec.run = acked[j].run /\ rec.inc = acked[j].inc
    BY <1>1, <1>3 DEF AcksKept
  <2>2. PICK rec \in Messages(file[c].lines) : rec.run = acked[j].run /\ rec.inc = acked[j].inc
    BY <2>1
  <2>3. rec \in Messages(Readable(file[c]))
    <3>1. PICK k \in DOMAIN file[c].lines : file[c].lines[k] = rec /\ rec \in MessageRecords
      BY <2>2 DEF Messages
    <3>2. file[c] \in Files /\ Junk \notin ToSet(file[c].lines)
      BY DEF TypeOK, Glued, Replayable
    <3>3. k \in DOMAIN Readable(file[c]) /\ Readable(file[c])[k] = rec
      BY <3>1, <3>2, LinesReadable
    <3>. QED
      BY <3>1, <3>3 DEF Messages
  <2>4. rec \in X
    BY <2>3
  <2>. HIDE DEF m, X
  <2>. QED
    BY <1>2, <2>2, <2>4 DEF Holds
<1>. HIDE DEF m, X, r
<1>4. Known(m, r) /\ r \in Runs /\ \E k \in DOMAIN m.run[r].msgs : m.run[r].msgs[k] = acked[i].inc
  BY <1>3 DEF r, Known
<1>5. m.run[r] \in RunRecords
  BY <1>2, <1>4, HomeExists DEF Holds
<1>6. msgs \in Seq(Nat) /\ DOMAIN msgs = 1..Len(msgs) /\ Len(msgs) \in Nat
  <2>1. msgs \in Seq(Nat)
    BY <1>5 DEF RunRecords
  <2>. QED
    BY <2>1
<1>7. Increasing(msgs)
  BY <1>2, <1>4 DEF Holds
<1>8. PICK k \in DOMAIN msgs : msgs[k] = acked[i].inc
  BY <1>4
<1>. HIDE DEF msgs
<1>9. \A a \in DOMAIN msgs : msgs[a] \in Nat /\ a \in Nat
  BY <1>6
<1>10. at = {k}
  <2>1. ASSUME NEW a \in DOMAIN msgs, msgs[a] = acked[i].inc PROVE a = k
    <3>1. ~(a < k) /\ ~(k < a)
      BY <1>7, <1>8, <1>9, <2>1 DEF Increasing
    <3>. QED
      BY <1>8, <1>9, <2>1, <3>1
  <2>. QED
    BY <1>8, <2>1
<1>11. Cardinality(at) = 1
  BY <1>10, FS_Singleton
<1>12. ASSUME NEW j \in 1..(i - 1), acked[j].run = r
       PROVE  \E b \in DOMAIN msgs : msgs[b] = acked[j].inc /\ \A l \in at : b < l
  <2>1. j \in DOMAIN acked /\ j < i
    BY <1>1, <1>12
  <2>2. PICK b \in DOMAIN msgs : msgs[b] = acked[j].inc
    BY <1>3, <1>12, <2>1 DEF msgs
  <2>3. msgs[b] < msgs[k]
    BY <1>1, <1>8, <2>1, <2>2 DEF AcksKept
  <2>4. b < k
    <3>1. ~(k < b) /\ b # k
      BY <1>7, <1>8, <1>9, <2>2, <2>3 DEF Increasing
    <3>. QED
      BY <1>8, <1>9, <2>2, <3>1
  <2>. QED
    BY <1>10, <2>2, <2>4
<1>. QED
  BY <1>11, <1>12 DEF m, msgs, r

\* Nothing is written and nothing acknowledged at first.
LEMMA InitAcks == Init => AckInv
<1>. SUFFICES ASSUME Init PROVE AckInv
  OBVIOUS
<1>1. <<>> \in Seq(Records) /\ DOMAIN <<>> = {} /\ <<>> \o <<>> = <<>> /\ <<>> # <<Junk>>
  OBVIOUS
<1>2. /\ \A c \in Convs : file[c].lines = <<>> /\ Readable(file[c]) = <<>>
      /\ op = NoOp /\ acked = <<>>
  BY <1>1 DEF Init, Readable
<1>3. \A c \in Convs : Messages(Readable(file[c])) = {}
  BY <1>1, <1>2 DEF Messages
<1>4. LinesKept
  BY <1>1, <1>2, <1>3, StateFields DEF LinesKept, InOrder
<1>5. AcksKept
  BY <1>1, <1>2 DEF AcksKept
<1>. QED
  BY <1>4, <1>5 DEF AckInv

\* An increment whose save was acknowledged is in the replayed files, once and
\* after those acknowledged before it, whatever managers work on one thread,
\* whichever writes fail and wherever the process dies, until a record is
\* written behind a torn one.
THEOREM AcknowledgedIsDurable == Spec => []AckedSurvives
<1>1. Init => TypeOK /\ AckInv
  BY InitTypeOK, InitAcks
<1>2. TypeOK /\ AckInv /\ [Next]_vars => (TypeOK /\ AckInv)'
  BY NextTypeOK, NextAcks
<1>3. TypeOK /\ AckInv => AckedSurvives
  BY AckInvSuffices
<1>. QED
  BY <1>1, <1>2, <1>3, PTL DEF Spec

=============================================================================
