---------------------------- MODULE ReplayLemmas ----------------------------
(***************************************************************************)
(* What the operators of Persistence do to a memory, for every memory they  *)
(* are used on: a record applied, records replayed, files replayed one      *)
(* after the other, a save, a summary, a load.                             *)
(*                                                                         *)
(* Three ideas carry them.  A record changes one run and one thread         *)
(* (Change).  A record of a conversation reads and changes nothing but that *)
(* conversation's part of the memory (Fits, Within, Part), so replaying the *)
(* files in any order joins the parts that each of them gives alone.  And a *)
(* memory that saves have built is good (Good): every thread lists a chain  *)
(* of runs, all complete but the last, which is where the thread goes on.   *)
(***************************************************************************)
EXTENDS Persistence, DataLemmas, FiniteSetTheorems

-----------------------------------------------------------------------------
(* Replaying records.                                                      *)

\* The memories that replay goes through.
LEMMA ReplaySteps ==
  ASSUME NEW m, NEW S, NEW s \in Seq(S)
  PROVE  \E g : /\ g = [n \in 0..Len(s) |-> IF n = 0 THEN m ELSE ApplyRecord(g[n - 1], s[n])]
                /\ ReplayLines(m, s) = g[Len(s)]
<1>. DEFINE Is(g, k) == g = [n \in 0..k |-> IF n = 0 THEN m ELSE ApplyRecord(g[n - 1], s[n])]
            T == {k \in Nat : \E g : Is(g, k)}
<1>1. 0 \in T
  <2>1. Is([n \in 0..0 |-> m], 0)
    OBVIOUS
  <2>. QED
    BY <2>1
<1>2. ASSUME NEW k \in T PROVE k + 1 \in T
  <2>1. PICK g : Is(g, k)
    OBVIOUS
  <2>. DEFINE e == ApplyRecord(g[k], s[k + 1])
  <2>. DEFINE h == [n \in 0..(k + 1) |-> IF n = k + 1 THEN e ELSE g[n]]
  <2>2. \A n \in 0..k : g[n] = IF n = 0 THEN m ELSE ApplyRecord(g[n - 1], s[n])
    BY <2>1
  <2>3. \A n \in 0..(k + 1) : n # 0 => h[n - 1] = g[n - 1]
    OBVIOUS
  <2>4. ASSUME NEW n \in 0..(k + 1)
        PROVE  h[n] = IF n = 0 THEN m ELSE ApplyRecord(h[n - 1], s[n])
    <3>1. CASE n = k + 1
      <4>1. h[n] = e /\ n - 1 = k /\ n # 0 /\ h[n - 1] = g[k]
        BY <3>1, <2>3
      <4>. QED
        BY <3>1, <4>1
    <3>2. CASE n # k + 1
      <4>1. n \in 0..k /\ h[n] = g[n]
        BY <3>2
      <4>. QED
        BY <2>2, <2>3, <4>1
    <3>. QED
      BY <3>1, <3>2
  <2>5. h = [n \in 0..(k + 1) |-> h[n]]
    OBVIOUS
  <2>. HIDE DEF h
  <2>6. Is(h, k + 1)
    BY <2>4, <2>5
  <2>. QED
    BY <2>6
<1>. HIDE DEF T
<1>3. T = Nat
  <2>1. T \in SUBSET Nat
    BY DEF T
  <2>. QED
    BY <1>1, <1>2, <2>1, InductionOnSets
<1>4. Len(s) \in T
  BY <1>3, LenProperties
<1>5. PICK g0 : Is(g0, Len(s))
  BY <1>4 DEF T
<1>. DEFINE g == CHOOSE h : Is(h, Len(s))
<1>6. Is(g, Len(s))
  BY <1>5
<1>7. ReplayLines(m, s) = g[Len(s)]
  BY DEF ReplayLines
<1>. HIDE DEF g
<1>. QED
  BY <1>6, <1>7

\* Nothing to apply.
LEMMA ReplayNothing == \A m : ReplayLines(m, <<>>) = m
<1>. TAKE m
<1>1. <<>> \in Seq({}) /\ Len(<<>>) = 0
  OBVIOUS
<1>2. PICK g : /\ g = [n \in 0..Len(<<>>) |-> IF n = 0 THEN m ELSE ApplyRecord(g[n - 1], <<>>[n])]
               /\ ReplayLines(m, <<>>) = g[Len(<<>>)]
  BY <1>1, ReplaySteps
<1>3. g[0] = m
  BY <1>1, <1>2
<1>. QED
  BY <1>1, <1>2, <1>3

\* One more record is applied last.
LEMMA ReplayOneMore ==
  ASSUME NEW m, NEW S, NEW s \in Seq(S), NEW rec \in S
  PROVE  ReplayLines(m, Append(s, rec)) = ApplyRecord(ReplayLines(m, s), rec)
<1>. DEFINE t == Append(s, rec)
<1>1. /\ t \in Seq(S) /\ Len(t) = Len(s) + 1 /\ Len(s) \in Nat
      /\ \A i \in 1..Len(s) : t[i] = s[i]
      /\ t[Len(s) + 1] = rec
  BY AppendProperties, LenProperties
<1>. HIDE DEF t
<1>2. PICK g : /\ g = [n \in 0..Len(s) |-> IF n = 0 THEN m ELSE ApplyRecord(g[n - 1], s[n])]
               /\ ReplayLines(m, s) = g[Len(s)]
  BY ReplaySteps
<1>3. PICK h : /\ h = [n \in 0..Len(t) |-> IF n = 0 THEN m ELSE ApplyRecord(h[n - 1], t[n])]
               /\ ReplayLines(m, t) = h[Len(t)]
  BY <1>1, ReplaySteps
<1>. DEFINE T == {k \in Nat : k <= Len(s) => g[k] = h[k]}
<1>4. g[0] = m /\ h[0] = m
  BY <1>1, <1>2, <1>3
<1>5. ASSUME NEW k \in Nat, k < Len(s)
      PROVE  g[k + 1] = ApplyRecord(g[k], s[k + 1]) /\ h[k + 1] = ApplyRecord(h[k], s[k + 1])
  <2>1. k + 1 \in 0..Len(s) /\ k + 1 \in 0..Len(t) /\ k + 1 # 0 /\ (k + 1) - 1 = k /\ t[k + 1] = s[k + 1]
    BY <1>1, <1>5
  <2>2. g[k + 1] = ApplyRecord(g[(k + 1) - 1], s[k + 1])
    BY <1>2, <2>1
  <2>3. h[k + 1] = ApplyRecord(h[(k + 1) - 1], t[k + 1])
    BY <1>3, <2>1
  <2>. QED
    BY <2>1, <2>2, <2>3
<1>6. 0 \in T
  BY <1>4
<1>7. \A k \in T : k + 1 \in T
  <2>. SUFFICES ASSUME NEW k \in Nat, k + 1 <= Len(s), k <= Len(s) => g[k] = h[k]
                PROVE  g[k + 1] = h[k + 1]
    OBVIOUS
  <2>1. k < Len(s) /\ g[k] = h[k]
    BY <1>1
  <2>. QED
    BY <1>5, <2>1
<1>8. Len(s) \in T
  <2>1. T \in SUBSET Nat
    OBVIOUS
  <2>. HIDE DEF T
  <2>2. T = Nat
    BY <1>6, <1>7, <2>1, InductionOnSets
  <2>. QED
    BY <1>1, <2>2
<1>9. g[Len(s)] = h[Len(s)]
  BY <1>8
<1>10. Len(t) \in 0..Len(t) /\ Len(t) # 0 /\ Len(t) - 1 = Len(s) /\ t[Len(t)] = rec
  BY <1>1
<1>11. h[Len(t)] = ApplyRecord(h[Len(t) - 1], t[Len(t)])
  BY <1>3, <1>10
<1>. QED
  BY <1>2, <1>3, <1>9, <1>10, <1>11 DEF t

\* The memories between two files.
LEMMA ReplayFileSteps ==
  ASSUME NEW fs
  PROVE  \E g : /\ g = [n \in 0..Cardinality(Convs) |->
                          IF n = 0 THEN EmptyMem
                          ELSE ReplayFile(g[n - 1], fs[SetToSeq(Convs)[n]])]
                /\ Replay(fs) = g[Cardinality(Convs)]
<1>. DEFINE Is(g, k) == g = [n \in 0..k |-> IF n = 0 THEN EmptyMem
                                            ELSE ReplayFile(g[n - 1], fs[SetToSeq(Convs)[n]])]
            T == {k \in Nat : \E g : Is(g, k)}
<1>1. 0 \in T
  <2>1. Is([n \in 0..0 |-> EmptyMem], 0)
    OBVIOUS
  <2>. QED
    BY <2>1
<1>2. ASSUME NEW k \in T PROVE k + 1 \in T
  <2>1. PICK g : Is(g, k)
    OBVIOUS
  <2>. DEFINE e == ReplayFile(g[k], fs[SetToSeq(Convs)[k + 1]])
  <2>. DEFINE h == [n \in 0..(k + 1) |-> IF n = k + 1 THEN e ELSE g[n]]
  <2>2. \A n \in 0..k : g[n] = IF n = 0 THEN EmptyMem
                               ELSE ReplayFile(g[n - 1], fs[SetToSeq(Convs)[n]])
    BY <2>1
  <2>3. \A n \in 0..(k + 1) : n # 0 => h[n - 1] = g[n - 1]
    OBVIOUS
  <2>4. ASSUME NEW n \in 0..(k + 1)
        PROVE  h[n] = IF n = 0 THEN EmptyMem
                      ELSE ReplayFile(h[n - 1], fs[SetToSeq(Convs)[n]])
    <3>1. CASE n = k + 1
      <4>1. h[n] = e /\ n - 1 = k /\ n # 0 /\ h[n - 1] = g[k]
        BY <3>1, <2>3
      <4>. QED
        BY <3>1, <4>1
    <3>2. CASE n # k + 1
      <4>1. n \in 0..k /\ h[n] = g[n]
        BY <3>2
      <4>. QED
        BY <2>2, <2>3, <4>1
    <3>. QED
      BY <3>1, <3>2
  <2>5. h = [n \in 0..(k + 1) |-> h[n]]
    OBVIOUS
  <2>. HIDE DEF h
  <2>6. Is(h, k + 1)
    BY <2>4, <2>5
  <2>. QED
    BY <2>6
<1>. HIDE DEF T
<1>3. T = Nat
  <2>1. T \in SUBSET Nat
    BY DEF T
  <2>. QED
    BY <1>1, <1>2, <2>1, InductionOnSets
<1>4. Cardinality(Convs) \in T
  BY <1>3, PoolsAreFinite, FS_CardinalityType
<1>5. PICK g0 : Is(g0, Cardinality(Convs))
  BY <1>4 DEF T
<1>. DEFINE g == CHOOSE h : Is(h, Cardinality(Convs))
<1>6. Is(g, Cardinality(Convs))
  BY <1>5
<1>7. Replay(fs) = g[Cardinality(Convs)]
  BY DEF Replay
<1>. HIDE DEF g
<1>. QED
  BY <1>6, <1>7

\* Each file is replayed once.
LEMMA OrderOfFiles ==
  LET N == Cardinality(Convs) IN
  /\ N \in Nat
  /\ SetToSeq(Convs) \in [1..N -> Convs]
  /\ \A i, j \in 1..N : SetToSeq(Convs)[i] = SetToSeq(Convs)[j] => i = j
  /\ \A c \in Convs : \E i \in 1..N : SetToSeq(Convs)[i] = c
<1>. DEFINE N == Cardinality(Convs)
            q == SetToSeq(Convs)
<1>1. N \in Nat /\ ExistsBijection(1..N, Convs)
  BY PoolsAreFinite, FS_CardinalityType
<1>2. \E f \in [1..N -> Convs] : IsInjective(f)
  BY <1>1 DEF ExistsBijection, Bijection, Injection
<1>3. q \in [1..N -> Convs] /\ IsInjective(q)
  BY <1>2 DEF SetToSeq
<1>4. \A i, j \in 1..N : q[i] = q[j] => i = j
  BY <1>3 DEF IsInjective
<1>5. \A c \in Convs : \E i \in 1..N : q[i] = c
  <2>1. IsFiniteSet(1..N) /\ Cardinality(1..N) = N
    BY <1>1, FS_Interval
  <2>2. q \in Injection(1..N, Convs)
    BY <1>3 DEF Injection
  <2>3. q \in Surjection(1..N, Convs)
    BY <2>1, <2>2, PoolsAreFinite, FS_Injection
  <2>. QED
    BY <2>3 DEF Surjection
<1>. QED
  BY <1>1, <1>3, <1>4, <1>5

\* What holds at the start and is kept by every record holds at the end; F[n]
\* is the set of the memories that may be there after n records.
LEMMA ReplayInduction ==
  ASSUME NEW m, NEW S, NEW s \in Seq(S), NEW F,
         m \in F[0],
         \A n \in 1..Len(s) : \A x \in F[n - 1] : ApplyRecord(x, s[n]) \in F[n]
  PROVE  ReplayLines(m, s) \in F[Len(s)]
<1>1. PICK g : /\ g = [n \in 0..Len(s) |-> IF n = 0 THEN m ELSE ApplyRecord(g[n - 1], s[n])]
               /\ ReplayLines(m, s) = g[Len(s)]
  BY ReplaySteps
<1>. DEFINE T == {k \in Nat : k <= Len(s) => g[k] \in F[k]}
<1>2. 0 \in T
  BY <1>1, LenProperties
<1>3. \A k \in T : k + 1 \in T
  <2>. SUFFICES ASSUME NEW k \in Nat, k + 1 <= Len(s), k <= Len(s) => g[k] \in F[k]
                PROVE  g[k + 1] \in F[k + 1]
    OBVIOUS
  <2>1. k + 1 \in 1..Len(s) /\ k + 1 # 0 /\ (k + 1) - 1 = k /\ g[k] \in F[k] /\ k + 1 \in 0..Len(s)
    BY LenProperties
  <2>2. g[k + 1] = ApplyRecord(g[(k + 1) - 1], s[k + 1])
    BY <1>1, <2>1
  <2>3. ApplyRecord(g[k], s[k + 1]) \in F[k + 1]
    BY <2>1
  <2>. QED
    BY <2>1, <2>2, <2>3
<1>4. Len(s) \in T
  <2>1. T \in SUBSET Nat
    OBVIOUS
  <2>. HIDE DEF T
  <2>2. T = Nat
    BY <1>2, <1>3, <2>1, InductionOnSets
  <2>. QED
    BY <2>2, LenProperties
<1>. QED
  BY <1>1, <1>4

\* The same for the files.
LEMMA FilesInduction ==
  ASSUME NEW fs, NEW F,
         EmptyMem \in F[0],
         \A n \in 1..Cardinality(Convs) : \A x \in F[n - 1] :
            ReplayFile(x, fs[SetToSeq(Convs)[n]]) \in F[n]
  PROVE  Replay(fs) \in F[Cardinality(Convs)]
<1>. DEFINE N == Cardinality(Convs)
<1>1. N \in Nat
  BY PoolsAreFinite, FS_CardinalityType
<1>2. PICK g : /\ g = [n \in 0..N |-> IF n = 0 THEN EmptyMem
                                       ELSE ReplayFile(g[n - 1], fs[SetToSeq(Convs)[n]])]
               /\ Replay(fs) = g[N]
  BY ReplayFileSteps
<1>. HIDE DEF N
<1>. DEFINE T == {k \in Nat : k <= N => g[k] \in F[k]}
<1>3. 0 \in T
  BY <1>1, <1>2
<1>4. \A k \in T : k + 1 \in T
  <2>. SUFFICES ASSUME NEW k \in Nat, k + 1 <= N, k <= N => g[k] \in F[k]
                PROVE  g[k + 1] \in F[k + 1]
    OBVIOUS
  <2>1. k + 1 \in 1..N /\ k + 1 # 0 /\ (k + 1) - 1 = k /\ g[k] \in F[k] /\ k + 1 \in 0..N
    BY <1>1
  <2>2. g[k + 1] = ReplayFile(g[(k + 1) - 1], fs[SetToSeq(Convs)[k + 1]])
    BY <1>2, <2>1
  <2>3. ReplayFile(g[k], fs[SetToSeq(Convs)[k + 1]]) \in F[k + 1]
    BY <2>1 DEF N
  <2>. QED
    BY <2>1, <2>2, <2>3
<1>5. N \in T
  <2>1. T \in SUBSET Nat
    OBVIOUS
  <2>. HIDE DEF T
  <2>2. T = Nat
    BY <1>3, <1>4, <2>1, InductionOnSets
  <2>. QED
    BY <1>1, <2>2
<1>. QED
  BY <1>1, <1>2, <1>5 DEF N

-----------------------------------------------------------------------------
(* The memory and the records.                                             *)

RunRecords ==
  [thread : Threads, conv : Convs, prev : Runs \cup {None}, msgs : Seq(Nat), complete : BOOLEAN]
ThreadRecords == [conv : Convs, last : Runs, runs : Seq(Runs)]

Mems ==
  [run : [Runs -> RunRecords \cup {NoRun}],
   thread : [Threads -> ThreadRecords \cup {NoThread}],
   summary : [Threads -> Runs \cup {None}]]

MessageRecords ==
  [type : {"message"}, run : Runs, prev : Runs \cup {None}, thread : Threads, conv : Convs,
   inc : Nat, complete : BOOLEAN]
SummaryRecords == [type : {"summary"}, thread : Threads, upTo : Runs]
Records == MessageRecords \cup SummaryRecords

\* A run that is known has its thread, and a thread names known runs only.
Sound(m) ==
  /\ m \in Mems
  /\ \A r \in Runs : Known(m, r) => m.thread[m.run[r].thread] # NoThread
  /\ \A t \in Threads : \A i \in DOMAIN m.thread[t].runs : Known(m, m.thread[t].runs[i])

\* A save changes one run and one thread.
Change(m, r, t, run, thread) ==
  [run |-> [m.run EXCEPT ![r] = run],
   thread |-> [m.thread EXCEPT ![t] = thread],
   summary |-> m.summary]

\* What a message record changes, and how.
Home(m, rec) == IF Known(m, rec.run) THEN m.run[rec.run].thread ELSE rec.thread

RunAfter(m, rec) ==
  IF Known(m, rec.run)
  THEN [thread |-> m.run[rec.run].thread, conv |-> m.run[rec.run].conv, prev |-> m.run[rec.run].prev,
        msgs |-> Append(m.run[rec.run].msgs, rec.inc), complete |-> rec.complete]
  ELSE [thread |-> rec.thread, conv |-> rec.conv, prev |-> rec.prev, msgs |-> <<rec.inc>>,
        complete |-> rec.complete]

Prefix(m, rec) ==
  IF rec.prev # None /\ Known(m, rec.prev) /\ m.run[rec.prev].thread # rec.thread
  THEN UpTo(m.thread[m.run[rec.prev].thread].runs, rec.prev) ELSE <<>>

ThreadAfter(m, rec) ==
  LET t == m.thread[Home(m, rec)]
  IN  [conv |-> IF Known(m, rec.run) \/ t # NoThread THEN t.conv ELSE rec.conv,
       last |-> rec.run,
       runs |-> IF Known(m, rec.run) THEN t.runs
                ELSE Append(IF t # NoThread THEN t.runs ELSE Prefix(m, rec), rec.run)]

\* The two kinds of record, and neither is junk.
LEMMA NotJunk ==
  /\ \A rec \in MessageRecords : rec.type = "message" /\ rec # Junk /\ rec \notin SummaryRecords
  /\ \A rec \in SummaryRecords : rec.type = "summary" /\ rec.type # "message" /\ rec # Junk
BY DEF MessageRecords, SummaryRecords, Junk

\* UpTo is a prefix that ends with the run asked for, if it is there.
LEMMA UpToIsPrefix ==
  ASSUME NEW S, NEW s \in Seq(S), NEW r
  PROVE  \E n \in 0..Len(s) :
            /\ UpTo(s, r) = SubSeq(s, 1, n)
            /\ r \notin ToSet(s) => n = Len(s)
            /\ r \in ToSet(s) => n > 0 /\ s[n] = r /\ \A j \in 1..(n - 1) : s[j] # r
<1>. DEFINE at == {i \in DOMAIN s : s[i] = r}
<1>1. Len(s) \in Nat /\ DOMAIN s = 1..Len(s)
  BY LenProperties
<1>2. CASE at = {}
  <2>1. UpTo(s, r) = s /\ r \notin ToSet(s)
    BY <1>2 DEF UpTo, ToSet
  <2>2. SubSeq(s, 1, Len(s)) = s
    BY SubSeqFull
  <2>3. Len(s) \in 0..Len(s)
    BY <1>1
  <2>. WITNESS Len(s) \in 0..Len(s)
  <2>. QED
    BY <2>1, <2>2
<1>3. CASE at # {}
  <2>1. at \in SUBSET Nat
    BY <1>1
  <2>. DEFINE n == CHOOSE i \in at : \A j \in at : i <= j
  <2>2. n \in at /\ \A j \in at : n <= j
    BY <1>3, <2>1, LeastElement
  <2>3. UpTo(s, r) = SubSeq(s, 1, n)
    BY <1>3 DEF UpTo
  <2>. HIDE DEF n
  <2>4. r \in ToSet(s) /\ n \in 0..Len(s) /\ n > 0 /\ s[n] = r
    BY <1>1, <2>2 DEF ToSet
  <2>5. \A j \in 1..(n - 1) : s[j] # r
    BY <1>1, <2>1, <2>2
  <2>. QED
    BY <2>3, <2>4, <2>5
<1>. QED
  BY <1>2, <1>3

\* The list up to a run is the front of the list.
LEMMA UpToSeq ==
  ASSUME NEW S, NEW s \in Seq(S), NEW r
  PROVE  /\ UpTo(s, r) \in Seq(S)
         /\ Len(UpTo(s, r)) \in 0..Len(s)
         /\ \A i \in 1..Len(UpTo(s, r)) : UpTo(s, r)[i] = s[i]
<1>1. PICK n \in 0..Len(s) : UpTo(s, r) = SubSeq(s, 1, n)
  BY UpToIsPrefix
<1>2. Len(s) \in Nat /\ \A i \in 1..n : s[i] \in S
  BY LenProperties, ElementOfSeq
<1>3. SubSeq(s, 1, n) \in Seq(S) /\ Len(SubSeq(s, 1, n)) = n /\ \A i \in 1..n : SubSeq(s, 1, n)[i] = s[i]
  BY <1>2
<1>. QED
  BY <1>1, <1>2, <1>3

\* Known runs and threads have typed records, which the placeholders are not.
LEMMA MemFields ==
  ASSUME NEW m \in Mems
  PROVE  /\ \A r : Known(m, r) <=> r \in Runs /\ m.run[r] \in RunRecords
         /\ \A r \in Runs : ~Known(m, r) <=> m.run[r] = NoRun
         /\ \A r \in Runs : Known(m, r) <=> m.run[r].conv # None
         /\ \A t \in Threads : m.thread[t] # NoThread <=> m.thread[t] \in ThreadRecords
         /\ \A t \in Threads : m.thread[t] # NoThread <=> m.thread[t].conv # None
         /\ \A t \in Threads : m.thread[t].runs \in Seq(Runs) /\ DOMAIN m.thread[t].runs = 1..Len(m.thread[t].runs)
                                 /\ Len(m.thread[t].runs) \in Nat
<1>1. NoRun \notin RunRecords /\ NoRun.conv = None /\ \A x \in RunRecords : x.conv # None
  BY NoneIsNoId DEF NoRun, RunRecords
<1>2. NoThread \notin ThreadRecords /\ NoThread.conv = None /\ \A x \in ThreadRecords : x.conv # None
  BY NoneIsNoId DEF NoThread, ThreadRecords
<1>3. \A r \in Runs : m.run[r] \in RunRecords \/ m.run[r] = NoRun
  BY DEF Mems
<1>4. \A t \in Threads : m.thread[t] \in ThreadRecords \/ m.thread[t] = NoThread
  BY DEF Mems
<1>5. NoThread.runs \in Seq(Runs) /\ \A x \in ThreadRecords : x.runs \in Seq(Runs)
  BY DEF NoThread, ThreadRecords
<1>6. \A s \in Seq(Runs) : DOMAIN s = 1..Len(s) /\ Len(s) \in Nat
  OBVIOUS
<1>. QED
  BY <1>1, <1>2, <1>3, <1>4, <1>5, <1>6 DEF Known

\* An increment of a known run changes that run and its thread, as Change says.
LEMMA IncrementIsChange ==
  ASSUME NEW m, Sound(m), NEW r, Known(m, r), NEW inc, NEW complete
  PROVE  LET u == m.run[r]
             t == m.thread[u.thread]
         IN  AppendIncrement(m, r, inc, complete) =
               Change(m, r, u.thread,
                      [thread |-> u.thread, conv |-> u.conv, prev |-> u.prev,
                       msgs |-> Append(u.msgs, inc), complete |-> complete],
                      [conv |-> t.conv, last |-> r, runs |-> t.runs])
<1>. DEFINE u == m.run[r]
            t == m.thread[u.thread]
            u1 == [thread |-> u.thread, conv |-> u.conv, prev |-> u.prev,
                   msgs |-> Append(u.msgs, inc), complete |-> complete]
            t1 == [conv |-> t.conv, last |-> r, runs |-> t.runs]
<1>1. m \in Mems /\ r \in Runs /\ u \in RunRecords
  BY MemFields DEF Sound
<1>2. u.thread \in Threads /\ t \in ThreadRecords
  <2>1. u.thread \in Threads /\ t # NoThread
    BY <1>1 DEF Sound, RunRecords
  <2>. QED
    BY <1>1, <2>1, MemFields
<1>. DEFINE e == Append(u.msgs, inc)
            v == [u EXCEPT !.msgs = e]
            w == [v EXCEPT !.complete = complete]
            m1 == [m EXCEPT !.run[r].msgs = e]
            m2 == [m1 EXCEPT !.run[r].complete = complete]
            m3 == [m2 EXCEPT !.thread[u.thread].last = r]
<1>3. AppendIncrement(m, r, inc, complete) = m3
  BY DEF AppendIncrement
<1>4. w = u1
  <2>. HIDE DEF e
  <2>1. u = [thread |-> u.thread, conv |-> u.conv, prev |-> u.prev, msgs |-> u.msgs, complete |-> u.complete]
    BY <1>1 DEF RunRecords
  <2>2. v = [thread |-> u.thread, conv |-> u.conv, prev |-> u.prev, msgs |-> e, complete |-> u.complete]
    BY <2>1
  <2>. HIDE DEF v
  <2>3. w = [thread |-> u.thread, conv |-> u.conv, prev |-> u.prev, msgs |-> e, complete |-> complete]
    BY <2>2
  <2>. QED
    BY <2>3 DEF e
<1>5. t1 = [t EXCEPT !.last = r]
  BY <1>2 DEF ThreadRecords
<1>6. /\ m = [run |-> m.run, thread |-> m.thread, summary |-> m.summary]
      /\ m.run = [x \in Runs |-> m.run[x]] /\ m.thread = [x \in Threads |-> m.thread[x]]
  BY <1>1 DEF Mems
<1>. HIDE DEF u1, t1, e
<1>7. m1 = [run |-> [m.run EXCEPT ![r] = v], thread |-> m.thread, summary |-> m.summary]
  BY <1>6
<1>. HIDE DEF v
<1>8. m2 = [run |-> [m.run EXCEPT ![r] = w], thread |-> m.thread, summary |-> m.summary]
  <2>. HIDE DEF m1
  <2>1. m1.run[r] = v
    BY <1>1, <1>6, <1>7
  <2>2. m2 = [run |-> [m1.run EXCEPT ![r] = w], thread |-> m1.thread, summary |-> m1.summary]
    BY <1>7, <2>1
  <2>3. [m1.run EXCEPT ![r] = w] = [m.run EXCEPT ![r] = w]
    BY <1>6, <1>7
  <2>. QED
    BY <1>7, <2>2, <2>3
<1>. HIDE DEF m1, w
<1>9. m3 = [run |-> [m.run EXCEPT ![r] = w], thread |-> [m.thread EXCEPT ![u.thread] = t1], summary |-> m.summary]
  <2>. HIDE DEF m2
  <2>1. m3 = [run |-> m2.run, thread |-> [m2.thread EXCEPT ![u.thread] = [m2.thread[u.thread] EXCEPT !.last = r]],
              summary |-> m2.summary]
    BY <1>8
  <2>. QED
    BY <1>5, <1>8, <2>1
<1>. QED
  BY <1>3, <1>4, <1>9 DEF Change, u1, t1

\* A stored run changes that run and the thread it is stored in.
LEMMA StoreIsChange ==
  ASSUME NEW m, m \in Mems, NEW r \in Runs, NEW prev, NEW t \in Threads, NEW c, NEW inc, NEW complete,
         NEW x, NEW tc, NEW tl, NEW tr,
         x = [run |-> m.run, thread |-> [m.thread EXCEPT ![t] = [conv |-> tc, last |-> tl, runs |-> tr]],
              summary |-> m.summary]
  PROVE  Store(x, r, prev, t, c, inc, complete) =
           Change(m, r, t,
                  [thread |-> t, conv |-> c, prev |-> prev, msgs |-> <<inc>>, complete |-> complete],
                  [conv |-> tc, last |-> tl, runs |-> Append(tr, r)])
<1>. DEFINE u1 == [thread |-> t, conv |-> c, prev |-> prev, msgs |-> <<inc>>, complete |-> complete]
            t0 == [conv |-> tc, last |-> tl, runs |-> tr]
            t1 == [conv |-> tc, last |-> tl, runs |-> Append(tr, r)]
<1>1. m.run = [y \in Runs |-> m.run[y]] /\ m.thread = [y \in Threads |-> m.thread[y]]
  BY DEF Mems
<1>. DEFINE e == Append(tr, r)
<1>2. t1 = [t0 EXCEPT !.runs = Append(@, r)]
  <2>1. t0.runs = tr /\ [t0 EXCEPT !.runs = Append(@, r)] = [t0 EXCEPT !.runs = e]
    OBVIOUS
  <2>. HIDE DEF e
  <2>2. [t0 EXCEPT !.runs = e] = [conv |-> tc, last |-> tl, runs |-> e]
    OBVIOUS
  <2>. QED
    BY <2>1, <2>2 DEF e
<1>. DEFINE y == [x EXCEPT !.run[r] = u1]
            z == [y EXCEPT !.thread[t].runs = Append(@, r)]
<1>3. Store(x, r, prev, t, c, inc, complete) = z
  BY DEF Store
<1>. HIDE DEF u1, t0, t1
<1>4. x = [run |-> m.run, thread |-> [m.thread EXCEPT ![t] = t0], summary |-> m.summary]
  BY DEF t0
<1>5. y = [run |-> [m.run EXCEPT ![r] = u1], thread |-> [m.thread EXCEPT ![t] = t0], summary |-> m.summary]
  BY <1>4
<1>6. [[m.thread EXCEPT ![t] = t0] EXCEPT ![t] = t1] = [m.thread EXCEPT ![t] = t1]
  BY <1>1
<1>7. [m.thread EXCEPT ![t] = t0][t] = t0
  BY <1>1
<1>. HIDE DEF y
<1>8. z = [run |-> y.run, thread |-> [y.thread EXCEPT ![t] = [y.thread[t] EXCEPT !.runs = Append(@, r)]],
           summary |-> y.summary]
  BY <1>5
<1>. HIDE DEF z
<1>9. z = [run |-> [m.run EXCEPT ![r] = u1], thread |-> [m.thread EXCEPT ![t] = t1], summary |-> m.summary]
  BY <1>2, <1>5, <1>6, <1>7, <1>8
<1>. QED
  BY <1>3, <1>9 DEF Change, u1, t1

\* A message record changes its run and its thread.
LEMMA ApplyIsChange ==
  ASSUME NEW m, Sound(m), NEW rec \in MessageRecords
  PROVE  ApplyRecord(m, rec) = Change(m, rec.run, Home(m, rec), RunAfter(m, rec), ThreadAfter(m, rec))
<1>0. m \in Mems /\ rec.run \in Runs /\ rec.thread \in Threads /\ rec.type = "message"
  BY DEF Sound, MessageRecords
<1>1. ApplyRecord(m, rec) = ApplyMessage(m, rec)
  BY <1>0 DEF ApplyRecord
<1>2. CASE Known(m, rec.run)
  <2>1. ApplyMessage(m, rec) = AppendIncrement(m, rec.run, rec.inc, rec.complete)
    BY <1>2 DEF ApplyMessage
  <2>. QED
    BY <1>1, <1>2, <2>1, IncrementIsChange DEF Home, RunAfter, ThreadAfter
<1>3. CASE ~Known(m, rec.run)
  <2>. DEFINE t0 == m.thread[rec.thread]
              seen == IF t0 # NoThread THEN m
                      ELSE [m EXCEPT !.thread[rec.thread] =
                              [conv |-> rec.conv, last |-> None, runs |-> Prefix(m, rec)]]
              x == [seen EXCEPT !.thread[rec.thread].last = rec.run]
              tc == IF t0 # NoThread THEN t0.conv ELSE rec.conv
              tr == IF t0 # NoThread THEN t0.runs ELSE Prefix(m, rec)
  <2>1. ApplyMessage(m, rec) = Store(x, rec.run, rec.prev, rec.thread, rec.conv, rec.inc, rec.complete)
    BY <1>3 DEF ApplyMessage, Prefix
  <2>2. x = [run |-> m.run,
             thread |-> [m.thread EXCEPT ![rec.thread] = [conv |-> tc, last |-> rec.run, runs |-> tr]],
             summary |-> m.summary]
    <3>0. /\ m = [run |-> m.run, thread |-> m.thread, summary |-> m.summary]
          /\ m.thread = [y \in Threads |-> m.thread[y]]
      BY <1>0 DEF Mems
    <3>1. CASE t0 # NoThread
      <4>1. t0 \in ThreadRecords
        BY <1>0, <3>1, MemFields
      <4>2. [t0 EXCEPT !.last = rec.run] = [conv |-> t0.conv, last |-> rec.run, runs |-> t0.runs]
        BY <4>1 DEF ThreadRecords
      <4>3. x = [m EXCEPT !.thread[rec.thread].last = rec.run]
        BY <3>1
      <4>4. x = [run |-> m.run, thread |-> [m.thread EXCEPT ![rec.thread].last = rec.run], summary |-> m.summary]
        BY <3>0, <4>3
      <4>5. [m.thread EXCEPT ![rec.thread].last = rec.run] = [m.thread EXCEPT ![rec.thread] = [t0 EXCEPT !.last = rec.run]]
        BY <3>0
      <4>. QED
        BY <3>1, <4>2, <4>4, <4>5
    <3>2. CASE ~(t0 # NoThread)
      <4>. DEFINE n == [conv |-> rec.conv, last |-> None, runs |-> Prefix(m, rec)]
      <4>1. seen = [run |-> m.run, thread |-> [m.thread EXCEPT ![rec.thread] = n], summary |-> m.summary]
        BY <3>0, <3>2
      <4>2. [n EXCEPT !.last = rec.run] = [conv |-> rec.conv, last |-> rec.run, runs |-> Prefix(m, rec)]
        OBVIOUS
      <4>. HIDE DEF n
      <4>3. [[m.thread EXCEPT ![rec.thread] = n] EXCEPT ![rec.thread].last = rec.run] =
              [m.thread EXCEPT ![rec.thread] = [n EXCEPT !.last = rec.run]]
        BY <1>0, <3>0
      <4>. HIDE DEF seen
      <4>4. x = [run |-> m.run,
                 thread |-> [[m.thread EXCEPT ![rec.thread] = n] EXCEPT ![rec.thread].last = rec.run],
                 summary |-> m.summary]
        BY <4>1
      <4>. QED
        BY <3>2, <4>2, <4>3, <4>4
    <3>. QED
      BY <3>1, <3>2
  <2>. HIDE DEF x, tc, tr
  <2>3. Store(x, rec.run, rec.prev, rec.thread, rec.conv, rec.inc, rec.complete) =
          Change(m, rec.run, rec.thread,
                 [thread |-> rec.thread, conv |-> rec.conv, prev |-> rec.prev, msgs |-> <<rec.inc>>,
                  complete |-> rec.complete],
                 [conv |-> tc, last |-> rec.run, runs |-> Append(tr, rec.run)])
    BY <1>0, <2>2, StoreIsChange
  <2>4. /\ Home(m, rec) = rec.thread
        /\ RunAfter(m, rec) = [thread |-> rec.thread, conv |-> rec.conv, prev |-> rec.prev, msgs |-> <<rec.inc>>,
                               complete |-> rec.complete]
        /\ ThreadAfter(m, rec) = [conv |-> tc, last |-> rec.run, runs |-> Append(tr, rec.run)]
    BY <1>3 DEF Home, RunAfter, ThreadAfter, tc, tr
  <2>. QED
    BY <1>1, <2>1, <2>3, <2>4
<1>. QED
  BY <1>2, <1>3

\* What Change changes, and what it leaves.
LEMMA ChangeFields ==
  ASSUME NEW m \in Mems, NEW r \in Runs, NEW t \in Threads, NEW u, NEW h
  PROVE  LET n == Change(m, r, t, u, h)
         IN  /\ n.run[r] = u /\ \A x \in Runs : x # r => n.run[x] = m.run[x]
             /\ n.thread[t] = h /\ \A x \in Threads : x # t => n.thread[x] = m.thread[x]
             /\ n.summary = m.summary
             /\ u \in RunRecords /\ h \in ThreadRecords => n \in Mems
BY DEF Change, Mems

\* A change keeps the memory sound if the run is of the thread, whose list
\* names known runs or that one.
LEMMA ChangeSound ==
  ASSUME NEW m, Sound(m), NEW r \in Runs, NEW t \in Threads,
         NEW u \in RunRecords, NEW h \in ThreadRecords,
         u.thread = t,
         \A i \in DOMAIN h.runs : h.runs[i] = r \/ Known(m, h.runs[i])
  PROVE  /\ Sound(Change(m, r, t, u, h))
         /\ \A x : Known(Change(m, r, t, u, h), x) <=> x = r \/ Known(m, x)
<1>. DEFINE n == Change(m, r, t, u, h)
<1>1. m \in Mems
  BY DEF Sound
<1>2. /\ n \in Mems /\ n.run[r] = u /\ \A x \in Runs : x # r => n.run[x] = m.run[x]
      /\ n.thread[t] = h /\ \A x \in Threads : x # t => n.thread[x] = m.thread[x]
  BY <1>1, ChangeFields
<1>. HIDE DEF n
<1>3. \A x : Known(n, x) <=> x = r \/ Known(m, x)
  <2>1. Known(n, r)
    BY <1>2, MemFields
  <2>. QED
    BY <1>2, <2>1 DEF Known
<1>4. h # NoThread
  BY <1>2, MemFields
<1>5. ASSUME NEW x \in Runs, Known(n, x) PROVE n.thread[n.run[x].thread] # NoThread
  <2>1. CASE x = r
    BY <1>2, <1>4, <2>1
  <2>2. CASE x # r
    <3>1. Known(m, x) /\ m.thread[m.run[x].thread] # NoThread /\ m.run[x] \in RunRecords
      BY <1>1, <1>3, <1>5, <2>2, MemFields DEF Sound
    <3>2. m.run[x].thread \in Threads /\ n.run[x] = m.run[x]
      BY <1>2, <2>2, <3>1 DEF RunRecords
    <3>. QED
      BY <1>2, <1>4, <3>1, <3>2
  <2>. QED
    BY <2>1, <2>2
<1>6. ASSUME NEW x \in Threads, NEW i \in DOMAIN n.thread[x].runs PROVE Known(n, n.thread[x].runs[i])
  <2>1. CASE x = t
    BY <1>2, <1>3, <2>1
  <2>2. CASE x # t
    <3>1. i \in DOMAIN m.thread[x].runs /\ n.thread[x].runs[i] = m.thread[x].runs[i]
      BY <1>2, <2>2
    <3>2. Known(m, m.thread[x].runs[i])
      BY <3>1 DEF Sound
    <3>. QED
      BY <1>3, <3>1, <3>2
  <2>. QED
    BY <2>1, <2>2
<1>. QED
  BY <1>2, <1>3, <1>5, <1>6 DEF Sound, n

\* The list of a thread, cut short and with one more run.
LEMMA AppendNames ==
  ASSUME NEW m, NEW s \in Seq(Runs), \A i \in DOMAIN s : Known(m, s[i]), NEW r \in Runs
  PROVE  /\ Append(s, r) \in Seq(Runs)
         /\ \A i \in DOMAIN Append(s, r) : Append(s, r)[i] = r \/ Known(m, Append(s, r)[i])
<1>1. DOMAIN s = 1..Len(s) /\ Len(s) \in Nat
  OBVIOUS
<1>2. /\ Append(s, r) \in Seq(Runs) /\ DOMAIN Append(s, r) = 1..(Len(s) + 1)
      /\ \A i \in 1..Len(s) : Append(s, r)[i] = s[i]
      /\ Append(s, r)[Len(s) + 1] = r
  BY <1>1
<1>. QED
  BY <1>1, <1>2

\* A list of known runs, cut at one of them, still lists known runs.
LEMMA UpToNames ==
  ASSUME NEW m, NEW s \in Seq(Runs), \A i \in DOMAIN s : Known(m, s[i]), NEW r
  PROVE  UpTo(s, r) \in Seq(Runs) /\ \A i \in DOMAIN UpTo(s, r) : Known(m, UpTo(s, r)[i])
<1>1. /\ UpTo(s, r) \in Seq(Runs) /\ Len(UpTo(s, r)) \in 0..Len(s)
      /\ \A i \in 1..Len(UpTo(s, r)) : UpTo(s, r)[i] = s[i]
  BY UpToSeq
<1>2. DOMAIN UpTo(s, r) = 1..Len(UpTo(s, r)) /\ DOMAIN s = 1..Len(s) /\ Len(s) \in Nat
  BY <1>1
<1>. QED
  BY <1>1, <1>2

\* What a message record leaves is typed and names known runs.
LEMMA ApplyTyped ==
  ASSUME NEW m, Sound(m), NEW rec \in MessageRecords
  PROVE  /\ Home(m, rec) \in Threads
         /\ RunAfter(m, rec) \in RunRecords /\ RunAfter(m, rec).thread = Home(m, rec)
         /\ ThreadAfter(m, rec) \in ThreadRecords
         /\ \A i \in DOMAIN ThreadAfter(m, rec).runs :
               ThreadAfter(m, rec).runs[i] = rec.run \/ Known(m, ThreadAfter(m, rec).runs[i])
<1>. DEFINE r == rec.run
            t == m.thread[Home(m, rec)]
            h == ThreadAfter(m, rec)
<1>1. /\ m \in Mems /\ r \in Runs /\ rec.thread \in Threads /\ rec.conv \in Convs
      /\ rec.prev \in Runs \cup {None} /\ rec.inc \in Nat /\ rec.complete \in BOOLEAN
  BY DEF Sound, MessageRecords
<1>2. CASE Known(m, r)
  <2>1. m.run[r] \in RunRecords /\ Home(m, rec) = m.run[r].thread
    BY <1>1, <1>2, MemFields DEF Home
  <2>2. Home(m, rec) \in Threads /\ t # NoThread
    BY <1>1, <1>2, <2>1 DEF RunRecords, Sound
  <2>3. t \in ThreadRecords
    BY <1>1, <2>2, MemFields
  <2>4. h = [conv |-> t.conv, last |-> r, runs |-> t.runs]
    BY <1>2 DEF ThreadAfter
  <2>5. h \in ThreadRecords
    BY <1>1, <2>3, <2>4 DEF ThreadRecords
  <2>6. RunAfter(m, rec) \in RunRecords /\ RunAfter(m, rec).thread = m.run[r].thread
    <3>1. Append(m.run[r].msgs, rec.inc) \in Seq(Nat)
      BY <1>1, <2>1 DEF RunRecords
    <3>. QED
      BY <1>1, <1>2, <2>1, <3>1 DEF RunAfter, RunRecords
  <2>7. \A i \in DOMAIN t.runs : Known(m, t.runs[i])
    BY <2>2 DEF Sound
  <2>8. h.runs = t.runs
    <3>. HIDE DEF h
    <3>. QED
      BY <2>4
  <2>. QED
    BY <2>1, <2>2, <2>5, <2>6, <2>7, <2>8
<1>3. CASE ~Known(m, r)
  <2>1. Home(m, rec) = rec.thread
    BY <1>3 DEF Home
  <2>2. RunAfter(m, rec) \in RunRecords /\ RunAfter(m, rec).thread = rec.thread
    <3>1. <<rec.inc>> \in Seq(Nat)
      BY <1>1
    <3>. QED
      BY <1>1, <1>3, <3>1 DEF RunAfter, RunRecords
  <2>. DEFINE s == IF t # NoThread THEN t.runs ELSE Prefix(m, rec)
  <2>3. s \in Seq(Runs) /\ \A i \in DOMAIN s : Known(m, s[i])
    <3>1. CASE t # NoThread
      BY <1>1, <2>1, <3>1, MemFields DEF Sound
    <3>2. CASE t = NoThread
      <4>1. CASE rec.prev # None /\ Known(m, rec.prev) /\ m.run[rec.prev].thread # rec.thread
        <5>1. m.run[rec.prev] \in RunRecords
          BY <1>1, <4>1, MemFields
        <5>. DEFINE p == m.run[rec.prev].thread
        <5>2. p \in Threads
          BY <5>1 DEF RunRecords
        <5>3. m.thread[p].runs \in Seq(Runs) /\ \A i \in DOMAIN m.thread[p].runs : Known(m, m.thread[p].runs[i])
          BY <1>1, <5>2, MemFields DEF Sound
        <5>4. s = UpTo(m.thread[p].runs, rec.prev)
          BY <3>2, <4>1 DEF Prefix
        <5>. HIDE DEF s, p
        <5>5. /\ UpTo(m.thread[p].runs, rec.prev) \in Seq(Runs)
              /\ \A i \in DOMAIN UpTo(m.thread[p].runs, rec.prev) : Known(m, UpTo(m.thread[p].runs, rec.prev)[i])
          BY <5>3, UpToNames
        <5>. QED
          BY <5>4, <5>5
      <4>2. CASE ~(rec.prev # None /\ Known(m, rec.prev) /\ m.run[rec.prev].thread # rec.thread)
        <5>1. s = <<>>
          BY <3>2, <4>2 DEF Prefix
        <5>2. <<>> \in Seq(Runs) /\ DOMAIN <<>> = {}
          OBVIOUS
        <5>. HIDE DEF s
        <5>. QED
          BY <5>1, <5>2
      <4>. QED
        BY <4>1, <4>2
    <3>. QED
      BY <3>1, <3>2
  <2>4. /\ h.conv = IF t # NoThread THEN t.conv ELSE rec.conv
        /\ h = [conv |-> h.conv, last |-> r, runs |-> Append(s, r)]
    BY <1>3 DEF ThreadAfter
  <2>5. h.conv \in Convs
    <3>1. t # NoThread => t \in ThreadRecords
      BY <1>1, <2>1, MemFields
    <3>. QED
      BY <1>1, <2>4, <3>1 DEF ThreadRecords
  <2>. HIDE DEF s
  <2>6. Append(s, r) \in Seq(Runs) /\ \A i \in DOMAIN Append(s, r) : Append(s, r)[i] = r \/ Known(m, Append(s, r)[i])
    BY <1>1, <2>3, AppendNames
  <2>7. h \in ThreadRecords /\ h.runs = Append(s, r)
    <3>. HIDE DEF h
    <3>. QED
      BY <1>1, <2>4, <2>5, <2>6 DEF ThreadRecords
  <2>. QED
    BY <1>1, <2>1, <2>2, <2>6, <2>7
<1>. QED
  BY <1>2, <1>3

\* Records keep a memory sound, and what it knew it still knows.
LEMMA ApplySound ==
  ASSUME NEW m, Sound(m), NEW rec \in Records
  PROVE  /\ Sound(ApplyRecord(m, rec))
         /\ \A x : Known(ApplyRecord(m, rec), x) <=> (rec.type = "message" /\ x = rec.run) \/ Known(m, x)
<1>1. CASE rec \in MessageRecords
  <2>1. ApplyRecord(m, rec) = Change(m, rec.run, Home(m, rec), RunAfter(m, rec), ThreadAfter(m, rec))
    BY <1>1, ApplyIsChange
  <2>2. rec.run \in Runs /\ rec.type = "message"
    BY <1>1 DEF MessageRecords
  <2>3. /\ Home(m, rec) \in Threads
        /\ RunAfter(m, rec) \in RunRecords /\ RunAfter(m, rec).thread = Home(m, rec)
        /\ ThreadAfter(m, rec) \in ThreadRecords
        /\ \A i \in DOMAIN ThreadAfter(m, rec).runs :
               ThreadAfter(m, rec).runs[i] = rec.run \/ Known(m, ThreadAfter(m, rec).runs[i])
    BY <1>1, ApplyTyped
  <2>4. /\ Sound(ApplyRecord(m, rec))
        /\ \A x : Known(ApplyRecord(m, rec), x) <=> x = rec.run \/ Known(m, x)
    BY <2>1, <2>2, <2>3, ChangeSound
  <2>. QED
    BY <2>2, <2>4
<1>2. CASE rec \in SummaryRecords
  <2>1. rec.type # "message" /\ rec.thread \in Threads /\ rec.upTo \in Runs
    BY <1>2, NotJunk DEF SummaryRecords
  <2>2. ApplyRecord(m, rec) = [m EXCEPT !.summary[rec.thread] = rec.upTo]
    BY <2>1 DEF ApplyRecord, SaveSummaryInMemory
  <2>3. ApplyRecord(m, rec) = [run |-> m.run, thread |-> m.thread, summary |-> [m.summary EXCEPT ![rec.thread] = rec.upTo]]
    BY <2>2 DEF Sound, Mems
  <2>. DEFINE n == ApplyRecord(m, rec)
  <2>4. n \in Mems /\ n.run = m.run /\ n.thread = m.thread
    BY <2>1, <2>3 DEF Sound, Mems
  <2>. HIDE DEF n
  <2>5. Sound(n) /\ \A x : Known(n, x) <=> Known(m, x)
    BY <2>4 DEF Sound, Known
  <2>. QED
    BY <2>1, <2>5 DEF n
<1>. QED
  BY <1>1, <1>2 DEF Records

-----------------------------------------------------------------------------
(* Conversations are independent of each other.  ro and to tell which      *)
(* conversation a run and a thread belong to.                              *)

Fits(m, ro, to) ==
  /\ Sound(m)
  /\ \A r \in Runs : Known(m, r) => m.run[r].conv = ro[r] /\ to[m.run[r].thread] = ro[r]
  /\ \A t \in Threads :
        /\ m.thread[t] # NoThread => m.thread[t].conv = to[t]
        /\ m.summary[t] # None => to[t] \in Convs
        /\ \A i \in DOMAIN m.thread[t].runs : ro[m.thread[t].runs[i]] = to[t]

Within(rec, c, ro, to) ==
  /\ to[rec.thread] = c
  /\ rec.type = "message" =>
       /\ rec.conv = c /\ ro[rec.run] = c
       /\ rec.prev # None => ro[rec.prev] = c

\* The part of the memory that belongs to a conversation.
Part(m, c, ro, to) ==
  [run |-> [r \in Runs |-> IF ro[r] = c THEN m.run[r] ELSE NoRun],
   thread |-> [t \in Threads |-> IF to[t] = c THEN m.thread[t] ELSE NoThread],
   summary |-> [t \in Threads |-> IF to[t] = c THEN m.summary[t] ELSE None]]

\* A conversation's part of a memory is sound and knows exactly its runs.
LEMMA PartSound ==
  ASSUME NEW m, NEW ro, NEW to, Fits(m, ro, to), NEW c
  PROVE  /\ Sound(Part(m, c, ro, to))
         /\ \A r : Known(Part(m, c, ro, to), r) <=> Known(m, r) /\ ro[r] = c
<1>. DEFINE p == Part(m, c, ro, to)
<1>1. m \in Mems
  BY DEF Fits, Sound
<1>2. /\ p \in Mems
      /\ \A r \in Runs : p.run[r] = IF ro[r] = c THEN m.run[r] ELSE NoRun
      /\ \A t \in Threads : p.thread[t] = IF to[t] = c THEN m.thread[t] ELSE NoThread
  BY <1>1 DEF Mems, Part
<1>. HIDE DEF p
<1>3. \A r : Known(p, r) <=> Known(m, r) /\ ro[r] = c
  BY <1>2 DEF Known
<1>4. ASSUME NEW r \in Runs, Known(p, r) PROVE p.thread[p.run[r].thread] # NoThread
  <2>1. Known(m, r) /\ ro[r] = c /\ p.run[r] = m.run[r]
    BY <1>2, <1>3, <1>4
  <2>2. m.run[r].thread \in Threads /\ m.thread[m.run[r].thread] # NoThread /\ to[m.run[r].thread] = c
    BY <1>1, <2>1, MemFields DEF Fits, Sound, RunRecords
  <2>. QED
    BY <1>2, <2>1, <2>2
<1>5. ASSUME NEW t \in Threads, NEW i \in DOMAIN p.thread[t].runs PROVE Known(p, p.thread[t].runs[i])
  <2>1. to[t] = c /\ p.thread[t] = m.thread[t]
    <3>1. DOMAIN NoThread.runs = {}
      BY DEF NoThread
    <3>. QED
      BY <1>2, <1>5, <3>1
  <2>2. Known(m, m.thread[t].runs[i]) /\ ro[m.thread[t].runs[i]] = c
    BY <1>5, <2>1 DEF Fits, Sound
  <2>. QED
    BY <1>3, <2>1, <2>2
<1>. QED
  BY <1>2, <1>3, <1>4, <1>5 DEF Sound, p

\* A change inside a conversation changes its part and no other's.
LEMMA PartOfChange ==
  ASSUME NEW m \in Mems, NEW r \in Runs, NEW t \in Threads, NEW u, NEW h,
         NEW ro, NEW to, NEW c, ro[r] = c, to[t] = c
  PROVE  /\ Part(Change(m, r, t, u, h), c, ro, to) = Change(Part(m, c, ro, to), r, t, u, h)
         /\ \A d : d # c => Part(Change(m, r, t, u, h), d, ro, to) = Part(m, d, ro, to)
<1>. DEFINE n == Change(m, r, t, u, h)
<1>1. /\ n.run[r] = u /\ \A x \in Runs : x # r => n.run[x] = m.run[x]
      /\ n.thread[t] = h /\ \A x \in Threads : x # t => n.thread[x] = m.thread[x]
      /\ n.summary = m.summary
  BY ChangeFields
<1>. HIDE DEF n
<1>2. ASSUME NEW d, d # c PROVE Part(n, d, ro, to) = Part(m, d, ro, to)
  <2>1. [x \in Runs |-> IF ro[x] = d THEN n.run[x] ELSE NoRun] = [x \in Runs |-> IF ro[x] = d THEN m.run[x] ELSE NoRun]
    BY <1>1, <1>2
  <2>2. [x \in Threads |-> IF to[x] = d THEN n.thread[x] ELSE NoThread] =
            [x \in Threads |-> IF to[x] = d THEN m.thread[x] ELSE NoThread]
    BY <1>1, <1>2
  <2>. QED
    BY <1>1, <2>1, <2>2 DEF Part
<1>3. Part(n, c, ro, to) = Change(Part(m, c, ro, to), r, t, u, h)
  <2>1. [x \in Runs |-> IF ro[x] = c THEN n.run[x] ELSE NoRun] =
            [[x \in Runs |-> IF ro[x] = c THEN m.run[x] ELSE NoRun] EXCEPT ![r] = u]
    BY <1>1
  <2>2. [x \in Threads |-> IF to[x] = c THEN n.thread[x] ELSE NoThread] =
            [[x \in Threads |-> IF to[x] = c THEN m.thread[x] ELSE NoThread] EXCEPT ![t] = h]
    BY <1>1
  <2>. QED
    BY <1>1, <2>1, <2>2 DEF Part, Change
<1>. QED
  BY <1>2, <1>3 DEF n

\* A record of a conversation does the same to that part of the memory.
LEMMA SameParameters ==
  ASSUME NEW m, NEW ro, NEW to, Fits(m, ro, to), NEW c \in Convs,
         NEW rec \in MessageRecords, Within(rec, c, ro, to)
  PROVE  /\ Home(m, rec) \in Threads /\ to[Home(m, rec)] = c
         /\ Home(Part(m, c, ro, to), rec) = Home(m, rec)
         /\ RunAfter(Part(m, c, ro, to), rec) = RunAfter(m, rec)
         /\ ThreadAfter(Part(m, c, ro, to), rec) = ThreadAfter(m, rec)
<1>. DEFINE p == Part(m, c, ro, to)
            r == rec.run
<1>1. /\ r \in Runs /\ rec.prev \in Runs \cup {None} /\ rec.thread \in Threads /\ rec.type = "message"
      /\ m \in Mems
  BY DEF MessageRecords, Fits, Sound
<1>2. /\ to[rec.thread] = c /\ rec.conv = c /\ ro[r] = c /\ (rec.prev # None => ro[rec.prev] = c)
  BY <1>1 DEF Within
<1>3. /\ \A x \in Runs : ro[x] = c => p.run[x] = m.run[x]
      /\ \A x \in Threads : to[x] = c => p.thread[x] = m.thread[x]
  BY DEF Part
<1>4. \A x : Known(p, x) <=> Known(m, x) /\ ro[x] = c
  BY PartSound
<1>. HIDE DEF p
<1>5. \A x \in Runs : Known(m, x) /\ ro[x] = c => /\ m.run[x].thread \in Threads /\ to[m.run[x].thread] = c
                                                 /\ p.thread[m.run[x].thread] = m.thread[m.run[x].thread]
  BY <1>1, <1>3, MemFields DEF Fits, RunRecords
<1>6. Home(m, rec) \in Threads /\ to[Home(m, rec)] = c /\ Home(p, rec) = Home(m, rec)
  BY <1>1, <1>2, <1>3, <1>4, <1>5 DEF Home
<1>7. (Known(p, r) <=> Known(m, r)) /\ p.run[r] = m.run[r] /\ p.thread[Home(m, rec)] = m.thread[Home(m, rec)]
  BY <1>1, <1>2, <1>3, <1>4, <1>6
<1>8. RunAfter(p, rec) = RunAfter(m, rec)
  BY <1>7 DEF RunAfter
<1>9. Prefix(p, rec) = Prefix(m, rec)
  <2>1. CASE rec.prev = None
    BY <2>1 DEF Prefix
  <2>2. CASE rec.prev # None
    <3>1. rec.prev \in Runs /\ (Known(p, rec.prev) <=> Known(m, rec.prev)) /\ p.run[rec.prev] = m.run[rec.prev]
      BY <1>1, <1>2, <1>3, <1>4, <2>2
    <3>2. Known(m, rec.prev) => p.thread[m.run[rec.prev].thread] = m.thread[m.run[rec.prev].thread]
      BY <1>2, <1>5, <2>2, <3>1
    <3>. QED
      BY <3>1, <3>2 DEF Prefix
  <2>. QED
    BY <2>1, <2>2
<1>10. ThreadAfter(p, rec) = ThreadAfter(m, rec)
  BY <1>6, <1>7, <1>9 DEF ThreadAfter
<1>. QED
  BY <1>6, <1>8, <1>10 DEF p

\* What the record leaves belongs to its conversation.
LEMMA ApplyOwned ==
  ASSUME NEW m, NEW ro, NEW to, Fits(m, ro, to), NEW c \in Convs,
         NEW rec \in MessageRecords, Within(rec, c, ro, to)
  PROVE  /\ RunAfter(m, rec).conv = c
         /\ ThreadAfter(m, rec).conv = c
         /\ \A i \in DOMAIN ThreadAfter(m, rec).runs : ro[ThreadAfter(m, rec).runs[i]] = c
<1>. DEFINE r == rec.run
            t == m.thread[Home(m, rec)]
            h == ThreadAfter(m, rec)
<1>1. /\ r \in Runs /\ rec.prev \in Runs \cup {None} /\ rec.thread \in Threads /\ rec.type = "message"
      /\ m \in Mems
  BY DEF MessageRecords, Fits, Sound
<1>2. /\ to[rec.thread] = c /\ rec.conv = c /\ ro[r] = c /\ (rec.prev # None => ro[rec.prev] = c)
  BY <1>1 DEF Within
<1>3. Home(m, rec) \in Threads /\ to[Home(m, rec)] = c
  BY SameParameters
<1>4. RunAfter(m, rec).conv = c
  BY <1>1, <1>2 DEF RunAfter, Fits
<1>5. \A i \in DOMAIN t.runs : ro[t.runs[i]] = c
  BY <1>3 DEF Fits
<1>6. CASE Known(m, r)
  <2>1. t # NoThread
    BY <1>1, <1>6 DEF Home, Fits, Sound
  <2>2. t.conv = c
    BY <1>3, <2>1 DEF Fits
  <2>3. h.conv = t.conv /\ h.runs = t.runs
    BY <1>6 DEF ThreadAfter
  <2>. QED
    BY <1>4, <1>5, <2>2, <2>3
<1>7. CASE ~Known(m, r)
  <2>. DEFINE s == IF t # NoThread THEN t.runs ELSE Prefix(m, rec)
  <2>1. h.conv = (IF t # NoThread THEN t.conv ELSE rec.conv) /\ h.runs = Append(s, r)
    BY <1>7 DEF ThreadAfter
  <2>2. h.conv = c
    BY <1>2, <1>3, <2>1 DEF Fits
  <2>3. s \in Seq(Runs) /\ \A i \in DOMAIN s : ro[s[i]] = c
    <3>1. CASE t # NoThread
      BY <1>1, <1>3, <1>5, <3>1, MemFields
    <3>2. CASE t = NoThread
      <4>1. CASE rec.prev # None /\ Known(m, rec.prev) /\ m.run[rec.prev].thread # rec.thread
        <5>. DEFINE q == m.thread[m.run[rec.prev].thread].runs
        <5>1. m.run[rec.prev].thread \in Threads /\ to[m.run[rec.prev].thread] = c
          BY <1>1, <1>2, <4>1, MemFields DEF Fits, RunRecords
        <5>2. q \in Seq(Runs) /\ DOMAIN q = 1..Len(q) /\ Len(q) \in Nat /\ \A i \in DOMAIN q : ro[q[i]] = c
          BY <1>1, <5>1, MemFields DEF Fits
        <5>3. s = UpTo(q, rec.prev)
          BY <3>2, <4>1 DEF Prefix
        <5>. HIDE DEF q, s
        <5>4. /\ UpTo(q, rec.prev) \in Seq(Runs)
              /\ Len(UpTo(q, rec.prev)) \in 0..Len(q)
              /\ \A i \in 1..Len(UpTo(q, rec.prev)) : UpTo(q, rec.prev)[i] = q[i]
          BY <5>2, UpToSeq
        <5>5. s \in Seq(Runs) /\ DOMAIN s = 1..Len(s) /\ Len(s) \in 0..Len(q) /\ \A i \in 1..Len(s) : s[i] = q[i]
          BY <5>3, <5>4
        <5>. QED
          BY <5>2, <5>5
      <4>2. CASE ~(rec.prev # None /\ Known(m, rec.prev) /\ m.run[rec.prev].thread # rec.thread)
        <5>1. s = <<>>
          BY <3>2, <4>2 DEF Prefix
        <5>2. <<>> \in Seq(Runs) /\ DOMAIN <<>> = {}
          OBVIOUS
        <5>. HIDE DEF s
        <5>. QED
          BY <5>1, <5>2
      <4>. QED
        BY <4>1, <4>2
    <3>. QED
      BY <3>1, <3>2
  <2>. HIDE DEF s
  <2>4. DOMAIN Append(s, r) = 1..(Len(s) + 1) /\ DOMAIN s = 1..Len(s) /\ Len(s) \in Nat
        /\ (\A i \in 1..Len(s) : Append(s, r)[i] = s[i]) /\ Append(s, r)[Len(s) + 1] = r
    BY <1>1, <2>3
  <2>5. \A i \in DOMAIN Append(s, r) : ro[Append(s, r)[i]] = c
    BY <1>2, <2>3, <2>4
  <2>. HIDE DEF h
  <2>6. \A i \in DOMAIN h.runs : ro[h.runs[i]] = c
    BY <2>1, <2>5
  <2>. QED
    BY <1>4, <2>2, <2>6 DEF h
<1>. QED
  BY <1>6, <1>7

\* A record changes its conversation's part, as it would alone, and no other.
LEMMA ApplyLocal ==
  ASSUME NEW m, NEW ro, NEW to, Fits(m, ro, to), NEW c \in Convs,
         NEW rec \in Records, Within(rec, c, ro, to)
  PROVE  /\ Fits(ApplyRecord(m, rec), ro, to)
         /\ Part(ApplyRecord(m, rec), c, ro, to) = ApplyRecord(Part(m, c, ro, to), rec)
         /\ \A d : d # c => Part(ApplyRecord(m, rec), d, ro, to) = Part(m, d, ro, to)
<1>0. m \in Mems
  BY DEF Fits, Sound
<1>. DEFINE n == ApplyRecord(m, rec)
<1>s. Sound(n)
  BY ApplySound DEF Fits
<1>1. CASE rec \in MessageRecords
  <2>. DEFINE r == rec.run
              t == Home(m, rec)
              u == RunAfter(m, rec)
              h == ThreadAfter(m, rec)
  <2>1. r \in Runs /\ rec.type = "message" /\ ro[r] = c
    BY <1>1 DEF MessageRecords, Within
  <2>2. n = Change(m, r, t, u, h)
    BY <1>1, ApplyIsChange DEF Fits
  <2>3. t \in Threads /\ to[t] = c /\ u \in RunRecords /\ u.thread = t /\ h \in ThreadRecords
    <3>1. t \in Threads /\ to[t] = c
      BY <1>1, SameParameters
    <3>2. Sound(m)
      BY DEF Fits
    <3>. QED
      BY <1>1, <3>1, <3>2, ApplyTyped
  <2>4. u.conv = c /\ h.conv = c /\ \A i \in DOMAIN h.runs : ro[h.runs[i]] = c
    BY <1>1, ApplyOwned
  <2>5. ApplyRecord(Part(m, c, ro, to), rec) = Change(Part(m, c, ro, to), r, t, u, h)
    BY <1>1, PartSound, ApplyIsChange, SameParameters
  <2>. HIDE DEF u, h, t
  <2>6. /\ Part(n, c, ro, to) = ApplyRecord(Part(m, c, ro, to), rec)
        /\ \A d : d # c => Part(n, d, ro, to) = Part(m, d, ro, to)
    BY <1>0, <2>1, <2>2, <2>3, <2>5, PartOfChange
  <2>7. /\ n.run[r] = u /\ \A x \in Runs : x # r => n.run[x] = m.run[x]
        /\ n.thread[t] = h /\ \A x \in Threads : x # t => n.thread[x] = m.thread[x]
        /\ n.summary = m.summary
    BY <1>0, <2>1, <2>2, <2>3, ChangeFields
  <2>. HIDE DEF n
  <2>8. \A x \in Runs : Known(n, x) => n.run[x].conv = ro[x] /\ to[n.run[x].thread] = ro[x]
    <3>. SUFFICES ASSUME NEW x \in Runs, Known(n, x) PROVE n.run[x].conv = ro[x] /\ to[n.run[x].thread] = ro[x]
      OBVIOUS
    <3>1. CASE x = r
      BY <2>1, <2>3, <2>4, <2>7, <3>1
    <3>2. CASE x # r
      <4>1. Known(m, x) /\ n.run[x] = m.run[x]
        BY <2>7, <3>2 DEF Known
      <4>. QED
        BY <4>1 DEF Fits
    <3>. QED
      BY <3>1, <3>2
  <2>9. \A x \in Threads :
        /\ n.thread[x] # NoThread => n.thread[x].conv = to[x]
        /\ n.summary[x] # None => to[x] \in Convs
        /\ \A i \in DOMAIN n.thread[x].runs : ro[n.thread[x].runs[i]] = to[x]
    BY <2>3, <2>4, <2>7 DEF Fits
  <2>. QED
    BY <1>s, <2>6, <2>8, <2>9 DEF Fits, n
<1>2. CASE rec \in SummaryRecords
  <2>1. rec.type # "message" /\ rec.thread \in Threads /\ rec.upTo \in Runs /\ to[rec.thread] = c
    BY <1>2, NotJunk DEF SummaryRecords, Within
  <2>2. \A x : ApplyRecord(x, rec) = [x EXCEPT !.summary[rec.thread] = rec.upTo]
    BY <2>1 DEF ApplyRecord, SaveSummaryInMemory
  <2>3. n = [run |-> m.run, thread |-> m.thread, summary |-> [m.summary EXCEPT ![rec.thread] = rec.upTo]]
    <3>1. m = [run |-> m.run, thread |-> m.thread, summary |-> m.summary]
      BY <1>0 DEF Mems
    <3>2. n = [m EXCEPT !.summary[rec.thread] = rec.upTo]
      BY <2>2
    <3>. HIDE DEF n
    <3>. QED
      BY <3>1, <3>2
  <2>. DEFINE p == Part(m, c, ro, to)
  <2>4. ApplyRecord(p, rec) = [run |-> p.run, thread |-> p.thread, summary |-> [p.summary EXCEPT ![rec.thread] = rec.upTo]]
    <3>1. p = [run |-> p.run, thread |-> p.thread, summary |-> p.summary]
      BY DEF Part
    <3>. HIDE DEF p
    <3>. QED
      BY <2>2, <3>1
  <2>5. /\ n.run = m.run /\ n.thread = m.thread /\ n.summary[rec.thread] = rec.upTo
        /\ \A x \in Threads : x # rec.thread => n.summary[x] = m.summary[x]
    BY <1>0, <2>1, <2>3 DEF Mems
  <2>. HIDE DEF n
  <2>6. [x \in Threads |-> IF to[x] = c THEN n.summary[x] ELSE None] =
          [[x \in Threads |-> IF to[x] = c THEN m.summary[x] ELSE None] EXCEPT ![rec.thread] = rec.upTo]
    BY <2>1, <2>5
  <2>7. Part(n, c, ro, to) = ApplyRecord(Part(m, c, ro, to), rec)
    BY <2>4, <2>5, <2>6 DEF Part
  <2>8. ASSUME NEW d, d # c PROVE Part(n, d, ro, to) = Part(m, d, ro, to)
    <3>1. [x \in Threads |-> IF to[x] = d THEN n.summary[x] ELSE None] =
            [x \in Threads |-> IF to[x] = d THEN m.summary[x] ELSE None]
      BY <2>1, <2>5, <2>8
    <3>. QED
      BY <2>5, <3>1 DEF Part
  <2>9. Fits(n, ro, to)
    BY <1>s, <2>1, <2>5 DEF Fits, Known
  <2>. QED
    BY <2>7, <2>8, <2>9 DEF n
<1>. QED
  BY <1>1, <1>2 DEF Records

\* So does a file, all of whose records are of one conversation.
LEMMA ReplayLocal ==
  ASSUME NEW m, NEW ro, NEW to, Fits(m, ro, to), NEW c \in Convs,
         NEW s \in Seq(Records), \A i \in DOMAIN s : Within(s[i], c, ro, to)
  PROVE  /\ Fits(ReplayLines(m, s), ro, to)
         /\ Part(ReplayLines(m, s), c, ro, to) = ReplayLines(Part(m, c, ro, to), s)
         /\ \A d : d # c => Part(ReplayLines(m, s), d, ro, to) = Part(m, d, ro, to)
<1>0. Len(s) \in Nat /\ DOMAIN s = 1..Len(s)
  BY LenProperties
<1>. DEFINE p == Part(m, c, ro, to)
<1>1. PICK g : /\ g = [n \in 0..Len(s) |-> IF n = 0 THEN m ELSE ApplyRecord(g[n - 1], s[n])]
               /\ ReplayLines(m, s) = g[Len(s)]
  BY ReplaySteps
<1>2. PICK h : /\ h = [n \in 0..Len(s) |-> IF n = 0 THEN p ELSE ApplyRecord(h[n - 1], s[n])]
               /\ ReplayLines(p, s) = h[Len(s)]
  BY ReplaySteps
<1>. DEFINE Q(x, y) == /\ Fits(x, ro, to)
                       /\ Part(x, c, ro, to) = y
                       /\ \A d : d # c => Part(x, d, ro, to) = Part(m, d, ro, to)
            T == {k \in Nat : k <= Len(s) => Q(g[k], h[k])}
<1>3. 0 \in T
  <2>1. g[0] = m /\ h[0] = p
    BY <1>0, <1>1, <1>2
  <2>. QED
    BY <2>1
<1>4. \A k \in T : k + 1 \in T
  <2>. SUFFICES ASSUME NEW k \in Nat, k + 1 <= Len(s), k <= Len(s) => Q(g[k], h[k])
                PROVE  Q(g[k + 1], h[k + 1])
    OBVIOUS
  <2>1. k + 1 \in DOMAIN s /\ k + 1 # 0 /\ (k + 1) - 1 = k /\ k + 1 \in 0..Len(s) /\ Q(g[k], h[k])
    BY <1>0
  <2>2. g[k + 1] = ApplyRecord(g[k], s[k + 1]) /\ h[k + 1] = ApplyRecord(h[k], s[k + 1])
    <3>1. g[k + 1] = ApplyRecord(g[(k + 1) - 1], s[k + 1])
      BY <1>1, <2>1
    <3>2. h[k + 1] = ApplyRecord(h[(k + 1) - 1], s[k + 1])
      BY <1>2, <2>1
    <3>. QED
      BY <2>1, <3>1, <3>2
  <2>3. s[k + 1] \in Records /\ Within(s[k + 1], c, ro, to)
    BY <1>0, <2>1
  <2>. HIDE DEF p
  <2>. QED
    BY <2>1, <2>2, <2>3, ApplyLocal
<1>. HIDE DEF T
<1>5. Len(s) \in T
  <2>1. T \in SUBSET Nat
    BY DEF T
  <2>. QED
    BY <1>0, <1>3, <1>4, <2>1, InductionOnSets
<1>6. Q(g[Len(s)], h[Len(s)])
  BY <1>0, <1>5 DEF T
<1>. QED
  BY <1>1, <1>2, <1>6

\* The empty memory fits any owners, and each of its parts is empty.
LEMMA EmptyFits ==
  \A ro, to : Fits(EmptyMem, ro, to) /\ \A c : Part(EmptyMem, c, ro, to) = EmptyMem
<1>. TAKE ro, to
<1>1. /\ \A r \in Runs : EmptyMem.run[r] = NoRun
      /\ \A t \in Threads : EmptyMem.thread[t] = NoThread /\ EmptyMem.summary[t] = None
      /\ EmptyMem \in Mems
  BY DEF EmptyMem, Mems
<1>2. DOMAIN NoThread.runs = {}
  BY DEF NoThread
<1>3. Fits(EmptyMem, ro, to)
  BY <1>1, <1>2 DEF Fits, Sound, Known
<1>4. ASSUME NEW c PROVE Part(EmptyMem, c, ro, to) = EmptyMem
  <2>1. /\ [r \in Runs |-> IF ro[r] = c THEN EmptyMem.run[r] ELSE NoRun] = [r \in Runs |-> NoRun]
        /\ [t \in Threads |-> IF to[t] = c THEN EmptyMem.thread[t] ELSE NoThread] = [t \in Threads |-> NoThread]
        /\ [t \in Threads |-> IF to[t] = c THEN EmptyMem.summary[t] ELSE None] = [t \in Threads |-> None]
    BY <1>1
  <2>. QED
    BY <2>1 DEF Part, EmptyMem
<1>. QED
  BY <1>3, <1>4

\* All the files replayed: each conversation is as its own file gives it.
LEMMA ReplayJoins ==
  ASSUME NEW fs, NEW ro, NEW to,
         \A c \in Convs : /\ Readable(fs[c]) \in Seq(Records)
                          /\ \A i \in DOMAIN Readable(fs[c]) : Within(Readable(fs[c])[i], c, ro, to)
  PROVE  /\ Fits(Replay(fs), ro, to)
         /\ \A c \in Convs : Part(Replay(fs), c, ro, to) = ReplayLines(EmptyMem, Readable(fs[c]))
<1>. DEFINE N == Cardinality(Convs)
            q == SetToSeq(Convs)
            Done(c) == ReplayLines(EmptyMem, Readable(fs[c]))
<1>1. /\ N \in Nat /\ q \in [1..N -> Convs]
      /\ \A i, j \in 1..N : q[i] = q[j] => i = j
      /\ \A c \in Convs : \E i \in 1..N : q[i] = c
  BY OrderOfFiles
<1>. HIDE DEF N, q, Done
<1>. DEFINE Q(x, n) == /\ Fits(x, ro, to)
                       /\ \A i \in 1..N : Part(x, q[i], ro, to) = IF i <= n THEN Done(q[i]) ELSE EmptyMem
            F == [n \in 0..N |-> {x \in Mems : Q(x, n)}]
<1>2. EmptyMem \in F[0]
  <2>1. EmptyMem \in Mems /\ Q(EmptyMem, 0)
    BY <1>1, EmptyFits DEF Fits, Sound
  <2>. QED
    BY <1>1, <2>1
<1>3. ASSUME NEW n \in 1..N, NEW x \in F[n - 1] PROVE ReplayFile(x, fs[q[n]]) \in F[n]
  <2>. DEFINE c == q[n]
              y == ReplayFile(x, fs[c])
  <2>1. c \in Convs /\ n - 1 \in 0..N /\ n \in 0..N
    BY <1>1
  <2>2. Q(x, n - 1)
    BY <2>1
  <2>3. /\ Fits(y, ro, to)
        /\ Part(y, c, ro, to) = ReplayLines(Part(x, c, ro, to), Readable(fs[c]))
        /\ \A d : d # c => Part(y, d, ro, to) = Part(x, d, ro, to)
    <3>. DEFINE s == Readable(fs[c])
    <3>1. s \in Seq(Records) /\ \A i \in DOMAIN s : Within(s[i], c, ro, to)
      BY <2>1
    <3>2. Fits(x, ro, to) /\ y = ReplayLines(x, s)
      BY <2>2 DEF ReplayFile
    <3>. HIDE DEF s, c, y
    <3>3. /\ Fits(ReplayLines(x, s), ro, to)
          /\ Part(ReplayLines(x, s), c, ro, to) = ReplayLines(Part(x, c, ro, to), s)
          /\ \A d : d # c => Part(ReplayLines(x, s), d, ro, to) = Part(x, d, ro, to)
      BY <2>1, <3>1, <3>2, ReplayLocal
    <3>. QED
      BY <3>2, <3>3 DEF s
  <2>4. Part(x, c, ro, to) = EmptyMem
    BY <1>1, <2>2
  <2>5. Part(y, c, ro, to) = Done(c)
    BY <2>3, <2>4 DEF Done
  <2>. HIDE DEF y
  <2>6. ASSUME NEW i \in 1..N PROVE Part(y, q[i], ro, to) = IF i <= n THEN Done(q[i]) ELSE EmptyMem
    <3>1. CASE i = n
      BY <1>1, <2>5, <3>1
    <3>2. CASE i # n
      <4>1. q[i] # c /\ (i <= n <=> i <= n - 1)
        BY <1>1, <3>2
      <4>2. Part(x, q[i], ro, to) = IF i <= n - 1 THEN Done(q[i]) ELSE EmptyMem
        BY <2>2
      <4>. QED
        BY <2>3, <4>1, <4>2
    <3>. QED
      BY <3>1, <3>2
  <2>7. Q(y, n) /\ y \in Mems
    BY <2>3, <2>6 DEF Fits, Sound
  <2>. QED
    BY <2>1, <2>7 DEF y
<1>4. Replay(fs) \in F[N]
  <2>. HIDE DEF F
  <2>. QED
    BY <1>2, <1>3, FilesInduction DEF N, q
<1>5. Q(Replay(fs), N)
  BY <1>1, <1>4
<1>. QED
  BY <1>1, <1>5 DEF Done

\* Two memories with the same parts are the same.
LEMMA PartsDetermine ==
  ASSUME NEW m, NEW n, NEW ro, NEW to, Fits(m, ro, to), Fits(n, ro, to),
         \A c \in Convs : Part(m, c, ro, to) = Part(n, c, ro, to)
  PROVE  m = n
<1>1. m \in Mems /\ n \in Mems
  BY DEF Fits, Sound
<1>2. ASSUME NEW x \in Mems, Fits(x, ro, to)
      PROVE  /\ \A r \in Runs : Known(x, r) => ro[r] \in Convs
             /\ \A t \in Threads : x.thread[t] # NoThread => to[t] \in Convs
             /\ \A t \in Threads : x.summary[t] # None => to[t] \in Convs
  BY <1>2, MemFields DEF Fits, RunRecords, ThreadRecords
<1>3. ASSUME NEW x, NEW c \in Convs
      PROVE  /\ \A r \in Runs : ro[r] = c => Part(x, c, ro, to).run[r] = x.run[r]
             /\ \A t \in Threads : to[t] = c => Part(x, c, ro, to).thread[t] = x.thread[t]
             /\ \A t \in Threads : to[t] = c => Part(x, c, ro, to).summary[t] = x.summary[t]
  BY DEF Part
<1>4. \A r \in Runs : m.run[r] = n.run[r]
  <2>. TAKE r \in Runs
  <2>1. CASE ro[r] \in Convs
    BY <1>3, <2>1
  <2>2. CASE ro[r] \notin Convs
    BY <1>1, <1>2, <2>2, MemFields
  <2>. QED
    BY <2>1, <2>2
<1>5. \A t \in Threads : m.thread[t] = n.thread[t] /\ m.summary[t] = n.summary[t]
  <2>. TAKE t \in Threads
  <2>1. CASE to[t] \in Convs
    BY <1>3, <2>1
  <2>2. CASE to[t] \notin Convs
    BY <1>1, <1>2, <2>2
  <2>. QED
    BY <2>1, <2>2
<1>. QED
  BY <1>1, <1>4, <1>5 DEF Mems

-----------------------------------------------------------------------------
(* Threads as chains.                                                      *)

\* The runs of s continue one another from a first one on.
Chain(m, s) ==
  /\ s # <<>> => m.run[s[1]].prev = None
  /\ \A i \in 2..Len(s) : m.run[s[i]].prev = s[i - 1]

\* The list of a thread is a chain of runs of its conversation, of which all
\* but the last are complete; the last is where the thread goes on, and is the
\* thread's own.
Chained(m, t) ==
  LET s == m.thread[t].runs
  IN  /\ s # <<>> /\ Distinct(s) /\ Chain(m, s)
      /\ \A i \in DOMAIN s : m.run[s[i]].conv = m.thread[t].conv
      /\ \A i \in 1..(Len(s) - 1) : m.run[s[i]].complete
      /\ m.thread[t].last = s[Len(s)] /\ m.run[s[Len(s)]].thread = t

AtHome(m, r) ==
  LET home == m.thread[m.run[r].thread]
  IN  home.conv = m.run[r].conv /\ r \in ToSet(home.runs)

Good(m) ==
  /\ Sound(m)
  /\ \A r \in Runs : Known(m, r) => AtHome(m, r)
  /\ \A t \in Threads : m.thread[t] # NoThread => Chained(m, t)
  /\ \A t \in Threads : m.summary[t] # None => m.thread[t] # NoThread

IdsIn(m, ids) ==
  /\ \A r \in Runs : Known(m, r) => r \in ids
  /\ \A t \in Threads : m.thread[t] # NoThread => t \in ids

RunOwner(m) == [r \in Runs |-> m.run[r].conv]
ThreadOwner(m) == [t \in Threads |-> m.thread[t].conv]

\* A good memory fits the owners it gives its own ids.
LEMMA GoodFits ==
  ASSUME NEW m, Good(m)
  PROVE  Fits(m, RunOwner(m), ThreadOwner(m))
<1>1. Sound(m) /\ m \in Mems
  BY DEF Good, Sound
<1>2. ASSUME NEW r \in Runs, Known(m, r)
      PROVE  m.run[r].conv = RunOwner(m)[r] /\ ThreadOwner(m)[m.run[r].thread] = RunOwner(m)[r]
  <2>1. m.run[r].thread \in Threads
    BY <1>1, <1>2, MemFields DEF RunRecords
  <2>. QED
    BY <1>2, <2>1 DEF Good, AtHome, RunOwner, ThreadOwner
<1>3. ASSUME NEW t \in Threads
      PROVE  /\ m.thread[t] # NoThread => m.thread[t].conv = ThreadOwner(m)[t]
             /\ m.summary[t] # None => ThreadOwner(m)[t] \in Convs
             /\ \A i \in DOMAIN m.thread[t].runs : RunOwner(m)[m.thread[t].runs[i]] = ThreadOwner(m)[t]
  <2>1. ThreadOwner(m)[t] = m.thread[t].conv
    BY DEF ThreadOwner
  <2>2. m.thread[t] # NoThread => m.thread[t] \in ThreadRecords
    BY <1>1, MemFields
  <2>3. m.summary[t] # None => ThreadOwner(m)[t] \in Convs
    BY <2>1, <2>2 DEF Good, ThreadRecords
  <2>4. ASSUME NEW i \in DOMAIN m.thread[t].runs PROVE RunOwner(m)[m.thread[t].runs[i]] = ThreadOwner(m)[t]
    <3>1. m.thread[t] # NoThread
      BY DEF NoThread
    <3>2. m.thread[t].runs[i] \in Runs
      BY <1>1, MemFields DEF Sound, Known
    <3>. QED
      BY <2>1, <3>1, <3>2 DEF Good, Chained, RunOwner
  <2>. QED
    BY <2>1, <2>3, <2>4
<1>. QED
  BY <1>1, <1>2, <1>3 DEF Fits

\* A memory that is good has good parts.
LEMMA GoodPart ==
  ASSUME NEW m, Good(m), NEW ro, NEW to, Fits(m, ro, to), NEW c \in Convs, NEW ids
  PROVE  Good(Part(m, c, ro, to)) /\ (IdsIn(m, ids) => IdsIn(Part(m, c, ro, to), ids))
<1>. DEFINE p == Part(m, c, ro, to)
<1>1. m \in Mems
  BY DEF Fits, Sound
<1>2. /\ \A r \in Runs : p.run[r] = IF ro[r] = c THEN m.run[r] ELSE NoRun
      /\ \A t \in Threads : p.thread[t] = IF to[t] = c THEN m.thread[t] ELSE NoThread
      /\ \A t \in Threads : p.summary[t] = IF to[t] = c THEN m.summary[t] ELSE None
  BY DEF Part
<1>3. /\ Sound(p)
      /\ \A r : Known(p, r) <=> Known(m, r) /\ ro[r] = c
  BY PartSound
<1>. HIDE DEF p
<1>4. ASSUME NEW r \in Runs, Known(p, r) PROVE AtHome(p, r)
  <2>1. Known(m, r) /\ ro[r] = c /\ p.run[r] = m.run[r] /\ AtHome(m, r)
    BY <1>2, <1>3, <1>4 DEF Good
  <2>2. m.run[r].thread \in Threads /\ to[m.run[r].thread] = c
    BY <1>1, <2>1, MemFields DEF Fits, RunRecords
  <2>. QED
    BY <1>2, <2>1, <2>2 DEF AtHome
<1>5. ASSUME NEW t \in Threads, p.thread[t] # NoThread PROVE Chained(p, t)
  <2>1. to[t] = c /\ p.thread[t] = m.thread[t] /\ m.thread[t] # NoThread
    BY <1>2, <1>5
  <2>. DEFINE s == m.thread[t].runs
  <2>2. s \in Seq(Runs) /\ DOMAIN s = 1..Len(s) /\ Len(s) \in Nat
    BY <1>1, MemFields
  <2>3. \A i \in DOMAIN s : p.run[s[i]] = m.run[s[i]]
    <3>. TAKE i \in DOMAIN s
    <3>1. s[i] \in Runs /\ ro[s[i]] = c
      BY <2>1, <2>2 DEF Fits
    <3>. QED
      BY <1>2, <3>1
  <2>4. Chained(m, t)
    BY <2>1 DEF Good
  <2>. HIDE DEF s
  <2>5. s # <<>> /\ Len(s) > 0
    BY <2>2, <2>4 DEF Chained, s
  <2>6. Chain(p, s)
    <3>1. Chain(m, s)
      BY <2>4 DEF Chained, s
    <3>. QED
      BY <2>2, <2>3, <2>5, <3>1 DEF Chain
  <2>7. /\ Distinct(s)
        /\ \A i \in DOMAIN s : m.run[s[i]].conv = m.thread[t].conv
        /\ \A i \in 1..(Len(s) - 1) : m.run[s[i]].complete
        /\ m.thread[t].last = s[Len(s)] /\ m.run[s[Len(s)]].thread = t
    BY <2>4 DEF Chained, s
  <2>8. \A i \in 1..(Len(s) - 1) : p.run[s[i]].complete
    BY <2>2, <2>3, <2>7
  <2>9. \A i \in DOMAIN s : p.run[s[i]].conv = m.thread[t].conv
    BY <2>3, <2>7
  <2>10. p.run[s[Len(s)]].thread = t
    BY <2>2, <2>3, <2>5, <2>7
  <2>11. p.thread[t].runs = s /\ p.thread[t].conv = m.thread[t].conv /\ p.thread[t].last = m.thread[t].last
    BY <2>1 DEF s
  <2>. QED
    BY <2>5, <2>6, <2>7, <2>8, <2>9, <2>10, <2>11 DEF Chained
<1>6. ASSUME NEW t \in Threads, p.summary[t] # None PROVE p.thread[t] # NoThread
  BY <1>2, <1>6 DEF Good
<1>7. Good(p)
  BY <1>3, <1>4, <1>5, <1>6 DEF Good
<1>8. IdsIn(m, ids) => IdsIn(p, ids)
  BY <1>2, <1>3 DEF IdsIn
<1>. QED
  BY <1>7, <1>8 DEF p

\* A memory whose parts are good is good.
LEMMA GoodJoin ==
  ASSUME NEW m, NEW ro, NEW to, Fits(m, ro, to), NEW ids,
         \A c \in Convs : Good(Part(m, c, ro, to)) /\ IdsIn(Part(m, c, ro, to), ids)
  PROVE  Good(m) /\ IdsIn(m, ids)
<1>. DEFINE p(c) == Part(m, c, ro, to)
<1>1. m \in Mems /\ Sound(m)
  BY DEF Fits, Sound
<1>2. ASSUME NEW c
      PROVE  /\ \A r \in Runs : p(c).run[r] = IF ro[r] = c THEN m.run[r] ELSE NoRun
             /\ \A t \in Threads : p(c).thread[t] = IF to[t] = c THEN m.thread[t] ELSE NoThread
             /\ \A t \in Threads : p(c).summary[t] = IF to[t] = c THEN m.summary[t] ELSE None
  BY DEF Part
<1>3. ASSUME NEW c PROVE \A r : Known(p(c), r) <=> Known(m, r) /\ ro[r] = c
  BY PartSound
<1>4. ASSUME NEW c \in Convs PROVE Good(p(c)) /\ IdsIn(p(c), ids)
  OBVIOUS
<1>. HIDE DEF p
<1>5. ASSUME NEW r \in Runs, Known(m, r) PROVE AtHome(m, r) /\ r \in ids
  <2>. DEFINE c == ro[r]
  <2>1. c \in Convs /\ m.run[r].thread \in Threads /\ to[m.run[r].thread] = c
    BY <1>1, <1>5, MemFields DEF Fits, RunRecords
  <2>2. Known(p(c), r) /\ p(c).run[r] = m.run[r] /\ p(c).thread[m.run[r].thread] = m.thread[m.run[r].thread]
    BY <1>2, <1>3, <1>5, <2>1
  <2>3. AtHome(p(c), r) /\ r \in ids
    BY <1>4, <2>1, <2>2 DEF Good, IdsIn
  <2>. QED
    BY <2>2, <2>3 DEF AtHome
<1>6. ASSUME NEW t \in Threads, m.thread[t] # NoThread PROVE Chained(m, t) /\ t \in ids
  <2>. DEFINE c == to[t]
              s == m.thread[t].runs
  <2>1. c \in Convs
    BY <1>1, <1>6, MemFields DEF Fits, ThreadRecords
  <2>2. p(c).thread[t] = m.thread[t]
    BY <1>2
  <2>3. s \in Seq(Runs) /\ DOMAIN s = 1..Len(s) /\ Len(s) \in Nat
    BY <1>1, MemFields
  <2>4. \A i \in DOMAIN s : p(c).run[s[i]] = m.run[s[i]]
    <3>. TAKE i \in DOMAIN s
    <3>1. s[i] \in Runs /\ ro[s[i]] = c
      BY <2>3 DEF Fits
    <3>. QED
      BY <1>2, <3>1
  <2>5. Chained(p(c), t) /\ t \in ids
    BY <1>4, <1>6, <2>1, <2>2 DEF Good, IdsIn
  <2>. DEFINE q == p(c)
  <2>. HIDE DEF s, q
  <2>6. /\ s # <<>> /\ Distinct(s) /\ Chain(q, s)
        /\ \A i \in DOMAIN s : q.run[s[i]].conv = m.thread[t].conv
        /\ \A i \in 1..(Len(s) - 1) : q.run[s[i]].complete
        /\ m.thread[t].last = s[Len(s)] /\ q.run[s[Len(s)]].thread = t
    BY <2>2, <2>5 DEF Chained, s, q
  <2>7. Len(s) > 0
    BY <2>3, <2>6
  <2>8. \A i \in DOMAIN s : q.run[s[i]] = m.run[s[i]]
    BY <2>4 DEF q
  <2>9. Chain(m, s)
    BY <2>3, <2>6, <2>7, <2>8 DEF Chain
  <2>10. \A i \in 1..(Len(s) - 1) : m.run[s[i]].complete
    BY <2>3, <2>6, <2>8
  <2>11. \A i \in DOMAIN s : m.run[s[i]].conv = m.thread[t].conv
    BY <2>6, <2>8
  <2>12. m.run[s[Len(s)]].thread = t
    BY <2>3, <2>6, <2>7, <2>8
  <2>. QED
    BY <2>5, <2>6, <2>9, <2>10, <2>11, <2>12 DEF Chained, s
<1>7. ASSUME NEW t \in Threads, m.summary[t] # None PROVE m.thread[t] # NoThread
  <2>. DEFINE c == to[t]
  <2>1. c \in Convs
    BY <1>7 DEF Fits
  <2>2. p(c).thread[t] = m.thread[t] /\ p(c).summary[t] = m.summary[t]
    BY <1>2
  <2>. QED
    BY <1>4, <1>7, <2>1, <2>2 DEF Good
<1>. QED
  BY <1>1, <1>5, <1>6, <1>7 DEF Good, IdsIn

\* The parts of a good memory are what its own ids say.
LEMMA PartOwn ==
  ASSUME NEW m, Good(m), NEW ro, NEW to, Fits(m, ro, to), NEW c \in Convs
  PROVE  Part(m, c, ro, to) = Part(m, c, RunOwner(m), ThreadOwner(m))
<1>1. m \in Mems /\ c # None
  BY NoneIsNoId DEF Good, Sound
<1>2. ASSUME NEW r \in Runs
      PROVE  (IF ro[r] = c THEN m.run[r] ELSE NoRun) = (IF RunOwner(m)[r] = c THEN m.run[r] ELSE NoRun)
  <2>1. CASE Known(m, r)
    BY <2>1 DEF Fits, RunOwner
  <2>2. CASE ~Known(m, r)
    BY <1>1, <2>2, MemFields
  <2>. QED
    BY <2>1, <2>2
<1>3. ASSUME NEW t \in Threads
      PROVE  /\ (IF to[t] = c THEN m.thread[t] ELSE NoThread) = (IF ThreadOwner(m)[t] = c THEN m.thread[t] ELSE NoThread)
             /\ (IF to[t] = c THEN m.summary[t] ELSE None) = (IF ThreadOwner(m)[t] = c THEN m.summary[t] ELSE None)
  <2>1. CASE m.thread[t] # NoThread
    BY <2>1 DEF Fits, ThreadOwner
  <2>2. CASE m.thread[t] = NoThread
    BY <2>2 DEF Good
  <2>. QED
    BY <2>1, <2>2
<1>. QED
  BY <1>2, <1>3 DEF Part

\* A run's predecessor is known, in the same conversation.
LEMMA PrevKnown ==
  ASSUME NEW m, Good(m), NEW r, Known(m, r), m.run[r].prev # None
  PROVE  /\ m.run[r].prev \in Runs /\ Known(m, m.run[r].prev)
         /\ m.run[m.run[r].prev].conv = m.run[r].conv
<1>. DEFINE t == m.run[r].thread
            s == m.thread[t].runs
<1>1. m \in Mems /\ r \in Runs /\ t \in Threads /\ m.thread[t] # NoThread
  BY MemFields DEF Good, Sound, Known, RunRecords
<1>2. AtHome(m, r) /\ Chained(m, t)
  BY <1>1 DEF Good
<1>3. s \in Seq(Runs) /\ DOMAIN s = 1..Len(s) /\ Len(s) \in Nat
  BY <1>1, MemFields
<1>4. PICK i \in DOMAIN s : s[i] = r
  BY <1>2 DEF AtHome, ToSet
<1>5. i \in 2..Len(s) /\ m.run[r].prev = s[i - 1] /\ i - 1 \in DOMAIN s
  <2>1. i # 1
    BY <1>2, <1>4 DEF Chained, Chain
  <2>2. i \in 2..Len(s) /\ i - 1 \in DOMAIN s
    BY <1>3, <2>1
  <2>. QED
    BY <1>2, <1>4, <2>2 DEF Chained, Chain
<1>6. Known(m, s[i - 1]) /\ m.run[s[i - 1]].conv = m.thread[t].conv
  BY <1>1, <1>2, <1>5 DEF Good, Sound, Chained
<1>7. m.thread[t].conv = m.run[r].conv
  BY <1>2 DEF AtHome
<1>8. s[i - 1] \in Runs
  BY <1>6 DEF Known
<1>. HIDE DEF s, t
<1>. QED
  BY <1>5, <1>6, <1>7, <1>8

\* What is loaded for r goes back from it to a first run, each run continuing the
\* one before it.
GoesBack(m, r) ==
  LET s == UpTo(m.thread[m.run[r].thread].runs, r)
  IN  /\ r \in ToSet(s)
      /\ m.run[s[1]].prev = None
      /\ \A i \in 2..Len(s) : m.run[s[i]].prev = s[i - 1]

\* What is loaded for a run is the chain it ends.
LEMMA LoadedChain ==
  ASSUME NEW m, Good(m), NEW r, Known(m, r)
  PROVE  GoesBack(m, r)
<1>. DEFINE t == m.run[r].thread
            q == m.thread[t].runs
            s == UpTo(q, r)
<1>1. m \in Mems /\ r \in Runs /\ t \in Threads /\ m.thread[t] # NoThread
  BY MemFields DEF Good, Sound, Known, RunRecords
<1>2. AtHome(m, r) /\ Chained(m, t)
  BY <1>1 DEF Good
<1>3. q \in Seq(Runs) /\ DOMAIN q = 1..Len(q) /\ Len(q) \in Nat
  BY <1>1, MemFields
<1>4. r \in ToSet(q) /\ q # <<>> /\ Chain(m, q)
  BY <1>2 DEF AtHome, Chained
<1>. HIDE DEF q
<1>5. PICK n \in 0..Len(q) : s = SubSeq(q, 1, n) /\ n > 0 /\ q[n] = r
  BY <1>3, <1>4, UpToIsPrefix
<1>. HIDE DEF s
<1>6. Len(s) = n /\ DOMAIN s = 1..n /\ \A i \in 1..n : s[i] = q[i]
  BY <1>3, <1>5
<1>7. r \in ToSet(s)
  BY <1>5, <1>6 DEF ToSet
<1>8. m.run[s[1]].prev = None
  BY <1>3, <1>4, <1>5, <1>6 DEF Chain
<1>9. ASSUME NEW i \in 2..Len(s) PROVE m.run[s[i]].prev = s[i - 1]
  <2>1. i \in 2..Len(q) /\ s[i] = q[i] /\ s[i - 1] = q[i - 1]
    BY <1>3, <1>5, <1>6
  <2>. QED
    BY <1>4, <2>1 DEF Chain
<1>. QED
  BY <1>7, <1>8, <1>9, Zenon DEF GoesBack, s, q, t

-----------------------------------------------------------------------------
(* Saves.                                                                  *)

\* A run that is not complete is the last of every list it is on.
LEMMA IncompleteIsLast ==
  ASSUME NEW m, Good(m), NEW r, ~m.run[r].complete,
         NEW t \in Threads, NEW i \in DOMAIN m.thread[t].runs, m.thread[t].runs[i] = r
  PROVE  /\ m.thread[t] # NoThread /\ i = Len(m.thread[t].runs)
         /\ m.thread[t].last = r /\ m.run[r].thread = t
<1>. DEFINE s == m.thread[t].runs
<1>1. m.thread[t] # NoThread
  BY DEF NoThread
<1>2. Chained(m, t)
  BY <1>1 DEF Good
<1>3. s \in Seq(Runs) /\ DOMAIN s = 1..Len(s) /\ Len(s) \in Nat
  BY MemFields DEF Good, Sound
<1>4. i = Len(s)
  <2>. SUFFICES ASSUME i # Len(s) PROVE FALSE
    OBVIOUS
  <2>1. i \in 1..(Len(s) - 1)
    BY <1>3
  <2>. QED
    BY <1>2, <2>1 DEF Chained
<1>. QED
  BY <1>1, <1>2, <1>4 DEF Chained

\* Another increment of such a run.
LEMMA GoodIncrement ==
  ASSUME NEW m, Good(m), NEW r, Known(m, r), ~m.run[r].complete,
         NEW inc \in Nat, NEW complete \in BOOLEAN
  PROVE  LET n == AppendIncrement(m, r, inc, complete)
         IN  /\ Good(n) /\ n.thread = m.thread /\ n.summary = m.summary
             /\ \A x \in Runs : x # r => n.run[x] = m.run[x]
             /\ \A x : Known(n, x) <=> Known(m, x)
             /\ n.run[r].thread = m.run[r].thread /\ n.run[r].conv = m.run[r].conv
             /\ n.run[r].prev = m.run[r].prev /\ n.run[r].complete = complete
<1>. DEFINE n == AppendIncrement(m, r, inc, complete)
            u == m.run[r]
            t == m.thread[u.thread]
            u1 == [thread |-> u.thread, conv |-> u.conv, prev |-> u.prev,
                   msgs |-> Append(u.msgs, inc), complete |-> complete]
            h1 == [conv |-> t.conv, last |-> r, runs |-> t.runs]
<1>1. Sound(m) /\ m \in Mems /\ r \in Runs /\ u \in RunRecords
  BY MemFields DEF Good, Sound, Known
<1>2. u.thread \in Threads /\ t # NoThread /\ t \in ThreadRecords
  <2>1. u.thread \in Threads /\ t # NoThread
    BY <1>1 DEF Good, Sound, RunRecords
  <2>. QED
    BY <1>1, <2>1, MemFields
<1>3. n = Change(m, r, u.thread, u1, h1)
  BY <1>1, IncrementIsChange
<1>4. t.last = r
  <2>1. AtHome(m, r)
    BY <1>1 DEF Good
  <2>2. PICK i \in DOMAIN t.runs : t.runs[i] = r
    BY <2>1 DEF AtHome, ToSet
  <2>. QED
    BY <1>2, <2>2, IncompleteIsLast
<1>5. h1 = t
  BY <1>2, <1>4 DEF ThreadRecords
<1>6. u1 \in RunRecords /\ u1.thread = u.thread /\ u1.conv = u.conv /\ u1.prev = u.prev /\ u1.complete = complete
  <2>1. Append(u.msgs, inc) \in Seq(Nat)
    BY <1>1 DEF RunRecords
  <2>. QED
    BY <1>1, <2>1 DEF RunRecords
<1>. HIDE DEF u1, h1, n
<1>7. /\ n.run[r] = u1 /\ \A x \in Runs : x # r => n.run[x] = m.run[x]
      /\ n.thread[u.thread] = t /\ \A x \in Threads : x # u.thread => n.thread[x] = m.thread[x]
      /\ n.summary = m.summary /\ n \in Mems
  BY <1>1, <1>2, <1>3, <1>5, <1>6, ChangeFields
<1>8. n.thread = m.thread
  BY <1>1, <1>7 DEF Mems
<1>9. Sound(n) /\ \A x : Known(n, x) <=> x = r \/ Known(m, x)
  <2>1. \A i \in DOMAIN t.runs : t.runs[i] = r \/ Known(m, t.runs[i])
    BY <1>2 DEF Good, Sound
  <2>2. u1.thread = u.thread /\ h1 \in ThreadRecords /\ \A i \in DOMAIN h1.runs : h1.runs[i] = r \/ Known(m, h1.runs[i])
    BY <1>2, <1>5, <1>6, <2>1
  <2>3. /\ Sound(Change(m, r, u.thread, u1, h1))
        /\ \A x : Known(Change(m, r, u.thread, u1, h1), x) <=> x = r \/ Known(m, x)
    BY <1>1, <1>2, <1>6, <2>2, ChangeSound
  <2>. QED
    BY <1>3, <2>3
<1>10. \A x \in Runs : n.run[x].prev = m.run[x].prev /\ n.run[x].conv = m.run[x].conv /\ n.run[x].thread = m.run[x].thread
                        /\ (m.run[x].complete => n.run[x].complete)
  BY <1>6, <1>7
<1>11. ASSUME NEW x \in Runs, Known(n, x) PROVE AtHome(n, x)
  <2>1. Known(m, x) /\ AtHome(m, x)
    BY <1>9, <1>11 DEF Good
  <2>. QED
    BY <1>8, <1>10, <2>1 DEF AtHome
<1>12. ASSUME NEW x \in Threads, n.thread[x] # NoThread PROVE Chained(n, x)
  <2>. DEFINE s == m.thread[x].runs
  <2>1. Chained(m, x)
    BY <1>8, <1>12 DEF Good
  <2>2. s \in Seq(Runs) /\ DOMAIN s = 1..Len(s) /\ Len(s) \in Nat /\ \A i \in 1..Len(s) : s[i] \in Runs
    BY <1>1, MemFields
  <2>3. n.thread[x] = m.thread[x]
    BY <1>8
  <2>. HIDE DEF s
  <2>4. /\ s # <<>> /\ Distinct(s) /\ Chain(m, s)
        /\ \A i \in DOMAIN s : m.run[s[i]].conv = m.thread[x].conv
        /\ \A i \in 1..(Len(s) - 1) : m.run[s[i]].complete
        /\ m.thread[x].last = s[Len(s)] /\ m.run[s[Len(s)]].thread = x
    BY <2>1 DEF Chained, s
  <2>5. Len(s) > 0
    BY <2>2, <2>4
  <2>6. Chain(n, s)
    BY <1>10, <2>2, <2>4, <2>5 DEF Chain
  <2>7. \A i \in DOMAIN s : n.run[s[i]].conv = m.thread[x].conv
    BY <1>10, <2>2, <2>4
  <2>8. \A i \in 1..(Len(s) - 1) : n.run[s[i]].complete
    BY <1>10, <2>2, <2>4
  <2>9. n.run[s[Len(s)]].thread = x
    BY <1>10, <2>2, <2>4, <2>5
  <2>. QED
    BY <2>3, <2>4, <2>6, <2>7, <2>8, <2>9 DEF Chained, s
<1>13. \A x \in Threads : n.summary[x] # None => n.thread[x] # NoThread
  BY <1>7, <1>8 DEF Good
<1>14. Good(n)
  BY <1>9, <1>11, <1>12, <1>13 DEF Good
<1>. QED
  BY <1>6, <1>7, <1>8, <1>9, <1>14 DEF n

\* A sequence that an id was appended to.
LEMMA AppendShape ==
  ASSUME NEW S, NEW s \in Seq(S), NEW r \in S
  PROVE  /\ Append(s, r) \in Seq(S) /\ Len(Append(s, r)) = Len(s) + 1 /\ Len(s) \in Nat
         /\ DOMAIN Append(s, r) = 1..(Len(s) + 1) /\ DOMAIN s = 1..Len(s)
         /\ \A i \in 1..Len(s) : Append(s, r)[i] = s[i]
         /\ Append(s, r)[Len(s) + 1] = r /\ Append(s, r) # <<>>
  BY AppendProperties, LenProperties

\* The next run of a chain, in its thread or in a new one.
LEMMA GoodStore ==
  ASSUME NEW m, Good(m), NEW r \in Runs, ~Known(m, r), NEW t \in Threads,
         NEW c \in Convs, NEW prev \in Runs \cup {None}, NEW inc \in Nat, NEW complete \in BOOLEAN,
         NEW s \in Seq(Runs), Distinct(s), Chain(m, s),
         \A i \in DOMAIN s : Known(m, s[i]) /\ m.run[s[i]].conv = c /\ m.run[s[i]].complete,
         prev = IF s = <<>> THEN None ELSE s[Len(s)],
         m.thread[t] = NoThread \/ (m.thread[t].runs = s /\ m.thread[t].conv = c)
  PROVE  Good(Change(m, r, t,
                [thread |-> t, conv |-> c, prev |-> prev, msgs |-> <<inc>>, complete |-> complete],
                [conv |-> c, last |-> r, runs |-> Append(s, r)]))
<1>. DEFINE u == [thread |-> t, conv |-> c, prev |-> prev, msgs |-> <<inc>>, complete |-> complete]
            q == Append(s, r)
            h == [conv |-> c, last |-> r, runs |-> q]
            n == Change(m, r, t, u, h)
<1>1. Sound(m) /\ m \in Mems
  BY DEF Good, Sound
<1>2. u \in RunRecords
  <2>1. <<inc>> \in Seq(Nat)
    OBVIOUS
  <2>. QED
    BY <2>1 DEF RunRecords
<1>3. /\ q \in Seq(Runs) /\ Len(q) = Len(s) + 1 /\ Len(s) \in Nat
      /\ DOMAIN q = 1..(Len(s) + 1) /\ DOMAIN s = 1..Len(s)
      /\ \A i \in 1..Len(s) : q[i] = s[i]
      /\ q[Len(s) + 1] = r /\ q # <<>>
  BY AppendShape
<1>4. \A i \in DOMAIN q : q[i] = r \/ Known(m, q[i])
  BY <1>3
<1>. HIDE DEF q
<1>5. h \in ThreadRecords
  BY <1>3 DEF ThreadRecords
<1>6. h.runs = q /\ h.conv = c /\ h.last = r /\ u.thread = t /\ u.conv = c /\ u.prev = prev
  OBVIOUS
<1>. HIDE DEF u, h, n
<1>7. /\ n.run[r] = u /\ \A x \in Runs : x # r => n.run[x] = m.run[x]
      /\ n.thread[t] = h /\ \A x \in Threads : x # t => n.thread[x] = m.thread[x]
      /\ n.summary = m.summary /\ n \in Mems
  BY <1>1, <1>2, <1>5, ChangeFields DEF n
<1>8. Sound(n) /\ \A x : Known(n, x) <=> x = r \/ Known(m, x)
  BY <1>1, <1>2, <1>4, <1>5, <1>6, ChangeSound DEF n
<1>9. h # NoThread
  BY <1>5, <1>7, MemFields
<1>10. \A i \in 1..Len(s) : s[i] \in Runs /\ s[i] # r /\ n.run[s[i]] = m.run[s[i]]
  BY <1>3, <1>7
<1>11. AtHome(n, r)
  <2>1. r \in ToSet(q)
    BY <1>3 DEF ToSet
  <2>. QED
    BY <1>6, <1>7, <2>1 DEF AtHome
<1>12. ASSUME NEW x \in Runs, x # r, Known(n, x) PROVE AtHome(n, x)
  <2>1. Known(m, x) /\ n.run[x] = m.run[x] /\ AtHome(m, x)
    BY <1>7, <1>8, <1>12 DEF Good
  <2>. DEFINE y == m.run[x].thread
  <2>2. y \in Threads /\ m.thread[y] # NoThread
    BY <1>1, <2>1, MemFields DEF Sound, RunRecords
  <2>3. CASE y = t
    <3>1. m.thread[t].runs = s /\ m.thread[t].conv = c
      BY <2>2, <2>3
    <3>2. x \in ToSet(s) /\ m.run[x].conv = c
      BY <2>1, <2>3, <3>1 DEF AtHome
    <3>3. x \in ToSet(q)
      BY <1>3, <3>2 DEF ToSet
    <3>. QED
      BY <1>6, <1>7, <2>1, <2>3, <3>2, <3>3 DEF AtHome
  <2>4. CASE y # t
    BY <1>7, <2>1, <2>2, <2>4 DEF AtHome
  <2>. QED
    BY <2>3, <2>4
<1>13. Chained(n, t)
  <2>1. Distinct(q)
    BY <1>3, <1>10 DEF Distinct
  <2>2. Chain(n, q)
    <3>1. n.run[q[1]].prev = None
      <4>1. CASE s = <<>>
        <5>1. Len(s) = 0
          BY <4>1
        <5>2. q[1] = r
          BY <1>3, <5>1
        <5>. QED
          BY <1>6, <1>7, <4>1, <5>2
      <4>2. CASE s # <<>>
        <5>1. 1 \in 1..Len(s)
          BY <1>3, <4>2
        <5>. QED
          BY <1>3, <1>10, <4>2, <5>1 DEF Chain
      <4>. QED
        BY <4>1, <4>2
    <3>2. ASSUME NEW i \in 2..Len(q) PROVE n.run[q[i]].prev = q[i - 1]
      <4>1. CASE i = Len(s) + 1
        <5>1. s # <<>> /\ i - 1 = Len(s) /\ Len(s) \in 1..Len(s)
          BY <1>3, <4>1
        <5>2. q[i] = r /\ q[i - 1] = s[Len(s)]
          BY <1>3, <4>1, <5>1
        <5>. QED
          BY <1>6, <1>7, <5>1, <5>2
      <4>2. CASE i # Len(s) + 1
        <5>1. i \in 2..Len(s) /\ i \in 1..Len(s) /\ i - 1 \in 1..Len(s)
          BY <1>3, <4>2
        <5>. QED
          BY <1>3, <1>10, <5>1 DEF Chain
      <4>. QED
        BY <4>1, <4>2
    <3>. QED
      BY <3>1, <3>2 DEF Chain
  <2>3. \A i \in DOMAIN q : n.run[q[i]].conv = c
    BY <1>3, <1>6, <1>7, <1>10
  <2>4. \A i \in 1..(Len(q) - 1) : n.run[q[i]].complete
    BY <1>3, <1>10
  <2>5. h.last = q[Len(q)] /\ n.run[q[Len(q)]].thread = t
    BY <1>3, <1>6, <1>7
  <2>. QED
    BY <1>3, <1>6, <1>7, <2>1, <2>2, <2>3, <2>4, <2>5 DEF Chained
<1>14. ASSUME NEW x \in Threads, x # t, n.thread[x] # NoThread PROVE Chained(n, x)
  <2>. DEFINE l == m.thread[x].runs
  <2>1. Chained(m, x) /\ n.thread[x] = m.thread[x]
    BY <1>7, <1>14 DEF Good
  <2>2. l \in Seq(Runs) /\ DOMAIN l = 1..Len(l) /\ Len(l) \in Nat /\ \A i \in 1..Len(l) : l[i] \in Runs /\ Known(m, l[i])
    BY <1>1, MemFields DEF Sound, Known
  <2>. HIDE DEF l
  <2>4. /\ l # <<>> /\ Distinct(l) /\ Chain(m, l)
        /\ \A i \in DOMAIN l : m.run[l[i]].conv = m.thread[x].conv
        /\ \A i \in 1..(Len(l) - 1) : m.run[l[i]].complete
        /\ m.thread[x].last = l[Len(l)] /\ m.run[l[Len(l)]].thread = x
    BY <2>1 DEF Chained, l
  <2>5. Len(l) > 0
    BY <2>2, <2>4
  <2>6. \A i \in 1..Len(l) : n.run[l[i]] = m.run[l[i]]
    BY <1>7, <2>2
  <2>7. Chain(n, l)
    BY <2>2, <2>4, <2>5, <2>6 DEF Chain
  <2>8. \A i \in DOMAIN l : n.run[l[i]].conv = m.thread[x].conv
    BY <2>2, <2>4, <2>6
  <2>9. \A i \in 1..(Len(l) - 1) : n.run[l[i]].complete
    BY <2>2, <2>4, <2>6
  <2>10. n.run[l[Len(l)]].thread = x
    BY <2>2, <2>4, <2>5, <2>6
  <2>. QED
    BY <2>1, <2>4, <2>7, <2>8, <2>9, <2>10 DEF Chained, l
<1>15. \A x \in Threads : n.summary[x] # None => n.thread[x] # NoThread
  BY <1>7, <1>9 DEF Good
<1>16. Good(n)
  BY <1>8, <1>11, <1>12, <1>13, <1>14, <1>15 DEF Good
<1>. QED
  BY <1>16 DEF n, u, h, q

\* The thread a new run is saved in, that thread's list before, and the
\* conversations of the two.
SavedThread(m, r, prev, t, fresh) ==
  IF prev = None THEN t
  ELSE IF Branches(m, r, prev) THEN fresh ELSE m.run[prev].thread

SavedList(m, r, prev) ==
  IF prev = None THEN <<>>
  ELSE IF Branches(m, r, prev) THEN UpTo(m.thread[m.run[prev].thread].runs, prev)
  ELSE m.thread[m.run[prev].thread].runs

SavedConv(m, prev, c) == IF prev = None THEN c ELSE m.run[prev].conv

ThreadConv(m, r, prev, c) ==
  IF prev # None /\ ~Branches(m, r, prev) THEN m.thread[m.run[prev].thread].conv ELSE SavedConv(m, prev, c)

\* A save of a new run changes that run and one thread, its own or a new one.
LEMMA SaveIsChange ==
  ASSUME NEW m, Sound(m), NEW r \in Runs, ~Known(m, r), NEW prev \in Runs \cup {None},
         prev = None \/ Known(m, prev), NEW t \in Threads, NEW c, NEW inc, NEW complete,
         NEW fresh, Branches(m, r, prev) => fresh \in Threads
  PROVE  LET h == SavedThread(m, r, prev, t, fresh)
         IN  /\ h \in Threads
             /\ SaveInMemory(m, r, prev, t, c, inc, complete, fresh) =
                  Change(m, r, h,
                    [thread |-> h, conv |-> SavedConv(m, prev, c), prev |-> prev, msgs |-> <<inc>>,
                     complete |-> complete],
                    [conv |-> ThreadConv(m, r, prev, c), last |-> r,
                     runs |-> Append(SavedList(m, r, prev), r)])
<1>. DEFINE n == SaveInMemory(m, r, prev, t, c, inc, complete, fresh)
<1>1. m \in Mems /\ m = [run |-> m.run, thread |-> m.thread, summary |-> m.summary]
  BY DEF Sound, Mems
<1>2. CASE prev = None
  <2>. DEFINE x == [m EXCEPT !.thread[t] = [conv |-> c, last |-> r, runs |-> <<>>]]
  <2>1. n = Store(x, r, prev, t, c, inc, complete)
    BY <1>2 DEF SaveInMemory
  <2>2. x = [run |-> m.run, thread |-> [m.thread EXCEPT ![t] = [conv |-> c, last |-> r, runs |-> <<>>]],
             summary |-> m.summary]
    BY <1>1
  <2>. HIDE DEF x
  <2>. DEFINE e == <<>>
  <2>. HIDE DEF e
  <2>5. x = [run |-> m.run, thread |-> [m.thread EXCEPT ![t] = [conv |-> c, last |-> r, runs |-> e]], summary |-> m.summary]
    BY <2>2 DEF e
  <2>6. Store(x, r, prev, t, c, inc, complete) =
          Change(m, r, t, [thread |-> t, conv |-> c, prev |-> prev, msgs |-> <<inc>>, complete |-> complete],
                 [conv |-> c, last |-> r, runs |-> Append(e, r)])
    BY <1>1, <2>5, StoreIsChange
  <2>3. Store(x, r, prev, t, c, inc, complete) =
          Change(m, r, t, [thread |-> t, conv |-> c, prev |-> prev, msgs |-> <<inc>>, complete |-> complete],
                 [conv |-> c, last |-> r, runs |-> Append(<<>>, r)])
    BY <2>6, Zenon DEF e
  <2>. HIDE DEF n
  <2>4. /\ SavedThread(m, r, prev, t, fresh) = t /\ SavedList(m, r, prev) = <<>>
        /\ SavedConv(m, prev, c) = c /\ ThreadConv(m, r, prev, c) = c
    BY <1>2 DEF SavedThread, SavedList, SavedConv, ThreadConv
  <2>. QED
    BY <2>1, <2>3, <2>4 DEF n
<1>3. CASE prev # None
  <2>. DEFINE p == m.run[prev]
              h == p.thread
  <2>1. p \in RunRecords /\ h \in Threads /\ m.thread[h] # NoThread
    BY <1>1, <1>3, MemFields DEF Sound, RunRecords
  <2>2. m.thread[h] \in ThreadRecords
    BY <1>1, <2>1, MemFields
  <2>3. CASE Branches(m, r, prev)
    <3>. DEFINE l == UpTo(m.thread[h].runs, prev)
                x == [m EXCEPT !.thread[fresh] = [conv |-> p.conv, last |-> r, runs |-> l]]
    <3>1. n = Store(x, r, prev, fresh, p.conv, inc, complete)
      BY <1>3, <2>3 DEF SaveInMemory
    <3>2. x = [run |-> m.run, thread |-> [m.thread EXCEPT ![fresh] = [conv |-> p.conv, last |-> r, runs |-> l]],
               summary |-> m.summary]
      BY <1>1
    <3>. HIDE DEF x, l
    <3>3. Store(x, r, prev, fresh, p.conv, inc, complete) =
            Change(m, r, fresh, [thread |-> fresh, conv |-> p.conv, prev |-> prev, msgs |-> <<inc>>, complete |-> complete],
                   [conv |-> p.conv, last |-> r, runs |-> Append(l, r)])
      BY <1>1, <2>3, <3>2, StoreIsChange
    <3>. HIDE DEF n
    <3>4. /\ SavedThread(m, r, prev, t, fresh) = fresh /\ SavedList(m, r, prev) = l
          /\ SavedConv(m, prev, c) = p.conv /\ ThreadConv(m, r, prev, c) = p.conv
      BY <1>3, <2>3 DEF SavedThread, SavedList, SavedConv, ThreadConv, l
    <3>. QED
      BY <2>3, <3>1, <3>3, <3>4 DEF n
  <2>4. CASE ~Branches(m, r, prev)
    <3>. DEFINE q == m.thread[h]
                x == [m EXCEPT !.thread[h].last = r]
    <3>1. n = Store(x, r, prev, h, p.conv, inc, complete)
      BY <1>3, <2>4 DEF SaveInMemory
    <3>2. x = [run |-> m.run, thread |-> [m.thread EXCEPT ![h] = [q EXCEPT !.last = r]], summary |-> m.summary]
      BY <1>1
    <3>3. [q EXCEPT !.last = r] = [conv |-> q.conv, last |-> r, runs |-> q.runs]
      BY <2>2 DEF ThreadRecords
    <3>. HIDE DEF x, q
    <3>4. Store(x, r, prev, h, p.conv, inc, complete) =
            Change(m, r, h, [thread |-> h, conv |-> p.conv, prev |-> prev, msgs |-> <<inc>>, complete |-> complete],
                   [conv |-> q.conv, last |-> r, runs |-> Append(q.runs, r)])
      BY <1>1, <2>1, <3>2, <3>3, StoreIsChange
    <3>. HIDE DEF n
    <3>5. /\ SavedThread(m, r, prev, t, fresh) = h /\ SavedList(m, r, prev) = q.runs
          /\ SavedConv(m, prev, c) = p.conv /\ ThreadConv(m, r, prev, c) = q.conv
      BY <1>3, <2>4 DEF SavedThread, SavedList, SavedConv, ThreadConv, q
    <3>. QED
      BY <2>1, <3>1, <3>4, <3>5 DEF n
  <2>. QED
    BY <2>3, <2>4
<1>. QED
  BY <1>2, <1>3

\* Any save, whatever other managers do: the memory stays sound, and known
\* runs stay where they are.
LEMMA SaveSound ==
  ASSUME NEW m, Sound(m), NEW r \in Runs, NEW prev \in Runs \cup {None},
         prev = None \/ Known(m, prev), NEW t \in Threads, NEW c \in Convs, NEW inc \in Nat,
         NEW complete \in BOOLEAN, NEW fresh, Branches(m, r, prev) => fresh \in Threads
  PROVE  LET n == SaveInMemory(m, r, prev, t, c, inc, complete, fresh)
         IN  /\ Sound(n) /\ \A x : Known(n, x) <=> x = r \/ Known(m, x)
             /\ \A x \in Runs : Known(m, x) => n.run[x].conv = m.run[x].conv
             /\ n.summary = m.summary
             /\ n.run[r].complete = complete
             /\ MessageRecord(n, r, inc) \in MessageRecords
<1>. DEFINE n == SaveInMemory(m, r, prev, t, c, inc, complete, fresh)
            Kept == /\ Sound(n) /\ \A x : Known(n, x) <=> x = r \/ Known(m, x)
                    /\ \A x \in Runs : Known(m, x) => n.run[x].conv = m.run[x].conv
                    /\ n.summary = m.summary
                    /\ n.run[r].complete = complete
                    /\ MessageRecord(n, r, inc) \in MessageRecords
<1>1. m \in Mems
  BY DEF Sound
<1>2. ASSUME NEW h \in Threads, NEW u \in RunRecords, NEW q \in ThreadRecords,
             n = Change(m, r, h, u, q), u.thread = h, u.complete = complete,
             \A i \in DOMAIN q.runs : q.runs[i] = r \/ Known(m, q.runs[i]),
             Known(m, r) => u.conv = m.run[r].conv
      PROVE  Kept
  <2>. HIDE DEF n
  <2>1. /\ n.run[r] = u /\ \A x \in Runs : x # r => n.run[x] = m.run[x]
        /\ n.summary = m.summary
    BY <1>1, <1>2, ChangeFields
  <2>2. Sound(n) /\ \A x : Known(n, x) <=> x = r \/ Known(m, x)
    BY <1>2, ChangeSound
  <2>3. \A x \in Runs : Known(m, x) => n.run[x].conv = m.run[x].conv
    BY <1>2, <2>1
  <2>4. MessageRecord(n, r, inc) \in MessageRecords
    BY <2>1 DEF MessageRecord, MessageRecords, RunRecords
  <2>. QED
    BY <1>2, <2>1, <2>2, <2>3, <2>4
<1>3. CASE Known(m, r)
  <2>. DEFINE w == m.run[r]
              h == w.thread
              q == m.thread[h]
              u == [thread |-> h, conv |-> w.conv, prev |-> w.prev, msgs |-> Append(w.msgs, inc), complete |-> complete]
              q1 == [conv |-> q.conv, last |-> r, runs |-> q.runs]
  <2>1. n = AppendIncrement(m, r, inc, complete)
    BY <1>3 DEF SaveInMemory
  <2>2. n = Change(m, r, h, u, q1)
    BY <1>3, <2>1, IncrementIsChange
  <2>3. w \in RunRecords /\ h \in Threads /\ q \in ThreadRecords
    <3>1. w \in RunRecords /\ h \in Threads /\ q # NoThread
      BY <1>1, <1>3, MemFields DEF Sound, RunRecords
    <3>. QED
      BY <1>1, <3>1, MemFields
  <2>4. u \in RunRecords /\ u.thread = h /\ u.complete = complete /\ u.conv = w.conv
    <3>1. Append(w.msgs, inc) \in Seq(Nat)
      BY <2>3 DEF RunRecords
    <3>. QED
      BY <2>3, <3>1 DEF RunRecords
  <2>5. q1 \in ThreadRecords /\ q1.runs = q.runs
    BY <2>3 DEF ThreadRecords
  <2>6. \A i \in DOMAIN q.runs : Known(m, q.runs[i])
    BY <2>3 DEF Sound
  <2>7. \A i \in DOMAIN q1.runs : q1.runs[i] = r \/ Known(m, q1.runs[i])
    BY <2>5, <2>6
  <2>. HIDE DEF n, u, q1, h
  <2>8. Kept
    BY <1>2, <2>2, <2>3, <2>4, <2>5, <2>7
  <2>. QED
    BY <2>8 DEF n
<1>4. CASE ~Known(m, r)
  <2>. DEFINE h == SavedThread(m, r, prev, t, fresh)
              s == SavedList(m, r, prev)
              u == [thread |-> h, conv |-> SavedConv(m, prev, c), prev |-> prev, msgs |-> <<inc>>, complete |-> complete]
              q == [conv |-> ThreadConv(m, r, prev, c), last |-> r, runs |-> Append(s, r)]
  <2>1. h \in Threads /\ n = Change(m, r, h, u, q)
    BY <1>4, SaveIsChange
  <2>2. prev # None => /\ m.run[prev] \in RunRecords /\ m.run[prev].thread \in Threads
                       /\ m.thread[m.run[prev].thread] \in ThreadRecords
    <3>. SUFFICES ASSUME prev # None
                  PROVE  /\ m.run[prev] \in RunRecords /\ m.run[prev].thread \in Threads
                         /\ m.thread[m.run[prev].thread] \in ThreadRecords
      OBVIOUS
    <3>1. m.run[prev] \in RunRecords /\ m.run[prev].thread \in Threads /\ m.thread[m.run[prev].thread] # NoThread
      BY <1>1, MemFields DEF Sound, RunRecords
    <3>. QED
      BY <1>1, <3>1, MemFields
  <2>3. SavedConv(m, prev, c) \in Convs /\ ThreadConv(m, r, prev, c) \in Convs
    BY <2>2 DEF SavedConv, ThreadConv, RunRecords, ThreadRecords
  <2>4. s \in Seq(Runs) /\ \A i \in DOMAIN s : Known(m, s[i])
    <3>1. CASE prev = None
      <4>1. s = <<>>
        BY <3>1 DEF SavedList
      <4>2. <<>> \in Seq(Runs) /\ DOMAIN <<>> = {}
        OBVIOUS
      <4>. HIDE DEF s
      <4>. QED
        BY <4>1, <4>2
    <3>2. CASE prev # None
      <4>. DEFINE l == m.thread[m.run[prev].thread].runs
      <4>1. l \in Seq(Runs) /\ \A i \in DOMAIN l : Known(m, l[i])
        BY <2>2, <3>2 DEF Sound, ThreadRecords
      <4>2. s = l \/ s = UpTo(l, prev)
        BY <3>2 DEF SavedList
      <4>. HIDE DEF s, l
      <4>3. UpTo(l, prev) \in Seq(Runs) /\ \A i \in DOMAIN UpTo(l, prev) : Known(m, UpTo(l, prev)[i])
        BY <4>1, UpToNames
      <4>. QED
        BY <4>1, <4>2, <4>3
    <3>. QED
      BY <3>1, <3>2
  <2>. HIDE DEF s
  <2>5. Append(s, r) \in Seq(Runs) /\ \A i \in DOMAIN Append(s, r) : Append(s, r)[i] = r \/ Known(m, Append(s, r)[i])
    BY <2>4, AppendNames
  <2>6. q \in ThreadRecords /\ q.runs = Append(s, r)
    BY <2>3, <2>5 DEF ThreadRecords
  <2>. HIDE DEF h
  <2>7. u \in RunRecords /\ u.thread = h /\ u.complete = complete
    <3>1. <<inc>> \in Seq(Nat)
      OBVIOUS
    <3>. QED
      BY <2>1, <2>3, <3>1 DEF RunRecords
  <2>8. \A i \in DOMAIN q.runs : q.runs[i] = r \/ Known(m, q.runs[i])
    <3>. HIDE DEF q
    <3>. QED
      BY <2>5, <2>6
  <2>. HIDE DEF n, u, q
  <2>9. Kept
    BY <1>2, <1>4, <2>1, <2>6, <2>7, <2>8
  <2>. QED
    BY <2>9 DEF n
<1>. QED
  BY <1>3, <1>4

\* The list a new run is added to is a chain that ends with its predecessor.
LEMMA SavedChain ==
  ASSUME NEW m, Good(m), NEW r \in Runs, ~Known(m, r), NEW prev \in Runs \cup {None},
         prev # None => Known(m, prev) /\ m.run[prev].complete,
         NEW c \in Convs
  PROVE  LET s == SavedList(m, r, prev)
         IN  /\ s \in Seq(Runs) /\ Distinct(s) /\ Chain(m, s)
             /\ \A i \in DOMAIN s : Known(m, s[i]) /\ m.run[s[i]].conv = SavedConv(m, prev, c) /\ m.run[s[i]].complete
             /\ prev = IF s = <<>> THEN None ELSE s[Len(s)]
             /\ SavedConv(m, prev, c) \in Convs
             /\ ThreadConv(m, r, prev, c) = SavedConv(m, prev, c)
<1>. DEFINE s == SavedList(m, r, prev)
            d == SavedConv(m, prev, c)
<1>1. m \in Mems /\ Sound(m)
  BY DEF Good, Sound
<1>2. CASE prev = None
  <2>1. s = <<>> /\ d = c /\ ThreadConv(m, r, prev, c) = d
    BY <1>2 DEF SavedList, SavedConv, ThreadConv
  <2>2. <<>> \in Seq(Runs) /\ DOMAIN <<>> = {} /\ Len(<<>>) = 0
    OBVIOUS
  <2>3. Distinct(<<>>) /\ Chain(m, <<>>)
    BY <2>2 DEF Distinct, Chain
  <2>. HIDE DEF s, d
  <2>4. s \in Seq(Runs) /\ Distinct(s) /\ Chain(m, s) /\ DOMAIN s = {}
    BY <2>1, <2>2, <2>3
  <2>. QED
    BY <1>2, <2>1, <2>4 DEF s, d
<1>3. CASE prev # None
  <2>. DEFINE p == m.run[prev]
              h == p.thread
              l == m.thread[h].runs
  <2>1. p \in RunRecords /\ h \in Threads /\ m.thread[h] # NoThread /\ AtHome(m, prev) /\ Known(m, prev) /\ p.complete
    BY <1>1, <1>3, MemFields DEF Sound, RunRecords, Good
  <2>2. Chained(m, h)
    BY <2>1 DEF Good
  <2>3. l \in Seq(Runs) /\ DOMAIN l = 1..Len(l) /\ Len(l) \in Nat
    BY <1>1, <2>1, MemFields
  <2>4. /\ prev \in ToSet(l) /\ m.thread[h].conv = p.conv
        /\ l # <<>> /\ Distinct(l) /\ Chain(m, l)
        /\ \A i \in DOMAIN l : m.run[l[i]].conv = p.conv
        /\ \A i \in 1..(Len(l) - 1) : m.run[l[i]].complete
        /\ m.thread[h].last = l[Len(l)]
    BY <2>1, <2>2 DEF AtHome, Chained
  <2>5. \A i \in DOMAIN l : Known(m, l[i])
    BY <1>1, <2>1 DEF Sound
  <2>6. d = p.conv /\ d \in Convs /\ ThreadConv(m, r, prev, c) = d
    BY <1>3, <2>1, <2>4 DEF SavedConv, ThreadConv, RunRecords
  <2>7. \E n \in 1..Len(l) : l[n] = prev /\ s = SubSeq(l, 1, n)
    <3>1. CASE Branches(m, r, prev)
      <4>1. s = UpTo(l, prev)
        BY <1>3, <3>1 DEF SavedList
      <4>. HIDE DEF l, s
      <4>2. PICK n \in 0..Len(l) : UpTo(l, prev) = SubSeq(l, 1, n) /\ n > 0 /\ l[n] = prev
        BY <2>3, <2>4, UpToIsPrefix
      <4>. QED
        BY <2>3, <4>1, <4>2
    <3>2. CASE ~Branches(m, r, prev)
      <4>1. s = l /\ m.thread[h].last = prev
        BY <1>3, <3>2 DEF SavedList, Branches
      <4>. HIDE DEF l, s
      <4>2. SubSeq(l, 1, Len(l)) = l
        BY <2>3, SubSeqFull
      <4>3. Len(l) \in 1..Len(l)
        BY <2>3, <2>4
      <4>. QED
        BY <2>4, <4>1, <4>2, <4>3
    <3>. QED
      BY <3>1, <3>2
  <2>8. PICK n \in 1..Len(l) : l[n] = prev /\ s = SubSeq(l, 1, n)
    BY <2>7
  <2>. HIDE DEF l, s
  <2>9. s \in Seq(Runs) /\ Len(s) = n /\ DOMAIN s = 1..n /\ (\A i \in 1..n : s[i] = l[i]) /\ s # <<>>
    BY <2>3, <2>8
  <2>10. Distinct(s)
    BY <2>3, <2>4, <2>9 DEF Distinct
  <2>11. Chain(m, s)
    BY <2>3, <2>4, <2>9 DEF Chain
  <2>12. \A i \in DOMAIN s : Known(m, s[i]) /\ m.run[s[i]].conv = d
    BY <2>3, <2>4, <2>5, <2>6, <2>9
  <2>13. \A i \in DOMAIN s : m.run[s[i]].complete
    <3>. TAKE i \in DOMAIN s
    <3>1. CASE i = n
      BY <2>1, <2>8, <2>9, <3>1
    <3>2. CASE i # n
      <4>1. i \in 1..(Len(l) - 1)
        BY <2>3, <2>9, <3>2
      <4>. QED
        BY <2>4, <2>9, <4>1
    <3>. QED
      BY <3>1, <3>2
  <2>14. prev = s[Len(s)]
    BY <2>8, <2>9
  <2>. HIDE DEF d
  <2>. QED
    BY <2>6, <2>9, <2>10, <2>11, <2>12, <2>13, <2>14 DEF s, d
<1>. QED
  BY <1>2, <1>3

\* A save by a manager that fits: the memory stays good, and is what the
\* record of the save would make of it when replayed.
LEMMA SaveGood ==
  ASSUME NEW m, Good(m), NEW r \in Runs, NEW prev \in Runs \cup {None},
         prev = None \/ Known(m, prev), NEW t \in Threads, NEW c \in Convs, NEW inc \in Nat,
         NEW complete \in BOOLEAN, NEW fresh,
         Branches(m, r, prev) => fresh \in Threads /\ m.thread[fresh] = NoThread,
         Known(m, r) => ~m.run[r].complete,
         ~Known(m, r) /\ prev = None => m.thread[t] = NoThread,
         ~Known(m, r) /\ prev # None => m.run[prev].complete
  PROVE  LET n == SaveInMemory(m, r, prev, t, c, inc, complete, fresh)
         IN  /\ Good(n)
             /\ n = ApplyRecord(m, MessageRecord(n, r, inc))
             /\ \A x \in Runs : x # r => n.run[x] = m.run[x]
             /\ Known(m, r) => n.thread = m.thread /\ n.run[r].thread = m.run[r].thread
             /\ ~Known(m, r) => /\ n.run[r].thread = SavedThread(m, r, prev, t, fresh)
                                /\ \A x \in Threads : x # n.run[r].thread => n.thread[x] = m.thread[x]
<1>. DEFINE n == SaveInMemory(m, r, prev, t, c, inc, complete, fresh)
            rec == MessageRecord(n, r, inc)
<1>1. m \in Mems /\ Sound(m)
  BY DEF Good, Sound
<1>2. rec \in MessageRecords /\ rec.type = "message" /\ rec.run = r /\ n.run[r].complete = complete
  <2>1. n.run[r].complete = complete /\ rec \in MessageRecords
    BY <1>1, SaveSound
  <2>. HIDE DEF n
  <2>. QED
    BY <2>1 DEF MessageRecord
<1>3. CASE Known(m, r)
  <2>1. n = AppendIncrement(m, r, inc, complete)
    BY <1>3 DEF SaveInMemory
  <2>2. rec.inc = inc /\ rec.complete = complete
    <3>. HIDE DEF n
    <3>. QED
      BY <1>2 DEF MessageRecord
  <2>3. ApplyRecord(m, rec) = AppendIncrement(m, r, inc, complete)
    <3>. HIDE DEF rec
    <3>. QED
      BY <1>2, <1>3, <2>2 DEF ApplyRecord, ApplyMessage
  <2>. HIDE DEF n, rec
  <2>4. Good(n) /\ n.thread = m.thread /\ n.run[r].thread = m.run[r].thread /\ \A x \in Runs : x # r => n.run[x] = m.run[x]
    BY <1>3, <2>1, GoodIncrement
  <2>. QED
    BY <1>3, <2>1, <2>3, <2>4 DEF n, rec
<1>4. CASE ~Known(m, r)
  <2>. DEFINE h == SavedThread(m, r, prev, t, fresh)
              s == SavedList(m, r, prev)
              d == SavedConv(m, prev, c)
              u == [thread |-> h, conv |-> d, prev |-> prev, msgs |-> <<inc>>, complete |-> complete]
              q == [conv |-> d, last |-> r, runs |-> Append(s, r)]
  <2>1. /\ s \in Seq(Runs) /\ Distinct(s) /\ Chain(m, s)
        /\ \A i \in DOMAIN s : Known(m, s[i]) /\ m.run[s[i]].conv = d /\ m.run[s[i]].complete
        /\ prev = IF s = <<>> THEN None ELSE s[Len(s)]
        /\ d \in Convs
        /\ ThreadConv(m, r, prev, c) = d
    BY <1>4, SavedChain
  <2>2. h \in Threads /\ n = Change(m, r, h, u, q)
    <3>1. /\ h \in Threads
          /\ n = Change(m, r, h, u, [conv |-> ThreadConv(m, r, prev, c), last |-> r, runs |-> Append(s, r)])
      <4>1. Branches(m, r, prev) => fresh \in Threads
        OBVIOUS
      <4>. HIDE DEF n, rec, h, s, d, u, q
      <4>2. Sound(m) /\ ~Known(m, r)
        BY <1>1, <1>4
      <4>3. /\ SavedThread(m, r, prev, t, fresh) \in Threads
            /\ SaveInMemory(m, r, prev, t, c, inc, complete, fresh) =
                 Change(m, r, SavedThread(m, r, prev, t, fresh),
                   [thread |-> SavedThread(m, r, prev, t, fresh), conv |-> SavedConv(m, prev, c),
                    prev |-> prev, msgs |-> <<inc>>, complete |-> complete],
                   [conv |-> ThreadConv(m, r, prev, c), last |-> r, runs |-> Append(SavedList(m, r, prev), r)])
        BY <4>1, <4>2, SaveIsChange
      <4>. QED
        BY <4>3 DEF n, h, s, d, u
    <3>. QED
      BY <2>1, <3>1
  <2>3. m.thread[h] = NoThread \/ (m.thread[h].runs = s /\ m.thread[h].conv = d)
    <3>1. CASE prev = None \/ Branches(m, r, prev)
      BY <1>4, <3>1 DEF SavedThread
    <3>2. CASE prev # None /\ ~Branches(m, r, prev)
      <4>1. h = m.run[prev].thread /\ s = m.thread[h].runs
        BY <3>2 DEF SavedThread, SavedList
      <4>2. ThreadConv(m, r, prev, c) = m.thread[h].conv
        BY <3>2, <4>1 DEF ThreadConv
      <4>. QED
        BY <2>1, <4>1, <4>2
    <3>. QED
      BY <3>1, <3>2
  <2>. HIDE DEF h, s, d
  <2>4. Good(n)
    <3>1. Good(Change(m, r, h, u, q))
      BY <1>4, <2>1, <2>2, <2>3, GoodStore
    <3>. HIDE DEF n, u, q
    <3>. QED
      BY <2>2, <3>1
  <2>. HIDE DEF n
  <2>5. /\ n.run[r] = u /\ \A x \in Runs : x # r => n.run[x] = m.run[x]
        /\ \A x \in Threads : x # h => n.thread[x] = m.thread[x]
    <3>. HIDE DEF u, q
    <3>. QED
      BY <1>1, <2>2, ChangeFields
  <2>6. ApplyRecord(m, rec) = Change(m, r, Home(m, rec), RunAfter(m, rec), ThreadAfter(m, rec))
    BY <1>1, <1>2, ApplyIsChange
  <2>7. rec.thread = h /\ rec.conv = d /\ rec.prev = prev /\ rec.inc = inc /\ rec.complete = complete
    BY <2>5 DEF MessageRecord
  <2>. HIDE DEF rec
  <2>8. Home(m, rec) = h /\ RunAfter(m, rec) = u
    BY <1>2, <1>4, <2>7 DEF Home, RunAfter
  <2>9. (IF m.thread[h] # NoThread THEN m.thread[h].runs ELSE Prefix(m, rec)) = s
    <3>1. CASE m.thread[h] # NoThread
      BY <2>3, <3>1
    <3>2. CASE m.thread[h] = NoThread
      <4>1. CASE prev = None
        BY <2>7, <3>2, <4>1 DEF Prefix, s, SavedList
      <4>2. CASE prev # None
        <5>1. m.thread[m.run[prev].thread] # NoThread
          BY <1>1, <4>2 DEF Sound
        <5>2. Branches(m, r, prev)
          BY <3>2, <4>2, <5>1 DEF h, SavedThread
        <5>3. Prefix(m, rec) = UpTo(m.thread[m.run[prev].thread].runs, prev)
          BY <2>7, <3>2, <4>2, <5>1 DEF Prefix
        <5>. QED
          BY <3>2, <4>2, <5>2, <5>3 DEF s, SavedList
      <4>. QED
        BY <4>1, <4>2
    <3>. QED
      BY <3>1, <3>2
  <2>10. (IF m.thread[h] # NoThread THEN m.thread[h].conv ELSE rec.conv) = d
    BY <2>3, <2>7
  <2>11. ThreadAfter(m, rec) = q
    BY <1>2, <1>4, <2>8, <2>9, <2>10 DEF ThreadAfter
  <2>12. n = ApplyRecord(m, rec)
    BY <2>2, <2>6, <2>8, <2>11
  <2>13. n.run[r].thread = h
    BY <2>5
  <2>. QED
    BY <1>4, <2>4, <2>5, <2>12, <2>13 DEF n, rec, h
<1>. QED
  BY <1>3, <1>4

\* A saved summary keeps the memory good, and is what its record replays to.
LEMMA SummaryGood ==
  ASSUME NEW m, Good(m), NEW t \in Threads, m.thread[t] # NoThread, NEW r \in Runs
  PROVE  LET n == SaveSummaryInMemory(m, t, r)
         IN  /\ Good(n) /\ n.run = m.run /\ n.thread = m.thread
             /\ n = ApplyRecord(m, SummaryRecord(t, r))
<1>. DEFINE n == SaveSummaryInMemory(m, t, r)
<1>1. n = [run |-> m.run, thread |-> m.thread, summary |-> [m.summary EXCEPT ![t] = r]]
  BY DEF Good, Sound, Mems, SaveSummaryInMemory
<1>2. n = ApplyRecord(m, SummaryRecord(t, r))
  BY DEF ApplyRecord, SummaryRecord
<1>. HIDE DEF n
<1>3. n \in Mems /\ n.run = m.run /\ n.thread = m.thread /\ n.summary[t] = r
      /\ \A x \in Threads : x # t => n.summary[x] = m.summary[x]
  BY <1>1 DEF Good, Sound, Mems
<1>4. Good(n)
  BY <1>3 DEF Good, Sound, Known, AtHome, Chained, Chain
<1>. QED
  BY <1>2, <1>3, <1>4 DEF n

\* A saved summary keeps the memory sound and touches no run and no thread.
LEMMA SummarySound ==
  ASSUME NEW m, Sound(m), NEW t \in Threads, NEW r \in Runs
  PROVE  LET n == SaveSummaryInMemory(m, t, r)
         IN  /\ Sound(n) /\ n.run = m.run /\ n.thread = m.thread
<1>. DEFINE n == SaveSummaryInMemory(m, t, r)
<1>1. n = [run |-> m.run, thread |-> m.thread, summary |-> [m.summary EXCEPT ![t] = r]]
  BY DEF Sound, Mems, SaveSummaryInMemory
<1>. HIDE DEF n
<1>2. n \in Mems /\ n.run = m.run /\ n.thread = m.thread
  BY <1>1 DEF Sound, Mems
<1>3. Sound(n)
  BY <1>2 DEF Sound, Known
<1>. QED
  BY <1>2, <1>3 DEF n

-----------------------------------------------------------------------------
(* Loading.                                                                *)

\* A run is looked up within the list, or at 0.
LEMMA IndexInList ==
  ASSUME NEW s \in Seq(Runs), NEW r
  PROVE  IndexIn(s, r) \in 0..Len(s)
<1>1. DOMAIN s = 1..Len(s) /\ Len(s) \in Nat
  OBVIOUS
<1>2. CASE r \in ToSet(s)
  <2>1. \E i \in DOMAIN s : s[i] = r
    BY <1>2 DEF ToSet
  <2>2. IndexIn(s, r) = CHOOSE i \in DOMAIN s : s[i] = r
    BY <1>2 DEF IndexIn
  <2>3. IndexIn(s, r) \in DOMAIN s
    BY <2>1, <2>2
  <2>. QED
    BY <1>1, <2>3
<1>3. CASE r \notin ToSet(s)
  <2>1. IndexIn(s, r) = 0
    BY <1>3 DEF IndexIn
  <2>. QED
    BY <1>1, <2>1
<1>. QED
  BY <1>2, <1>3

\* What is loaded is a stretch of the thread's list, empty only if that is.
LEMMA LoadIsPart ==
  ASSUME NEW m, Sound(m), NEW t \in Threads, NEW r
  PROVE  LET runs == Load(m, t, r).runs
             s == m.thread[t].runs
         IN  /\ runs \in Seq(Runs)
             /\ \A i \in DOMAIN runs : \E j \in DOMAIN s : runs[i] = s[j] /\ Known(m, s[j])
             /\ runs = <<>> => s = <<>>
<1>. DEFINE s == m.thread[t].runs
            a == IndexIn(s, m.summary[t])
            b == IndexIn(s, r)
            runs == Load(m, t, r).runs
<1>1. s \in Seq(Runs) /\ DOMAIN s = 1..Len(s) /\ Len(s) \in Nat /\ \A i \in DOMAIN s : Known(m, s[i])
  BY MemFields DEF Sound
<1>2. a \in 0..Len(s) /\ b \in 0..Len(s)
  BY <1>1, IndexInList
<1>3. t # None
  BY NoneIsNoId
<1>4. /\ s = <<>> => runs = <<>>
      /\ s # <<>> => runs = IF a > 0 /\ a < b THEN SubSeq(s, a + 1, b) ELSE UpTo(s, r)
  BY <1>3 DEF Load
<1>. HIDE DEF s, a, b, runs
<1>5. CASE s = <<>>
  <2>1. runs = <<>>
    BY <1>4, <1>5
  <2>2. <<>> \in Seq(Runs) /\ DOMAIN <<>> = {}
    OBVIOUS
  <2>3. runs \in Seq(Runs) /\ DOMAIN runs = {}
    BY <2>1, <2>2
  <2>. QED
    BY <1>5, <2>3 DEF s, runs
<1>6. CASE s # <<>> /\ a > 0 /\ a < b
  <2>1. runs = SubSeq(s, a + 1, b)
    BY <1>4, <1>6
  <2>2. a + 1 \in 1..Len(s) /\ b \in 1..Len(s) /\ a + 1 <= b
    BY <1>1, <1>2, <1>6
  <2>3. runs \in Seq(Runs) /\ Len(runs) = b - a /\ DOMAIN runs = 1..(b - a) /\ \A i \in 1..(b - a) : runs[i] = s[a + i]
    BY <1>1, <1>2, <2>1, <2>2
  <2>4. \A i \in DOMAIN runs : \E j \in DOMAIN s : runs[i] = s[j] /\ Known(m, s[j])
    <3>. TAKE i \in DOMAIN runs
    <3>1. a + i \in DOMAIN s /\ runs[i] = s[a + i]
      BY <1>1, <1>2, <2>2, <2>3
    <3>. QED
      BY <1>1, <3>1
  <2>5. runs # <<>>
    BY <1>2, <2>2, <2>3
  <2>. QED
    BY <2>3, <2>4, <2>5 DEF s, runs
<1>7. CASE s # <<>> /\ ~(a > 0 /\ a < b)
  <2>1. runs = UpTo(s, r)
    BY <1>4, <1>7
  <2>2. PICK n \in 0..Len(s) : /\ UpTo(s, r) = SubSeq(s, 1, n)
                               /\ r \notin ToSet(s) => n = Len(s)
                               /\ r \in ToSet(s) => n > 0
    BY <1>1, UpToIsPrefix
  <2>3. n > 0 /\ n \in 1..Len(s)
    <3>1. Len(s) > 0
      BY <1>1, <1>7
    <3>2. n > 0
      BY <2>2, <3>1
    <3>. QED
      BY <1>1, <3>2
  <2>4. runs \in Seq(Runs) /\ Len(runs) = n /\ DOMAIN runs = 1..n /\ \A i \in 1..n : runs[i] = s[i]
    <3>1. runs = SubSeq(s, 1, n)
      BY <2>1, <2>2
    <3>2. \A i \in 1..n : s[i] \in Runs
      BY <1>1, <2>3 DEF Known
    <3>. QED
      BY <1>1, <2>3, <3>1, <3>2
  <2>5. \A i \in DOMAIN runs : \E j \in DOMAIN s : runs[i] = s[j] /\ Known(m, s[j])
    <3>. TAKE i \in DOMAIN runs
    <3>1. i \in DOMAIN s /\ runs[i] = s[i]
      BY <1>1, <2>3, <2>4
    <3>. QED
      BY <1>1, <3>1
  <2>6. runs # <<>>
    BY <2>3, <2>4
  <2>. QED
    BY <2>4, <2>5, <2>6 DEF s, runs
<1>. QED
  BY <1>5, <1>6, <1>7

-----------------------------------------------------------------------------
(* Files.                                                                  *)

Tails == {<<>>, <<Junk>>} \cup {<<rec>> : rec \in Records}
Files == [lines : Seq(Records \cup {Junk}), tail : Tails]

\* A file's whole lines, and one more when its tail is a record.
LEMMA ReadableLines ==
  ASSUME NEW f \in Files, Junk \notin ToSet(f.lines)
  PROVE  /\ f.lines \in Seq(Records) /\ Readable(f) \in Seq(Records)
         /\ f.tail \in {<<>>, <<Junk>>} => Readable(f) = f.lines
         /\ \A rec \in Records : f.tail = <<rec>> => Readable(f) = Append(f.lines, rec)
<1>. DEFINE s == f.lines
<1>1. s \in Seq(Records \cup {Junk}) /\ f.tail \in Tails
  BY DEF Files
<1>. HIDE DEF s
<1>2. DOMAIN s = 1..Len(s) /\ Len(s) \in Nat /\ \A i \in 1..Len(s) : s[i] \in Records \cup {Junk}
  BY <1>1
<1>3. \A i \in 1..Len(s) : s[i] \in Records
  BY <1>2 DEF s, ToSet
<1>4. s \in Seq(Records)
  <2>1. s \in [1..Len(s) -> Records]
    BY <1>1, <1>2, <1>3
  <2>. QED
    BY <1>2, <2>1
<1>5. f.tail \in {<<>>, <<Junk>>} => Readable(f) = s
  <2>. SUFFICES ASSUME f.tail \in {<<>>, <<Junk>>} PROVE Readable(f) = s
    OBVIOUS
  <2>1. Readable(f) = s \o <<>>
    BY DEF Readable, s
  <2>. QED
    BY <1>4, <2>1, ConcatEmptySeq
<1>6. \A rec \in Records : f.tail = <<rec>> => Readable(f) = Append(s, rec)
  <2>. SUFFICES ASSUME NEW rec \in Records, f.tail = <<rec>> PROVE Readable(f) = Append(s, rec)
    OBVIOUS
  <2>1. rec # Junk
    BY NotJunk DEF Records
  <2>2. <<rec>> # <<Junk>>
    BY <2>1
  <2>3. Readable(f) = s \o <<rec>>
    BY <2>2 DEF Readable, s
  <2>. QED
    BY <1>4, <2>3, AppendIsConcat
<1>7. Readable(f) \in Seq(Records)
  <2>1. CASE f.tail \in {<<>>, <<Junk>>}
    BY <1>4, <1>5, <2>1
  <2>2. CASE \E rec \in Records : f.tail = <<rec>>
    <3>1. PICK rec \in Records : f.tail = <<rec>>
      BY <2>2
    <3>2. Readable(f) = Append(s, rec)
      BY <1>6, <3>1
    <3>. QED
      BY <1>4, <3>2
  <2>. QED
    BY <1>1, <2>1, <2>2 DEF Tails
<1>. QED
  BY <1>4, <1>5, <1>6, <1>7 DEF s

\* Replaying typed records gives a sound memory.
LEMMA ReplayLinesSound ==
  ASSUME NEW m, Sound(m), NEW s \in Seq(Records)
  PROVE  Sound(ReplayLines(m, s))
<1>. DEFINE F == [n \in 0..Len(s) |-> {x \in Mems : Sound(x)}]
<1>1. Len(s) \in Nat /\ \A n \in 1..Len(s) : s[n] \in Records
  OBVIOUS
<1>2. m \in F[0]
  BY <1>1 DEF Sound
<1>3. ASSUME NEW n \in 1..Len(s), NEW x \in F[n - 1] PROVE ApplyRecord(x, s[n]) \in F[n]
  <2>1. n - 1 \in 0..Len(s) /\ n \in 0..Len(s) /\ s[n] \in Records
    BY <1>1
  <2>2. Sound(x)
    BY <2>1
  <2>3. Sound(ApplyRecord(x, s[n]))
    BY <2>1, <2>2, ApplySound
  <2>. QED
    BY <2>1, <2>3 DEF Sound
<1>4. ReplayLines(m, s) \in F[Len(s)]
  <2>. HIDE DEF F
  <2>. QED
    BY <1>2, <1>3, ReplayInduction
<1>. QED
  BY <1>1, <1>4

\* The empty memory is sound.
LEMMA EmptySound == Sound(EmptyMem)
BY EmptyFits DEF Fits

\* Replay of any readable files gives a sound memory.
LEMMA ReplaySound ==
  ASSUME NEW fs, \A c \in Convs : Readable(fs[c]) \in Seq(Records)
  PROVE  Sound(Replay(fs))
<1>. DEFINE N == Cardinality(Convs)
            F == [n \in 0..N |-> {x \in Mems : Sound(x)}]
<1>1. N \in Nat /\ SetToSeq(Convs) \in [1..N -> Convs]
  BY OrderOfFiles
<1>2. EmptyMem \in F[0]
  BY <1>1, EmptySound DEF Sound
<1>3. ASSUME NEW n \in 1..N, NEW x \in F[n - 1] PROVE ReplayFile(x, fs[SetToSeq(Convs)[n]]) \in F[n]
  <2>. DEFINE c == SetToSeq(Convs)[n]
  <2>1. n - 1 \in 0..N /\ n \in 0..N /\ c \in Convs
    BY <1>1
  <2>2. Sound(x)
    BY <2>1
  <2>3. Sound(ReplayLines(x, Readable(fs[c])))
    BY <2>1, <2>2, ReplayLinesSound
  <2>. QED
    BY <2>1, <2>3 DEF Sound, ReplayFile
<1>4. Replay(fs) \in F[N]
  <2>. HIDE DEF F
  <2>. QED
    BY <1>2, <1>3, FilesInduction
<1>. QED
  BY <1>1, <1>4

=============================================================================
