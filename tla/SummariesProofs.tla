-------------------------- MODULE SummariesProofs --------------------------
(***************************************************************************)
(* Proofs about Summaries, for any windows, threshold, agents and bounds:  *)
(* the token count leaves out no bundle of the prompt, whatever a provider *)
(* weighs them at, a stored summary stands for the thread up to its        *)
(* boundary, and the prompt stands for the whole thread.                   *)
(*                                                                         *)
(* The invariant they share says what the manager's loaded half is: the    *)
(* rest of the thread after the first k runs, with, in front of it, at     *)
(* most one bundle that stands for those k.  A cut where a run begins      *)
(* leaves it in that shape.  A bundle in flight that the manager cannot    *)
(* place (one that was queued when the run paused) breaks that, and the    *)
(* manager then names no boundary that a load would use.                   *)
(***************************************************************************)
EXTENDS Summaries, DataLemmas

PlainKinds == {"user", "image", "reply", "tool", "notice"}
Senders == Agents \cup {Human, ""}

\* The bundles of runs; those that the summarisers put in the place of some.
Plain == {b \in [id : Nat \ {0}, kind : PlainKinds, sender : Senders, of : Seq(Int)] : b.of = <<>>}
Heads == {b \in [id : Int, kind : {"summary", "empty"}, sender : Senders, of : Seq(Int)] : b.id <= 0}
Bundles == Plain \cup Heads

\* What a usage report made of the bundles of its prompt.
Measures == UNION {[D -> Nat \ {0}] : D \in SUBSET Int}

Rows == [run : Nat \ {0}, msgs : Seq(Plain) \ {<<>>}, complete : BOOLEAN, context : Nat, pending : Nat,
         usage : Nat, queue : Seq(Plain), measured : Measures, known : BOOLEAN, due : Nat]

\* What a summariser decided.  The last bundles it keeps are not looked at again.
Results == [id : {i \in Int : i < 0}, upTo : Int, message : Heads, keep : Seq(Bundles), cost : Nat]

Maps == UNION {[D -> Int] : D \in SUBSET Int}
Managers == [pc : {"call", "tools", "pause", "asked", "save"}, run : Nat \ {0}, old : Seq(Bundles),
             new : Seq(Plain), queue : Seq(Plain), runOf : Maps, steered : SUBSET Int,
             summaries : Results \cup {NoResult}, context : Nat, pending : Nat, usage : Nat, known : BOOLEAN,
             measured : Measures]

IdSet(list) == {list[i].id : i \in DOMAIN list}

\* The thread up to and including its k-th run, as a summary stands for it; the
\* bundles of the runs after that.
Upto(k) == FlattenSeq([i \in 1..k |-> Ids(rows[i].msgs)])
Rest(k) == FlattenSeq([i \in 1..(Len(rows) - k) |-> rows[k + i].msgs])

-----------------------------------------------------------------------------
(* The invariant.                                                          *)

TypeOK ==
  /\ settings \in [kind : {"llm", "window"}, keep : Nat \ {0}]
  /\ rows \in Seq(Rows)
  /\ summary \in Results \cup {NoResult}
  /\ mgr = Idle \/ mgr \in Managers
  /\ bundles \in Nat /\ runs \in Nat /\ summaries \in Nat /\ failures \in Nat

\* The runs of the thread are in the order of their ids, all complete but the
\* last, and share no bundle,
\* and what a paused run left queued is no part of it.
RowsInv ==
  /\ \A i \in DOMAIN rows : /\ \A j \in DOMAIN rows : i < j => rows[i].complete /\ rows[i].run < rows[j].run
                            /\ \A j \in DOMAIN rows : i # j => IdSet(rows[i].msgs) \cap IdSet(rows[j].msgs) = {}
                            /\ IdSet(rows[i].msgs) \cap IdSet(rows[Len(rows)].queue) = {}

RowsCount ==
  \A i \in DOMAIN rows : /\ rows[i].run <= runs
                         /\ \A x \in IdSet(rows[i].msgs) \cup IdSet(rows[i].queue) : x <= bundles

\* A boundary is no run, or a run of the thread that is complete, and then the
\* message of the LLM summariser stands for the thread up to there.
ResultInv(r) ==
  r # NoResult =>
    /\ r.message.kind = IF settings.kind = "llm" THEN "summary" ELSE "empty"
    /\ settings.kind = "llm" =>
         /\ r.upTo > 0 => Position(r.upTo) > 0
         /\ Position(r.upTo) > 0 => /\ r.message.of = Upto(Position(r.upTo))
                                    /\ rows[Position(r.upTo)].complete

\* The run goes on where the thread ends.
Resumes(m) == rows # <<>> /\ ~rows[Len(rows)].complete

\* Every bundle in flight is known by its run.
Placed(m) == IdSet(m.new) \cup IdSet(m.queue) \subseteq DOMAIN m.runOf

\* The run of the manager is the last of the thread, if that is not complete, or
\* comes after it.
RunInv(m) ==
  /\ Resumes(m) => m.run = rows[Len(rows)].run
  /\ ~Resumes(m) => /\ Placed(m)
                    /\ \A i \in DOMAIN rows : rows[i].run < m.run

\* What is in flight is new to the thread.
FlightInv(m) ==
  /\ IdSet(m.new) \cap IdSet(m.queue) = {}
  /\ \A i \in DOMAIN rows : IdSet(rows[i].msgs) \cap (IdSet(m.new) \cup IdSet(m.queue)) = {}

\* What the map says of the bundles in flight, and of the rest.
MapInv(m) ==
  /\ \A x \in IdSet(m.new) \cup IdSet(m.queue) : x \in DOMAIN m.runOf => m.runOf[x] = m.run
  /\ \A x \in DOMAIN m.runOf :
       m.runOf[x] = m.run => x \in IdSet(m.new) \cup IdSet(m.queue)
                                   \cup IF Resumes(m) THEN IdSet(rows[Len(rows)].msgs) ELSE {}

\* A bundle in front that stands for the first k runs.
HeadInv(m, b, k) ==
  /\ b \in Heads /\ RunAt(m.runOf, b) <= 0
  /\ b.kind = IF settings.kind = "llm" THEN "summary" ELSE "empty"
  /\ settings.kind = "llm" /\ (Placed(m) \/ k < Len(rows)) => b.of = Upto(k)

\* The loaded half stands for the thread from the first run, or is its rest.
Holds(m, k) ==
  /\ \/ m.old = Rest(k) /\ (settings.kind = "llm" => k = 0)
     \/ m.old # <<>> /\ m.old = <<m.old[1]>> \o Rest(k) /\ HeadInv(m, m.old[1], k)
  /\ \A i \in (k + 1)..Len(rows) : \A x \in IdSet(rows[i].msgs) : x \in DOMAIN m.runOf /\ m.runOf[x] = rows[i].run
  /\ Placed(m) /\ Resumes(m) => k < Len(rows)

\* A run that does not go on with another begins with a message.
Begun(m) == ~Resumes(m) => m.new # <<>>

ManagerCount(m) ==
  m.run <= runs /\ \A x \in IdSet(m.new) \cup IdSet(m.queue) \cup DOMAIN m.runOf : x <= bundles

\* The count that decides about summaries.
Counts(m) == m.known => m.context + m.pending >= Total(m.measured, m.old \o m.new \o m.queue)
CountInv(m) ==
  /\ m.pc = "asked" => m.queue = <<>>
  /\ Counts(m)

\* What was measured, and what stands in front, is numbered between the last summary
\* and the last bundle: lo summaries were made, and hi bundles.
Weighed(w, lo, hi) == \A x \in DOMAIN w : 0 <= x + lo /\ x <= hi
Headed(r, lo) == r # NoResult => 0 <= r.message.id + lo
NumberInv(m, lo, hi) ==
  /\ Weighed(m.measured, lo, hi)
  /\ Headed(m.summaries, lo)
  /\ \A x \in IdSet(m.old) : 0 <= x + lo

\* What a run was saved with accounts for what it was saved for.
RowsDue(lo, hi) ==
  \A i \in DOMAIN rows : /\ Weighed(rows[i].measured, lo, hi)
                         /\ rows[i].known => rows[i].context + rows[i].pending >= rows[i].due

ManagerInv(m) ==
  /\ RunInv(m)
  /\ FlightInv(m)
  /\ MapInv(m)
  /\ \E k \in 0..Len(rows) : Holds(m, k)
  /\ ResultInv(m.summaries)

Inv ==
  /\ TypeOK
  /\ RowsInv /\ RowsCount /\ RowsDue(summaries, bundles)
  /\ ResultInv(summary) /\ Headed(summary, summaries)
  /\ mgr # Idle => /\ ManagerInv(mgr) /\ Begun(mgr) /\ ManagerCount(mgr) /\ CountInv(mgr)
                   /\ NumberInv(mgr, summaries, bundles)

-----------------------------------------------------------------------------
(* Weighing lists.                                                         *)

\* A bundle weighs something, or nothing when it is empty.
LEMMA WeightType ==
  ASSUME NEW b
  PROVE  /\ estimateBundleTokens(b) \in Nat
         /\ b.kind # "empty" => estimateBundleTokens(b) >= 1
         /\ b.kind \in {"reply", "summary"} => estimateBundleTokens(b) = 1
BY DEF estimateBundleTokens

\* What a usage report made of a bundle, or an estimate.
LEMMA WeighsType ==
  ASSUME NEW w \in Measures, NEW b
  PROVE  /\ Weight(w, b) \in Nat
         /\ b.kind # "empty" => Weight(w, b) >= 1
         /\ b.id \notin DOMAIN w => Weight(w, b) = estimateBundleTokens(b)
<1>1. PICK D \in SUBSET Int : w \in [D -> Nat \ {0}]
  BY DEF Measures
<1>2. CASE b.id \in DOMAIN w
  <2>1. w[b.id] \in Nat \ {0}
    BY <1>1, <1>2
  <2> QED
    BY <1>2, <2>1 DEF Weight
<1>3. CASE b.id \notin DOMAIN w
  BY <1>3, WeightType DEF Weight
<1> QED
  BY <1>2, <1>3

\* The sums that weighing goes through.
LEMMA TotalSteps ==
  ASSUME NEW w, NEW S, NEW s \in Seq(S)
  PROVE  \E g : /\ g = [n \in 0..Len(s) |-> IF n = 0 THEN 0 ELSE g[n - 1] + Weight(w, s[n])]
                /\ Total(w, s) = g[Len(s)]
<1> DEFINE Is(g, k) == g = [n \in 0..k |-> IF n = 0 THEN 0 ELSE g[n - 1] + Weight(w, s[n])]
           T == {k \in Nat : \E g : Is(g, k)}
<1>1. 0 \in T
  <2>1. Is([n \in 0..0 |-> 0], 0)
    OBVIOUS
  <2> QED
    BY <2>1
<1>2. ASSUME NEW k \in T PROVE k + 1 \in T
  <2>1. PICK g : Is(g, k)
    OBVIOUS
  <2> DEFINE e == g[k] + Weight(w, s[k + 1])
  <2> DEFINE h == [n \in 0..(k + 1) |-> IF n = k + 1 THEN e ELSE g[n]]
  <2>2. \A n \in 0..k : g[n] = IF n = 0 THEN 0 ELSE g[n - 1] + Weight(w, s[n])
    BY <2>1
  <2>3. \A n \in 0..(k + 1) : n # 0 => h[n - 1] = g[n - 1]
    OBVIOUS
  <2>4. ASSUME NEW n \in 0..(k + 1)
        PROVE  h[n] = IF n = 0 THEN 0 ELSE h[n - 1] + Weight(w, s[n])
    <3>1. CASE n = k + 1
      <4>1. h[n] = e /\ n - 1 = k /\ n # 0 /\ h[n - 1] = g[k]
        BY <3>1, <2>3
      <4> QED
        BY <3>1, <4>1
    <3>2. CASE n # k + 1
      <4>1. n \in 0..k /\ h[n] = g[n]
        BY <3>2
      <4> QED
        BY <2>2, <2>3, <4>1
    <3> QED
      BY <3>1, <3>2
  <2>5. h = [n \in 0..(k + 1) |-> h[n]]
    OBVIOUS
  <2> HIDE DEF h
  <2>6. Is(h, k + 1)
    BY <2>4, <2>5
  <2> QED
    BY <2>6
<1> HIDE DEF T
<1>3. T = Nat
  <2>1. T \in SUBSET Nat
    BY DEF T
  <2> QED
    BY <1>1, <1>2, <2>1, InductionOnSets
<1>4. Len(s) \in T
  BY <1>3, LenProperties
<1>5. PICK g0 : Is(g0, Len(s))
  BY <1>4 DEF T
<1> DEFINE g == CHOOSE h : Is(h, Len(s))
<1>6. Is(g, Len(s))
  BY <1>5
<1>7. Total(w, s) = g[Len(s)]
  BY DEF Total
<1> HIDE DEF g
<1> QED
  BY <1>6, <1>7

\* The empty list weighs nothing.
LEMMA TotalNothing ==
  ASSUME NEW w
  PROVE  Total(w, <<>>) = 0
<1>1. <<>> \in Seq({}) /\ Len(<<>>) = 0
  OBVIOUS
<1>2. PICK g : /\ g = [n \in 0..Len(<<>>) |-> IF n = 0 THEN 0 ELSE g[n - 1] + Weight(w, <<>>[n])]
               /\ Total(w, <<>>) = g[Len(<<>>)]
  BY <1>1, TotalSteps
<1>3. g[0] = 0
  BY <1>1, <1>2
<1> QED
  BY <1>1, <1>2, <1>3

\* One more bundle adds its weight.
LEMMA TotalAppend ==
  ASSUME NEW w, NEW S, NEW s \in Seq(S), NEW x \in S
  PROVE  Total(w, Append(s, x)) = Total(w, s) + Weight(w, x)
<1> DEFINE t == Append(s, x)
<1>1. /\ t \in Seq(S) /\ Len(t) = Len(s) + 1 /\ Len(s) \in Nat
      /\ \A i \in 1..Len(s) : t[i] = s[i]
      /\ t[Len(s) + 1] = x
  BY AppendProperties, LenProperties
<1> HIDE DEF t
<1>2. PICK g : /\ g = [n \in 0..Len(s) |-> IF n = 0 THEN 0 ELSE g[n - 1] + Weight(w, s[n])]
               /\ Total(w, s) = g[Len(s)]
  BY TotalSteps
<1>3. PICK h : /\ h = [n \in 0..Len(t) |-> IF n = 0 THEN 0 ELSE h[n - 1] + Weight(w, t[n])]
               /\ Total(w, t) = h[Len(t)]
  BY <1>1, TotalSteps
<1> DEFINE T == {k \in Nat : k <= Len(s) => g[k] = h[k]}
<1>4. g[0] = 0 /\ h[0] = 0
  BY <1>1, <1>2, <1>3
<1>5. ASSUME NEW k \in Nat, k < Len(s)
      PROVE  g[k + 1] = g[k] + Weight(w, s[k + 1]) /\ h[k + 1] = h[k] + Weight(w, s[k + 1])
  <2>1. k + 1 \in 0..Len(s) /\ k + 1 \in 0..Len(t) /\ k + 1 # 0 /\ (k + 1) - 1 = k /\ t[k + 1] = s[k + 1]
    BY <1>1, <1>5
  <2>2. g[k + 1] = g[(k + 1) - 1] + Weight(w, s[k + 1])
    BY <1>2, <2>1
  <2>3. h[k + 1] = h[(k + 1) - 1] + Weight(w, t[k + 1])
    BY <1>3, <2>1
  <2> QED
    BY <2>1, <2>2, <2>3
<1>6. 0 \in T
  BY <1>4
<1>7. \A k \in T : k + 1 \in T
  <2> SUFFICES ASSUME NEW k \in Nat, k + 1 <= Len(s), k <= Len(s) => g[k] = h[k]
               PROVE  g[k + 1] = h[k + 1]
    OBVIOUS
  <2>1. k < Len(s) /\ g[k] = h[k]
    BY <1>1
  <2> QED
    BY <1>5, <2>1
<1>8. Len(s) \in T
  <2>1. T \in SUBSET Nat
    OBVIOUS
  <2> HIDE DEF T
  <2>2. T = Nat
    BY <1>6, <1>7, <2>1, InductionOnSets
  <2> QED
    BY <1>1, <2>2
<1>9. g[Len(s)] = h[Len(s)]
  BY <1>8
<1>10. Len(t) \in 0..Len(t) /\ Len(t) # 0 /\ Len(t) - 1 = Len(s) /\ t[Len(t)] = x
  BY <1>1
<1>11. h[Len(t)] = h[Len(t) - 1] + Weight(w, t[Len(t)])
  BY <1>3, <1>10
<1> QED
  BY <1>2, <1>3, <1>9, <1>10, <1>11 DEF t

\* A list weighs a number of tokens.
LEMMA TotalType ==
  ASSUME NEW w \in Measures, NEW S, NEW s \in Seq(S)
  PROVE  Total(w, s) \in Nat
<1> DEFINE T == {t \in Seq(S) : Total(w, t) \in Nat}
<1>1. <<>> \in T
  BY TotalNothing, EmptySeq
<1>2. ASSUME NEW t \in T, NEW x \in S PROVE Append(t, x) \in T
  <2>1. Total(w, Append(t, x)) = Total(w, t) + Weight(w, x)
    BY TotalAppend
  <2>2. Append(t, x) \in Seq(S)
    BY AppendProperties
  <2> QED
    BY <2>1, <2>2, WeighsType
<1>3. T = Seq(S)
  <2>1. T \in SUBSET Seq(S)
    OBVIOUS
  <2> HIDE DEF T
  <2> QED
    BY <1>1, <1>2, <2>1, InductionOnSequences
<1> QED
  BY <1>3

\* Lists weigh together what they weigh apart.
LEMMA TotalConcat ==
  ASSUME NEW w \in Measures, NEW S, NEW s \in Seq(S), NEW t \in Seq(S)
  PROVE  Total(w, s \o t) = Total(w, s) + Total(w, t)
<1> DEFINE T == {u \in Seq(S) : Total(w, s \o u) = Total(w, s) + Total(w, u)}
<1>1. <<>> \in T
  BY TotalNothing, TotalType, EmptySeq, ConcatEmptySeq
<1>2. ASSUME NEW u \in T, NEW x \in S PROVE Append(u, x) \in T
  <2>1. s \o Append(u, x) = Append(s \o u, x) /\ s \o u \in Seq(S) /\ Append(u, x) \in Seq(S)
    BY AppendToBoth, ConcatProperties, AppendProperties
  <2>2. Total(w, Append(s \o u, x)) = Total(w, s \o u) + Weight(w, x)
    BY <2>1, TotalAppend
  <2>3. Total(w, Append(u, x)) = Total(w, u) + Weight(w, x)
    BY TotalAppend
  <2>4. Total(w, s) \in Nat /\ Total(w, u) \in Nat /\ Weight(w, x) \in Nat
    BY TotalType, WeighsType
  <2>5. Total(w, s \o u) = Total(w, s) + Total(w, u)
    OBVIOUS
  <2>6. Total(w, s \o Append(u, x)) = Total(w, s) + Total(w, Append(u, x))
    <3> HIDE DEF T
    <3> QED
      BY <2>1, <2>2, <2>3, <2>4, <2>5
  <2> QED
    BY <2>1, <2>6
<1>3. T = Seq(S)
  <2>1. T \in SUBSET Seq(S)
    OBVIOUS
  <2> HIDE DEF T
  <2> QED
    BY <1>1, <1>2, <2>1, InductionOnSequences
<1> QED
  BY <1>3

\* A list of one bundle weighs what the bundle weighs.
LEMMA TotalOne ==
  ASSUME NEW w \in Measures, NEW x
  PROVE  Total(w, <<x>>) = Weight(w, x)
<1>1. <<>> \in Seq({x}) /\ Append(<<>>, x) = <<x>>
  OBVIOUS
<1>2. Total(w, Append(<<>>, x)) = Total(w, <<>>) + Weight(w, x)
  BY <1>1, TotalAppend
<1> QED
  BY <1>1, <1>2, TotalNothing, WeighsType

-----------------------------------------------------------------------------
(* What lists stand for.                                                   *)

\* A plain bundle stands for itself, the head for what it is of.
LEMMA StandsType ==
  /\ \A b \in Plain : Stands(b) = <<b.id>> /\ b.id \in Nat \ {0} /\ b.kind # "empty"
  /\ \A b \in Heads : /\ b.kind = "summary" => Stands(b) = b.of
                      /\ b.kind = "empty" => Stands(b) = <<>>
                      /\ b.kind \in {"summary", "empty"} /\ b.of \in Seq(Int)
  /\ \A b \in Bundles : Stands(b) \in Seq(Int) /\ b.id \in Int
<1>1. \A b \in Plain : Stands(b) = <<b.id>> /\ b.id \in Nat \ {0} /\ b.kind # "empty"
  BY DEF Plain, PlainKinds, Stands
<1>2. \A b \in Heads : /\ b.kind = "summary" => Stands(b) = b.of
                       /\ b.kind = "empty" => Stands(b) = <<>>
                       /\ b.kind \in {"summary", "empty"} /\ b.of \in Seq(Int)
                       /\ b.id \in Int
  BY DEF Heads, Stands
<1>3. \A b \in Bundles : Stands(b) \in Seq(Int) /\ b.id \in Int
  <2>1. \A x \in Int : <<x>> \in Seq(Int)
    OBVIOUS
  <2>2. <<>> \in Seq(Int)
    OBVIOUS
  <2>3. \A b \in Plain : Stands(b) \in Seq(Int) /\ b.id \in Int
    <3> TAKE b \in Plain
    <3>1. b.id \in Int /\ Stands(b) = <<b.id>>
      BY <1>1
    <3> QED
      BY <2>1, <3>1
  <2>4. \A b \in Heads : Stands(b) \in Seq(Int) /\ b.id \in Int
    <3> TAKE b \in Heads
    <3>1. b.kind = "summary" \/ b.kind = "empty"
      BY <1>2
    <3> QED
      BY <1>2, <2>2, <3>1
  <2> QED
    BY <2>3, <2>4 DEF Bundles
<1> QED
  BY <1>1, <1>2, <1>3

\* A bundle that stands for nothing, or for some others.
LEMMA HeadType ==
  /\ Bundle(0, "empty", "") \in Heads /\ Bundle(0, "empty", "").kind = "empty" /\ Bundle(0, "empty", "").id = 0
  /\ \A i \in {x \in Int : x < 0}, s \in Seq(Int) :
       LET b == [Bundle(i, "summary", "") EXCEPT !.of = s]
       IN  b \in Heads /\ b.kind = "summary" /\ b.of = s /\ b.id = i
<1>1. ASSUME NEW i \in Int, i <= 0, NEW kind \in {"summary", "empty"}, NEW s \in Seq(Int), NEW sender \in Senders
      PROVE  [id |-> i, kind |-> kind, sender |-> sender, of |-> s] \in Heads
  <2> DEFINE b == [id |-> i, kind |-> kind, sender |-> sender, of |-> s]
  <2>1. b.id = i /\ b \in [id : Int, kind : {"summary", "empty"}, sender : Senders, of : Seq(Int)]
    OBVIOUS
  <2> HIDE DEF b
  <2>2. b \in Heads
    BY <1>1, <2>1 DEF Heads
  <2> QED
    BY <2>2 DEF b
<1> DEFINE e == ""
<1>2. e \in Senders /\ <<>> \in Seq(Int)
  <2>1. <<>> \in Seq(Int)
    OBVIOUS
  <2>2. e \in Senders
    BY DEF Senders
  <2> QED
    BY <2>1, <2>2
<1> HIDE DEF e
<1>3. ASSUME NEW i \in Int, i <= 0, NEW kind \in {"summary", "empty"}, NEW s \in Seq(Int)
      PROVE  /\ Bundle(i, kind, e) \in Heads /\ Bundle(i, kind, e).kind = kind /\ Bundle(i, kind, e).id = i
             /\ LET b == [Bundle(i, kind, e) EXCEPT !.of = s]
                IN  b \in Heads /\ b.kind = kind /\ b.of = s /\ b.id = i
  <2>1. /\ Bundle(i, kind, e) = [id |-> i, kind |-> kind, sender |-> e, of |-> <<>>]
        /\ [Bundle(i, kind, e) EXCEPT !.of = s] = [id |-> i, kind |-> kind, sender |-> e, of |-> s]
    BY DEF Bundle
  <2>2. /\ [id |-> i, kind |-> kind, sender |-> e, of |-> <<>>] \in Heads
        /\ [id |-> i, kind |-> kind, sender |-> e, of |-> s] \in Heads
    BY <1>1, <1>2, <1>3
  <2> QED
    BY <2>1, <2>2
<1>4. Bundle(0, "empty", e) \in Heads /\ Bundle(0, "empty", e).kind = "empty" /\ Bundle(0, "empty", e).id = 0
  <2>1. 0 \in Int /\ 0 <= 0 /\ "empty" \in {"summary", "empty"}
    OBVIOUS
  <2> QED
    BY <1>2, <1>3, <2>1
<1>5. ASSUME NEW i \in {x \in Int : x < 0}, NEW s \in Seq(Int)
      PROVE  LET b == [Bundle(i, "summary", e) EXCEPT !.of = s]
             IN  b \in Heads /\ b.kind = "summary" /\ b.of = s /\ b.id = i
  <2>1. i \in Int /\ i <= 0
    OBVIOUS
  <2> QED
    BY <1>3, <2>1
<1>6. /\ Bundle(0, "empty", e) \in Heads /\ Bundle(0, "empty", e).kind = "empty" /\ Bundle(0, "empty", e).id = 0
      /\ \A i \in {x \in Int : x < 0}, s \in Seq(Int) :
           LET b == [Bundle(i, "summary", e) EXCEPT !.of = s]
           IN  b \in Heads /\ b.kind = "summary" /\ b.of = s /\ b.id = i
  BY <1>4, <1>5
<1> QED
  BY <1>6, Zenon DEF e

\* A list of plain bundles is a list of bundles.
LEMMA PlainLists == Seq(Plain) \subseteq Seq(Bundles) /\ Plain \subseteq Bundles /\ Heads \subseteq Bundles
<1>1. Plain \subseteq Bundles /\ Heads \subseteq Bundles
  BY DEF Bundles
<1> QED
  BY <1>1, SeqMonotonic

\* What two lists stand for, joined; what one bundle stands for.
LEMMA CoversConcat ==
  ASSUME NEW s \in Seq(Bundles), NEW t \in Seq(Bundles)
  PROVE  Covers(s \o t) = Covers(s) \o Covers(t) /\ Covers(s) \in Seq(Int)
<1>1. PICK F \in FunctionsTo(Bundles, Seq(Int)) : \A b \in Bundles : F[b] = Stands(b)
  <2>1. [b \in Bundles |-> Stands(b)] \in [Bundles -> Seq(Int)]
    BY StandsType
  <2> QED
    BY <2>1 DEF FunctionsTo
<1>2. ASSUME NEW u \in Seq(Bundles) PROVE Covers(u) = FlattenSeq(Mapped(F, u)) /\ Mapped(F, u) \in Seq(Seq(Int))
  <2>1. \A i \in DOMAIN u : u[i] \in Bundles
    BY ElementOfSeq, LenProperties
  <2>2. [i \in DOMAIN u |-> Stands(u[i])] = Mapped(F, u)
    BY <1>1, <2>1 DEF Mapped
  <2> QED
    BY <2>2, MappedType DEF Covers
<1>3. Mapped(F, s \o t) = Mapped(F, s) \o Mapped(F, t) /\ s \o t \in Seq(Bundles)
  BY MappedConcat, ConcatProperties
<1>4. Covers(s \o t) = FlattenSeq(Mapped(F, s) \o Mapped(F, t))
  BY <1>2, <1>3
<1>5. FlattenSeq(Mapped(F, s) \o Mapped(F, t)) = FlattenSeq(Mapped(F, s)) \o FlattenSeq(Mapped(F, t))
  BY <1>2, FlattenConcat
<1>6. FlattenSeq(Mapped(F, s)) \in Seq(Int)
  BY <1>2, FlattenType
<1> QED
  BY <1>2, <1>4, <1>5, <1>6

\* A list of one bundle, or of none.
LEMMA CoversOne ==
  ASSUME NEW b \in Bundles
  PROVE  Covers(<<b>>) = Stands(b)
<1>1. DOMAIN <<b>> = {1} /\ <<b>>[1] = b
  OBVIOUS
<1>2. [i \in DOMAIN <<b>> |-> Stands(<<b>>[i])] = <<Stands(b)>>
  BY <1>1
<1>3. Stands(b) \in Seq(Int)
  BY StandsType
<1> QED
  BY <1>2, <1>3, FlattenOne DEF Covers

\* Nothing stands for nothing.
LEMMA CoversNothing == Covers(<<>>) = <<>>
<1>1. [i \in DOMAIN <<>> |-> Stands(<<>>[i])] = <<>>
  OBVIOUS
<1> QED
  BY <1>1, FlattenNothing DEF Covers

\* The ids of a list.
LEMMA IdsType ==
  ASSUME NEW s \in Seq(Bundles)
  PROVE  /\ Ids(s) \in Seq(Int) /\ Len(Ids(s)) = Len(s)
         /\ \A i \in 1..Len(s) : Ids(s)[i] = s[i].id
<1>1. Len(s) \in Nat /\ DOMAIN s = 1..Len(s) /\ \A i \in 1..Len(s) : s[i] \in Bundles
  BY LenProperties, ElementOfSeq
<1>2. \A i \in 1..Len(s) : s[i].id \in Int
  BY <1>1, StandsType
<1> QED
  BY <1>1, <1>2 DEF Ids

\* The ids of two lists joined.
LEMMA IdsConcat ==
  ASSUME NEW s \in Seq(Bundles), NEW t \in Seq(Bundles)
  PROVE  Ids(s \o t) = Ids(s) \o Ids(t)
<1>1. PICK F \in FunctionsTo(Bundles, Int) : \A b \in Bundles : F[b] = b.id
  <2>1. [b \in Bundles |-> b.id] \in [Bundles -> Int]
    BY StandsType
  <2> QED
    BY <2>1 DEF FunctionsTo
<1>2. ASSUME NEW u \in Seq(Bundles) PROVE Ids(u) = Mapped(F, u)
  <2>1. \A i \in DOMAIN u : u[i] \in Bundles
    BY ElementOfSeq, LenProperties
  <2> QED
    BY <1>1, <2>1 DEF Mapped, Ids
<1>3. Mapped(F, s \o t) = Mapped(F, s) \o Mapped(F, t)
  BY MappedConcat
<1>4. s \o t \in Seq(Bundles)
  BY ConcatProperties
<1> QED
  BY <1>2, <1>3, <1>4

\* Plain bundles stand for themselves.
LEMMA CoversPlain ==
  ASSUME NEW s \in Seq(Plain)
  PROVE  Covers(s) = Ids(s)
<1>1. s \in Seq(Bundles)
  BY PlainLists
<1>2. Ids(s) \in Seq(Int) /\ DOMAIN Ids(s) = DOMAIN s /\ \A i \in DOMAIN s : Ids(s)[i] = s[i].id
  BY <1>1, IdsType DEF Ids
<1>3. \A i \in DOMAIN s : s[i] \in Plain
  BY ElementOfSeq, LenProperties
<1>4. [i \in DOMAIN s |-> Stands(s[i])] = [i \in DOMAIN Ids(s) |-> <<Ids(s)[i]>>]
  BY <1>2, <1>3, StandsType
<1> QED
  BY <1>2, <1>4, FlattenSingletons DEF Covers

\* The ids of a list, as a set.
LEMMA IdSetOfIds == \A s : ToSet(Ids(s)) = IdSet(s)
BY DEF ToSet, Ids, IdSet

\* No bundle, no id.
LEMMA IdSetNothing == IdSet(<<>>) = {}
BY DEF IdSet

\* The ids of one bundle.
LEMMA IdSetOne ==
  ASSUME NEW x
  PROVE  IdSet(<<x>>) = {x.id}
<1>1. DOMAIN <<x>> = {1} /\ <<x>>[1] = x
  OBVIOUS
<1> QED
  BY <1>1 DEF IdSet

\* The ids of two lists joined.
LEMMA IdSetConcat ==
  ASSUME NEW S, NEW s \in Seq(S), NEW t \in Seq(S)
  PROVE  IdSet(s \o t) = IdSet(s) \cup IdSet(t)
<1> DEFINE u == s \o t
<1>1. /\ u \in Seq(S) /\ Len(u) = Len(s) + Len(t) /\ Len(s) \in Nat /\ Len(t) \in Nat
      /\ \A i \in 1..(Len(s) + Len(t)) : u[i] = IF i <= Len(s) THEN s[i] ELSE t[i - Len(s)]
  BY ConcatProperties, LenProperties
<1> HIDE DEF u
<1>2. DOMAIN u = 1..(Len(s) + Len(t)) /\ DOMAIN s = 1..Len(s) /\ DOMAIN t = 1..Len(t)
  BY <1>1, LenProperties
<1>3. ASSUME NEW i \in DOMAIN s PROVE s[i].id \in IdSet(u)
  <2>1. u[i] = s[i] /\ i \in DOMAIN u
    BY <1>1, <1>2
  <2> QED
    BY <2>1 DEF IdSet
<1>4. ASSUME NEW i \in DOMAIN t PROVE t[i].id \in IdSet(u)
  <2>1. i \in 1..Len(t) /\ Len(s) + i \in 1..(Len(s) + Len(t)) /\ ~(Len(s) + i <= Len(s)) /\ (Len(s) + i) - Len(s) = i
    BY <1>1, <1>2
  <2>2. u[Len(s) + i] = t[i] /\ Len(s) + i \in DOMAIN u
    BY <1>1, <1>2, <2>1
  <2> QED
    BY <2>2 DEF IdSet
<1>5. ASSUME NEW i \in DOMAIN u PROVE u[i].id \in IdSet(s) \cup IdSet(t)
  <2>1. CASE i <= Len(s)
    <3>1. i \in DOMAIN s /\ u[i] = s[i]
      BY <1>1, <1>2, <2>1
    <3> QED
      BY <3>1 DEF IdSet
  <2>2. CASE ~(i <= Len(s))
    <3>1. i - Len(s) \in DOMAIN t /\ u[i] = t[i - Len(s)]
      BY <1>1, <1>2, <2>2
    <3> QED
      BY <3>1 DEF IdSet
  <2> QED
    BY <2>1, <2>2
<1>6. IdSet(s) \subseteq IdSet(u) /\ IdSet(t) \subseteq IdSet(u) /\ IdSet(u) \subseteq IdSet(s) \cup IdSet(t)
  <2>1. \A x \in IdSet(s) : \E i \in DOMAIN s : x = s[i].id
    BY DEF IdSet
  <2>2. \A x \in IdSet(t) : \E i \in DOMAIN t : x = t[i].id
    BY DEF IdSet
  <2>3. \A x \in IdSet(u) : \E i \in DOMAIN u : x = u[i].id
    BY DEF IdSet
  <2> QED
    BY <1>3, <1>4, <1>5, <2>1, <2>2, <2>3
<1> QED
  BY <1>6 DEF u

\* The ids of a list and one more bundle.
LEMMA IdSetAppend ==
  ASSUME NEW S, NEW s \in Seq(S), NEW x \in S
  PROVE  IdSet(Append(s, x)) = IdSet(s) \cup {x.id}
<1>1. <<x>> \in Seq(S) /\ Append(s, x) = s \o <<x>>
  BY AppendIsConcat
<1>2. IdSet(s \o <<x>>) = IdSet(s) \cup IdSet(<<x>>)
  BY <1>1, IdSetConcat
<1> QED
  BY <1>1, <1>2, IdSetOne

-----------------------------------------------------------------------------
(* The save buffer and the prompt.                                         *)

\* Of a list that holds no bundle in flight all is kept, of one in flight nothing.
LEMMA KeptPart ==
  ASSUME NEW m, NEW s \in Seq(Bundles), NEW t \in Seq(Bundles),
         IdSet(s) \cap InFlight(m) = {}, IdSet(t) \subseteq InFlight(m)
  PROVE  Kept(m, s \o t) = s
<1> DEFINE K(b) == IF b.id \in InFlight(m) THEN <<>> ELSE <<b>>
<1>1. PICK F \in FunctionsTo(Bundles, Seq(Bundles)) : \A b \in Bundles : F[b] = K(b)
  <2>1. [b \in Bundles |-> K(b)] \in [Bundles -> Seq(Bundles)]
    OBVIOUS
  <2> HIDE DEF K
  <2> QED
    BY <2>1 DEF FunctionsTo
<1>2. ASSUME NEW u \in Seq(Bundles) PROVE Kept(m, u) = FlattenSeq(Mapped(F, u))
  <2>1. \A i \in DOMAIN u : u[i] \in Bundles
    BY ElementOfSeq, LenProperties
  <2>2. [i \in DOMAIN u |-> IF u[i].id \in InFlight(m) THEN <<>> ELSE <<u[i]>>] = Mapped(F, u)
    BY <1>1, <2>1 DEF Mapped
  <2> QED
    BY <2>2 DEF Kept
<1>3. FlattenSeq(Mapped(F, s)) = s
  <2>1. \A i \in DOMAIN s : s[i] \in Bundles /\ s[i].id \notin InFlight(m)
    BY ElementOfSeq, LenProperties DEF IdSet
  <2>2. Mapped(F, s) = [i \in DOMAIN s |-> <<s[i]>>]
    BY <1>1, <2>1 DEF Mapped
  <2> QED
    BY <2>2, FlattenSingletons
<1> DEFINE T == {u \in Seq(Bundles) : IdSet(u) \subseteq InFlight(m) => FlattenSeq(Mapped(F, u)) = <<>>}
<1>4. <<>> \in T
  BY MappedNothing, FlattenNothing, EmptySeq
<1>5. ASSUME NEW u \in T, NEW x \in Bundles PROVE Append(u, x) \in T
  <2>0. u \in Seq(Bundles) /\ (IdSet(u) \subseteq InFlight(m) => FlattenSeq(Mapped(F, u)) = <<>>)
    OBVIOUS
  <2>1. SUFFICES ASSUME IdSet(Append(u, x)) \subseteq InFlight(m)
                 PROVE  FlattenSeq(Mapped(F, Append(u, x))) = <<>>
    BY <2>0, AppendProperties
  <2> HIDE DEF T
  <2>2. IdSet(u) \subseteq InFlight(m) /\ x.id \in InFlight(m)
    BY <2>0, <2>1, IdSetAppend
  <2>3. F[x] = <<>>
    BY <1>1, <2>2
  <2>4. Mapped(F, Append(u, x)) = Append(Mapped(F, u), F[x]) /\ Mapped(F, u) \in Seq(Seq(Bundles))
    BY <2>0, MappedAppend
  <2>5. <<>> \in Seq(Bundles)
    OBVIOUS
  <2>6. FlattenSeq(Append(Mapped(F, u), <<>>)) = FlattenSeq(Mapped(F, u)) \o <<>>
    BY <2>4, <2>5, FlattenAppend
  <2> QED
    BY <2>0, <2>2, <2>3, <2>4, <2>5, <2>6, ConcatEmptySeq
<1>6. T = Seq(Bundles)
  <2>1. T \in SUBSET Seq(Bundles)
    OBVIOUS
  <2> HIDE DEF T
  <2> QED
    BY <1>4, <1>5, <2>1, InductionOnSequences
<1>7. FlattenSeq(Mapped(F, t)) = <<>>
  BY <1>6
<1> HIDE DEF T, K
<1>8. Mapped(F, s \o t) = Mapped(F, s) \o Mapped(F, t) /\ s \o t \in Seq(Bundles)
  BY MappedConcat, ConcatProperties
<1>9. Mapped(F, s) \in Seq(Seq(Bundles)) /\ Mapped(F, t) \in Seq(Seq(Bundles))
  BY MappedType
<1>10. FlattenSeq(Mapped(F, s) \o Mapped(F, t)) = FlattenSeq(Mapped(F, s)) \o FlattenSeq(Mapped(F, t))
  BY <1>9, FlattenConcat
<1> QED
  BY <1>2, <1>3, <1>7, <1>8, <1>10, ConcatEmptySeq

\* A list of one element, mapped; of two.
LEMMA MappedPairs ==
  ASSUME NEW F, NEW x, NEW y
  PROVE  Mapped(F, <<x>>) = <<F[x]>> /\ Mapped(F, <<x, y>>) = <<F[x], F[y]>>
<1>1. DOMAIN <<x>> = {1} /\ <<x>>[1] = x
  OBVIOUS
<1>2. DOMAIN <<x, y>> = {1, 2} /\ <<x, y>>[1] = x /\ <<x, y>>[2] = y
  OBVIOUS
<1> QED
  BY <1>1, <1>2 DEF Mapped

\* The prompt stands for what it was made of: a note stands for nothing.
LEMMA PromptCovers ==
  ASSUME NEW m, NEW agent, m.old \in Seq(Bundles), m.new \in Seq(Bundles)
  PROVE  LET p == attributeMessages(m, agent)
         IN  Covers([i \in DOMAIN p |-> p[i].bundle]) = Covers(m.old \o m.new)
<1> DEFINE list == m.old \o m.new
           Shows(b) == [form |-> Form(b, agent), bundle |-> b]
           G(b) == IF b.id \in m.steered THEN <<Shows(b), Note>> ELSE <<Shows(b)>>
           Forms == {"own", "agent", "human", "note"}
           Items == [form : Forms, bundle : Bundles]
<1>0. list \in Seq(Bundles)
  BY ConcatProperties
<1>1. Note \in Items /\ Stands(Note.bundle) = <<>>
  <2>1. Note.bundle \in Heads /\ Note.bundle.kind = "empty"
    <3>1. Note.bundle = Bundle(0, "empty", "")
      BY DEF Note
    <3> QED
      BY <3>1, HeadType
  <2> QED
    BY <2>1, StandsType, PlainLists DEF Note
<1>2. \A b \in Bundles : Shows(b) \in Items /\ Shows(b).bundle = b
  BY DEF Form
<1>3. PICK B \in FunctionsTo(Items, Bundles) : \A x \in Items : B[x] = x.bundle
  <2>1. [x \in Items |-> x.bundle] \in [Items -> Bundles]
    OBVIOUS
  <2> QED
    BY <2>1 DEF FunctionsTo
<1> HIDE DEF Items, Shows
<1>4. ASSUME NEW b \in Bundles
      PROVE  G(b) \in Seq(Items) /\ Covers(Mapped(B, G(b))) = Stands(b)
  <2> DEFINE x == Shows(b)
  <2>1. x \in Items /\ B[x] = b /\ B[Note] = Note.bundle /\ Note \in Items /\ Note.bundle \in Bundles
    <3>1. B[Note] \in Bundles
      BY <1>1, <1>3 DEF FunctionsTo
    <3> QED
      BY <1>1, <1>2, <1>3, <3>1
  <2>g. G(b) = IF b.id \in m.steered THEN <<x, Note>> ELSE <<x>>
    OBVIOUS
  <2> HIDE DEF x, G
  <2>2. CASE b.id \in m.steered
    <3>1. G(b) = <<x, Note>>
      BY <2>2, <2>g
    <3>2. Mapped(B, G(b)) = <<b, Note.bundle>>
      <4>1. Mapped(B, <<x, Note>>) = <<B[x], B[Note]>>
        BY MappedPairs
      <4> QED
        BY <2>1, <3>1, <4>1
    <3> DEFINE n == Note.bundle
    <3>3. <<b>> \in Seq(Bundles) /\ <<n>> \in Seq(Bundles) /\ <<b, n>> = <<b>> \o <<n>>
      BY <2>1
    <3>4. Covers(<<b>> \o <<n>>) = Covers(<<b>>) \o Covers(<<n>>)
      BY <3>3, CoversConcat
    <3>5. Covers(<<b>>) = Stands(b) /\ Covers(<<n>>) = <<>>
      BY <1>1, <2>1, CoversOne
    <3>6. Stands(b) \o <<>> = Stands(b)
      BY StandsType, ConcatEmptySeq
    <3>7. G(b) \in Seq(Items)
      BY <2>1, <3>1
    <3> QED
      BY <3>2, <3>3, <3>4, <3>5, <3>6, <3>7
  <2>3. CASE b.id \notin m.steered
    <3>1. G(b) = <<x>>
      BY <2>3, <2>g
    <3>2. Mapped(B, G(b)) = <<b>>
      BY <2>1, <3>1, MappedPairs
    <3>3. G(b) \in Seq(Items)
      BY <2>1, <3>1
    <3> QED
      BY <3>2, <3>3, CoversOne
  <2> QED
    BY <2>2, <2>3
<1>5. PICK F \in FunctionsTo(Bundles, Seq(Items)) : \A b \in Bundles : F[b] = G(b)
  <2> HIDE DEF G
  <2>1. [b \in Bundles |-> G(b)] \in [Bundles -> Seq(Items)]
    BY <1>4
  <2> QED
    BY <2>1 DEF FunctionsTo
<1> DEFINE P(l) == Mapped(B, FlattenSeq(Mapped(F, l)))
           T == {l \in Seq(Bundles) : Covers(P(l)) = Covers(l)}
<1>6. <<>> \in T
  <2>1. P(<<>>) = <<>>
    BY MappedNothing, FlattenNothing
  <2> QED
    BY <2>1, EmptySeq
<1> HIDE DEF G
<1>7. ASSUME NEW l \in T, NEW b \in Bundles PROVE Append(l, b) \in T
  <2>0. l \in Seq(Bundles) /\ Covers(P(l)) = Covers(l)
    OBVIOUS
  <2> HIDE DEF T, P
  <2>1. Mapped(F, Append(l, b)) = Append(Mapped(F, l), F[b]) /\ Mapped(F, l) \in Seq(Seq(Items))
    BY <2>0, MappedAppend
  <2>2. F[b] = G(b) /\ F[b] \in Seq(Items)
    BY <1>4, <1>5
  <2>3. FlattenSeq(Append(Mapped(F, l), F[b])) = FlattenSeq(Mapped(F, l)) \o F[b]
    BY <2>1, <2>2, FlattenAppend
  <2>4. FlattenSeq(Mapped(F, l)) \in Seq(Items)
    BY <2>1, FlattenType
  <2>5. Mapped(B, FlattenSeq(Mapped(F, l)) \o F[b]) = Mapped(B, FlattenSeq(Mapped(F, l))) \o Mapped(B, F[b])
    BY <2>2, <2>4, MappedConcat
  <2>6. P(Append(l, b)) = P(l) \o Mapped(B, F[b])
    BY <2>1, <2>3, <2>5 DEF P
  <2>7. P(l) \in Seq(Bundles) /\ Mapped(B, F[b]) \in Seq(Bundles)
    BY <2>2, <2>4, MappedType DEF P
  <2>8. Covers(P(l) \o Mapped(B, F[b])) = Covers(P(l)) \o Covers(Mapped(B, F[b]))
    BY <2>7, CoversConcat
  <2>9. Covers(Mapped(B, F[b])) = Stands(b)
    BY <1>4, <2>2
  <2>10. Append(l, b) = l \o <<b>> /\ <<b>> \in Seq(Bundles) /\ Append(l, b) \in Seq(Bundles)
    BY <2>0, AppendIsConcat, AppendProperties
  <2>11. Covers(l \o <<b>>) = Covers(l) \o Stands(b)
    BY <2>0, <2>10, CoversConcat, CoversOne
  <2> QED
    BY <2>0, <2>6, <2>8, <2>9, <2>10, <2>11 DEF T
<1>8. T = Seq(Bundles)
  <2>1. T \in SUBSET Seq(Bundles)
    OBVIOUS
  <2> HIDE DEF T
  <2> QED
    BY <1>6, <1>7, <2>1, InductionOnSequences
<1>9. Covers(P(list)) = Covers(list)
  BY <1>0, <1>8
<1> HIDE DEF T, list
<1>10. Mapped(F, list) = [i \in DOMAIN list |-> G(list[i])]
  <2>1. \A i \in DOMAIN list : list[i] \in Bundles
    BY <1>0, ElementOfSeq, LenProperties
  <2> QED
    BY <1>5, <2>1 DEF Mapped
<1>11. attributeMessages(m, agent) = FlattenSeq(Mapped(F, list))
  <2>1. \A b : G(b) = <<Shows(b)>> \o IF b.id \in m.steered THEN <<Note>> ELSE <<>>
    <3> TAKE b
    <3> DEFINE x == Shows(b)
    <3> HIDE DEF x
    <3>1. <<x>> \o <<Note>> = <<x, Note>> /\ <<x>> \o <<>> = <<x>>
      BY PairsJoined
    <3> QED
      BY <3>1 DEF G, x
  <2>2. Mapped(F, list) = [i \in DOMAIN list |-> <<Shows(list[i])>>
                                  \o IF list[i].id \in m.steered THEN <<Note>> ELSE <<>>]
    BY <1>10, <2>1
  <2> QED
    BY <2>2 DEF attributeMessages, list, Shows
<1> DEFINE p == FlattenSeq(Mapped(F, list))
<1>12. p \in Seq(Items)
  BY <1>0, MappedType, FlattenType
<1> HIDE DEF p
<1>13. [i \in DOMAIN p |-> p[i].bundle] = Mapped(B, p)
  <2>1. \A i \in DOMAIN p : p[i] \in Items
    BY <1>12, ElementOfSeq, LenProperties
  <2> QED
    BY <1>3, <2>1 DEF Mapped
<1> QED
  BY <1>9, <1>11, <1>13 DEF p, list

-----------------------------------------------------------------------------
(* The thread, cut after a run.                                            *)

\* The rows of the thread.
LEMMA RowType ==
  ASSUME rows \in Seq(Rows)
  PROVE  /\ Len(rows) \in Nat /\ DOMAIN rows = 1..Len(rows)
         /\ \A i \in 1..Len(rows) : /\ rows[i] \in Rows /\ rows[i].msgs \in Seq(Plain)
                                    /\ rows[i].msgs \in Seq(Bundles) /\ rows[i].msgs # <<>>
                                    /\ rows[i].run \in Nat \ {0} /\ rows[i].queue \in Seq(Plain)
                                    /\ Ids(rows[i].msgs) \in Seq(Int)
<1>1. Len(rows) \in Nat /\ DOMAIN rows = 1..Len(rows) /\ \A i \in 1..Len(rows) : rows[i] \in Rows
  BY LenProperties, ElementOfSeq
<1>2. \A r \in Rows : r.msgs \in Seq(Plain) /\ r.msgs # <<>> /\ r.run \in Nat \ {0} /\ r.queue \in Seq(Plain)
  BY DEF Rows
<1> QED
  BY <1>1, <1>2, PlainLists, IdsType

\* The rest of the thread, one run at a time.
LEMMA RestSteps ==
  ASSUME rows \in Seq(Rows), NEW k \in 0..Len(rows)
  PROVE  /\ Rest(k) \in Seq(Plain)
         /\ k = Len(rows) => Rest(k) = <<>>
         /\ k < Len(rows) => Rest(k) = rows[k + 1].msgs \o Rest(k + 1)
<1>1. PICK n \in Nat : n = Len(rows) /\ \A i \in 1..n : rows[i].msgs \in Seq(Plain)
  BY RowType
<1> DEFINE Part(j) == [i \in 1..(n - j) |-> rows[j + i].msgs]
<1>2. ASSUME NEW j \in 0..n
      PROVE  Part(j) \in Seq(Seq(Plain)) /\ Len(Part(j)) = n - j /\ Rest(j) = FlattenSeq(Part(j))
  <2>1. \A i \in 1..(n - j) : j + i \in 1..n
    OBVIOUS
  <2>2. n - j \in Nat
    OBVIOUS
  <2> QED
    BY <1>1, <2>1, <2>2 DEF Rest
<1>3. k \in 0..n
  BY <1>1
<1>4. Rest(k) \in Seq(Plain)
  <2> HIDE DEF Part
  <2> QED
    BY <1>2, <1>3, FlattenType
<1>5. ASSUME k = n PROVE Rest(k) = <<>>
  <2>1. Part(k) = <<>>
    BY <1>5
  <2> HIDE DEF Part
  <2> QED
    BY <1>2, <1>3, <2>1, FlattenNothing
<1>6. ASSUME k < n PROVE Rest(k) = rows[k + 1].msgs \o Rest(k + 1)
  <2> DEFINE x == rows[k + 1].msgs
  <2>1. x \in Seq(Plain) /\ k + 1 \in 0..n
    BY <1>1, <1>3, <1>6
  <2>2. \A i \in 1..(n - k) : Part(k)[i] = IF i = 1 THEN x ELSE Part(k + 1)[i - 1]
    <3> TAKE i \in 1..(n - k)
    <3>1. Part(k)[i] = rows[k + i].msgs
      OBVIOUS
    <3>2. CASE i = 1
      BY <3>1, <3>2
    <3>3. CASE i # 1
      <4>1. i - 1 \in 1..(n - (k + 1)) /\ k + 1 + (i - 1) = k + i
        BY <1>3, <3>3
      <4> QED
        BY <3>1, <3>3, <4>1
    <3> QED
      BY <3>2, <3>3
  <2>3. /\ Part(k) \in Seq(Seq(Plain)) /\ Len(Part(k)) = n - k /\ Rest(k) = FlattenSeq(Part(k))
        /\ Part(k + 1) \in Seq(Seq(Plain)) /\ Len(Part(k + 1)) = n - (k + 1) /\ Rest(k + 1) = FlattenSeq(Part(k + 1))
    BY <1>2, <1>3, <2>1
  <2> HIDE DEF Part, x
  <2>4. <<x>> \in Seq(Seq(Plain)) /\ Len(<<x>>) = 1 /\ <<x>>[1] = x
    BY <2>1
  <2> DEFINE u == <<x>> \o Part(k + 1)
  <2>5. /\ u \in Seq(Seq(Plain)) /\ Len(u) = 1 + Len(Part(k + 1))
        /\ \A i \in 1..(1 + Len(Part(k + 1))) : u[i] = IF i <= 1 THEN <<x>>[i] ELSE Part(k + 1)[i - 1]
    BY <2>3, <2>4, ConcatProperties
  <2> HIDE DEF u
  <2>6. Part(k) = u
    <3>1. Len(u) = n - k
      BY <1>3, <2>3, <2>5
    <3>2. \A i \in 1..(n - k) : Part(k)[i] = u[i]
      <4> TAKE i \in 1..(n - k)
      <4>1. i \in 1..(1 + Len(Part(k + 1))) /\ (i <= 1 <=> i = 1)
        BY <1>3, <2>3
      <4> QED
        BY <2>2, <2>4, <2>5, <4>1
    <3> QED
      BY <2>3, <2>5, <3>1, <3>2, SeqEqual
  <2>7. FlattenSeq(<<x>> \o Part(k + 1)) = FlattenSeq(<<x>>) \o FlattenSeq(Part(k + 1))
    BY <2>3, <2>4, FlattenConcat
  <2>8. FlattenSeq(<<x>>) = x
    BY <2>1, FlattenOne
  <2> QED
    BY <2>3, <2>6, <2>7, <2>8 DEF u, x
<1> QED
  BY <1>1, <1>4, <1>5, <1>6

\* What stands for the first runs, one run at a time.
LEMMA UptoSteps ==
  ASSUME rows \in Seq(Rows), NEW k \in 0..Len(rows)
  PROVE  /\ Upto(k) \in Seq(Int) /\ Upto(0) = <<>>
         /\ k < Len(rows) => Upto(k + 1) = Upto(k) \o Ids(rows[k + 1].msgs)
<1>1. PICK n \in Nat : n = Len(rows) /\ \A i \in 1..n : Ids(rows[i].msgs) \in Seq(Int)
  BY RowType
<1> DEFINE Part(j) == [i \in 1..j |-> Ids(rows[i].msgs)]
<1>2. \A j \in 0..n : Part(j) \in Seq(Seq(Int)) /\ Len(Part(j)) = j /\ Upto(j) = FlattenSeq(Part(j))
  BY <1>1 DEF Upto
<1>3. k \in 0..n
  BY <1>1
<1>4. Upto(0) = <<>>
  <2>1. Part(0) = <<>>
    OBVIOUS
  <2>2. 0 \in 0..n
    OBVIOUS
  <2> HIDE DEF Part
  <2> QED
    BY <1>2, <2>1, <2>2, FlattenNothing
<1>5. ASSUME k < n PROVE Upto(k + 1) = Upto(k) \o Ids(rows[k + 1].msgs)
  <2> DEFINE x == Ids(rows[k + 1].msgs)
  <2>1. x \in Seq(Int) /\ k + 1 \in 0..n
    BY <1>1, <1>3, <1>5
  <2>2. Part(k + 1) = Append(Part(k), x)
    <3>1. \A i \in 1..(k + 1) : Part(k + 1)[i] = IF i = k + 1 THEN x ELSE Part(k)[i]
      BY <1>3
    <3>2. Part(k + 1) \in Seq(Seq(Int)) /\ Len(Part(k + 1)) = k + 1 /\ Part(k) \in Seq(Seq(Int)) /\ Len(Part(k)) = k
      BY <1>2, <1>3, <2>1
    <3> HIDE DEF Part, x
    <3>3. /\ Append(Part(k), x) \in Seq(Seq(Int)) /\ Len(Append(Part(k), x)) = k + 1
          /\ \A i \in 1..k : Append(Part(k), x)[i] = Part(k)[i]
          /\ Append(Part(k), x)[k + 1] = x
      BY <2>1, <3>2, AppendProperties
    <3>4. \A i \in 1..(k + 1) : Part(k + 1)[i] = Append(Part(k), x)[i]
      BY <1>3, <3>1, <3>3
    <3> QED
      BY <3>2, <3>3, <3>4, SeqEqual
  <2> HIDE DEF Part
  <2>3. FlattenSeq(Append(Part(k), x)) = FlattenSeq(Part(k)) \o x
    <3> HIDE DEF x
    <3> QED
      BY <1>2, <1>3, <2>1, FlattenAppend
  <2> QED
    BY <1>2, <1>3, <2>1, <2>2, <2>3
<1> HIDE DEF Part
<1>6. Upto(k) \in Seq(Int)
  BY <1>2, <1>3, FlattenType
<1> QED
  BY <1>1, <1>4, <1>5, <1>6

\* The thread is what stands for the first runs, and the rest.
LEMMA UptoAndRest ==
  ASSUME rows \in Seq(Rows), NEW k \in 0..Len(rows)
  PROVE  /\ Upto(k) \o Ids(Rest(k)) = Transcript
         /\ \A i \in DOMAIN Rest(k) : \E j \in (k + 1)..Len(rows) : Rest(k)[i].id \in IdSet(rows[j].msgs)
         /\ \A j \in (k + 1)..Len(rows) : IdSet(rows[j].msgs) \subseteq IdSet(Rest(k))
<1>1. PICK n \in Nat : n = Len(rows) /\ k \in 0..n
  BY RowType
<1> DEFINE Good(j) == /\ Upto(j) \o Ids(Rest(j)) = Upto(n)
                      /\ \A x \in IdSet(Rest(j)) : \E l \in (j + 1)..n : x \in IdSet(rows[l].msgs)
                      /\ \A l \in (j + 1)..n : IdSet(rows[l].msgs) \subseteq IdSet(Rest(j))
           T == {j \in 0..n : Good(j)}
<1>2. n \in T
  <2>1. Rest(n) = <<>> /\ Upto(n) \in Seq(Int)
    <3>1. n \in 0..Len(rows) /\ n = Len(rows)
      BY <1>1
    <3> QED
      BY <3>1, RestSteps, UptoSteps
  <2>2. Ids(<<>>) = <<>> /\ IdSet(<<>>) = {}
    BY DEF Ids, IdSet
  <2>3. Upto(n) \o <<>> = Upto(n)
    BY <2>1, ConcatEmptySeq
  <2>4. (n + 1)..n = {}
    OBVIOUS
  <2> QED
    BY <2>1, <2>2, <2>3, <2>4
<1>3. ASSUME NEW j \in 0..n, j < n, j + 1 \in T PROVE j \in T
  <2>0. Good(j + 1)
    BY <1>3
  <2> DEFINE x == rows[j + 1].msgs
  <2>1. Rest(j) = x \o Rest(j + 1) /\ Upto(j + 1) = Upto(j) \o Ids(x) /\ Upto(j) \in Seq(Int)
    BY <1>1, <1>3, RestSteps, UptoSteps
  <2>2. x \in Seq(Bundles) /\ Rest(j + 1) \in Seq(Bundles)
    <3>1. j + 1 \in 0..Len(rows) /\ j + 1 \in 1..Len(rows)
      BY <1>1, <1>3
    <3> QED
      BY <3>1, RestSteps, RowType, PlainLists
  <2>3. Ids(Rest(j)) = Ids(x) \o Ids(Rest(j + 1)) /\ IdSet(Rest(j)) = IdSet(x) \cup IdSet(Rest(j + 1))
    BY <2>1, <2>2, IdsConcat, IdSetConcat
  <2>4. (Upto(j) \o Ids(x)) \o Ids(Rest(j + 1)) = Upto(j) \o (Ids(x) \o Ids(Rest(j + 1)))
    <3>1. Ids(x) \in Seq(Int) /\ Ids(Rest(j + 1)) \in Seq(Int)
      BY <2>2, IdsType
    <3>2. Upto(j) \in Seq(Int)
      BY <2>1
    <3> HIDE DEF x, Good, T
    <3> QED
      BY ONLY <3>1, <3>2, ConcatAssociative
  <2>5. Upto(j) \o Ids(Rest(j)) = Upto(n)
    BY <2>0, <2>1, <2>3, <2>4
  <2>6. ASSUME NEW y \in IdSet(Rest(j)) PROVE \E l \in (j + 1)..n : y \in IdSet(rows[l].msgs)
    <3>1. CASE y \in IdSet(x)
      <4>1. j + 1 \in (j + 1)..n
        BY <1>3
      <4> QED
        BY <3>1, <4>1
    <3>2. CASE y \in IdSet(Rest(j + 1))
      <4>1. PICK l \in ((j + 1) + 1)..n : y \in IdSet(rows[l].msgs)
        BY <2>0, <3>2
      <4>2. l \in (j + 1)..n
        OBVIOUS
      <4> QED
        BY <4>1, <4>2
    <3> QED
      BY <2>3, <3>1, <3>2
  <2>7. ASSUME NEW l \in (j + 1)..n PROVE IdSet(rows[l].msgs) \subseteq IdSet(Rest(j))
    <3>1. CASE l = j + 1
      BY <2>3, <3>1
    <3>2. CASE l # j + 1
      <4>1. l \in ((j + 1) + 1)..n
        BY <3>2
      <4> QED
        BY <2>0, <2>3, <4>1
    <3> QED
      BY <3>1, <3>2
  <2> QED
    BY <2>5, <2>6, <2>7
<1>4. \A j \in 0..n : j \in T
  <2> HIDE DEF T
  <2> QED
    BY <1>2, <1>3, InductionDownwards
<1>5. Good(k)
  BY <1>1, <1>4
<1>6. Upto(n) = Transcript
  BY <1>1, RowType DEF Upto, Transcript
<1>7. \A i \in DOMAIN Rest(k) : Rest(k)[i].id \in IdSet(Rest(k))
  BY DEF IdSet
<1> QED
  BY <1>1, <1>5, <1>6, <1>7

\* Joining is associative.
LEMMA JoinedThrice ==
  ASSUME NEW a \in Seq(Int), NEW b \in Seq(Int), NEW c \in Seq(Int)
  PROVE  (a \o b) \o c = a \o (b \o c)
<1> DEFINE S == Int
<1>1. a \in Seq(S) /\ b \in Seq(S) /\ c \in Seq(S)
  OBVIOUS
<1> HIDE DEF S
<1> QED
  BY <1>1, ConcatAssociative

\* A cut past the first of two lists cuts the second.
LEMMA CutSecond ==
  ASSUME NEW x \in Seq(Bundles), x # <<>>, NEW S \in Seq(Bundles), NEW U \in Seq(Int), NEW q \in Nat,
         Len(x) <= q, q <= Len(x \o S)
  PROVE  LET R == x \o S
             r == q - Len(x)
         IN  /\ q > 0 /\ r \in 0..Len(S) /\ Len(R) = Len(x) + Len(S)
             /\ SubSeq(R, q + 1, Len(R)) = SubSeq(S, r + 1, Len(S))
             /\ U \o Ids(SubSeq(R, 1, q)) = (U \o Ids(x)) \o Ids(SubSeq(S, 1, r))
             /\ r > 0 => R[q] = S[r]
             /\ r = 0 => R[q] = x[Len(x)]
             /\ r < Len(S) => R[q + 1] = S[r + 1]
<1> DEFINE R == x \o S
<1>1. /\ Len(x) \in Nat \ {0} /\ Len(S) \in Nat /\ Len(R) = Len(x) + Len(S) /\ R \in Seq(Bundles)
      /\ \A i \in 1..(Len(x) + Len(S)) : R[i] = IF i <= Len(x) THEN x[i] ELSE S[i - Len(x)]
  BY ConcatProperties, LenProperties, EmptySeq
<1>2. q \in 0..Len(R)
  OBVIOUS
<1>3. /\ SubSeq(R, 1, q) = x \o SubSeq(S, 1, q - Len(x))
      /\ SubSeq(R, q + 1, Len(R)) = SubSeq(S, q - Len(x) + 1, Len(S))
  BY <1>2, SubSeqOfJoined
<1> HIDE DEF R
<1> DEFINE r == q - Len(x)
<1>4. r \in 0..Len(S) /\ q > 0 /\ q = r + Len(x)
  BY <1>1, <1>2
<1>5. /\ r > 0 => R[q] = S[r]
      /\ r = 0 => R[q] = x[Len(x)]
      /\ r < Len(S) => R[q + 1] = S[r + 1]
  BY <1>1, <1>2
<1> DEFINE s == SubSeq(S, 1, r)
<1>6. s \in Seq(Bundles)
  <2>1. \A i \in 1..r : S[i] \in Bundles
    <3>1. \A i \in 1..r : i \in 1..Len(S)
      BY <1>1, <1>4
    <3> QED
      BY <3>1, ElementOfSeq
  <2> HIDE DEF r
  <2> QED
    BY <1>1, <1>4, <2>1, SubSeqProperties
<1>7. SubSeq(R, 1, q) = x \o s
  BY <1>3
<1> HIDE DEF s
<1>8. Ids(x \o s) = Ids(x) \o Ids(s)
  BY <1>6, IdsConcat
<1>9. (U \o Ids(x)) \o Ids(s) = U \o (Ids(x) \o Ids(s))
  <2>1. PICK a \in Seq(Int), b \in Seq(Int) : a = Ids(x) /\ b = Ids(s)
    BY <1>6, IdsType
  <2>2. (U \o a) \o b = U \o (a \o b)
    BY JoinedThrice
  <2> QED
    BY <2>1, <2>2
<1>10. U \o Ids(SubSeq(R, 1, q)) = (U \o Ids(x)) \o Ids(s)
  BY <1>7, <1>8, <1>9
<1> QED
  BY <1>1, <1>3, <1>4, <1>5, <1>10 DEF R, s

\* A cut of the rest of the thread at a place where a run begins, and one within a run.
CutBetween(R, k, p, j) ==
  /\ SubSeq(R, p + 1, Len(R)) = Rest(j)
  /\ Upto(k) \o Ids(SubSeq(R, 1, p)) = Upto(j)
  /\ p = 0 => j = k
  /\ p > 0 => j > k /\ R[p].id \in IdSet(rows[j].msgs)
CutWithin(R, k, p, j) ==
  /\ 0 < p /\ p < Len(R) /\ j > k
  /\ R[p].id \in IdSet(rows[j].msgs) /\ R[p + 1].id \in IdSet(rows[j].msgs)

\* Every cut is one or the other.
LEMMA Cuts ==
  ASSUME rows \in Seq(Rows), NEW k \in 0..Len(rows), NEW p \in 0..Len(Rest(k))
  PROVE  \E j \in k..Len(rows) : CutBetween(Rest(k), k, p, j) \/ CutWithin(Rest(k), k, p, j)
<1>1. PICK n \in Nat : n = Len(rows) /\ k \in 0..n
  BY RowType
<1> DEFINE Good(l) == \A q \in 0..Len(Rest(l)) : \E j \in l..n : CutBetween(Rest(l), l, q, j) \/ CutWithin(Rest(l), l, q, j)
           T == {l \in 0..n : Good(l)}
<1>0. \A l \in 0..n : /\ Rest(l) \in Seq(Plain) /\ Rest(l) \in Seq(Bundles) /\ Len(Rest(l)) \in Nat
                      /\ Upto(l) \in Seq(Int)
  BY <1>1, RestSteps, UptoSteps, PlainLists, LenProperties
<1>2. ASSUME NEW l \in 0..n PROVE CutBetween(Rest(l), l, 0, l)
  <2>1. PICK R : R = Rest(l) /\ R \in Seq(Bundles)
    BY <1>0
  <2>2. SubSeq(R, 1, Len(R)) = R /\ SubSeq(R, 1, 0) = <<>>
    BY <2>1, SubSeqFull, SubSeqEmpty
  <2>3. Ids(<<>>) = <<>>
    BY DEF Ids
  <2>4. Upto(l) \o <<>> = Upto(l)
    BY <1>0, ConcatEmptySeq
  <2>5. SubSeq(R, 0 + 1, Len(R)) = R
    <3>1. 0 + 1 = 1
      OBVIOUS
    <3> QED
      BY <2>2, <3>1
  <2>6. Upto(l) \o Ids(SubSeq(R, 1, 0)) = Upto(l)
    BY <2>2, <2>3, <2>4
  <2> QED
    BY <2>1, <2>5, <2>6 DEF CutBetween
<1>3. n \in T
  <2>1. Rest(n) = <<>>
    <3>1. n \in 0..Len(rows) /\ n = Len(rows)
      BY <1>1
    <3> QED
      BY <3>1, RestSteps
  <2>2. \A q \in 0..Len(Rest(n)) : q = 0
    BY <2>1, EmptySeq
  <2>3. n \in n..n /\ n \in 0..n
    OBVIOUS
  <2> QED
    BY <1>2, <2>2, <2>3
<1>4. ASSUME NEW l \in 0..n, l < n, l + 1 \in T PROVE l \in T
  <2>0. l + 1 \in 0..n /\ Good(l + 1)
    BY <1>4
  <2> HIDE DEF T
  <2>1. PICK x, S, R :
              /\ x = rows[l + 1].msgs /\ S = Rest(l + 1) /\ R = Rest(l)
              /\ R = x \o S /\ Upto(l + 1) = Upto(l) \o Ids(x) /\ x \in Seq(Bundles) /\ x # <<>> /\ S \in Seq(Bundles)
              /\ R \in Seq(Bundles) /\ Upto(l) \in Seq(Int)
    <3>1. l \in 0..Len(rows) /\ l < Len(rows) /\ l + 1 \in 1..Len(rows)
      BY <1>1, <1>4
    <3>2. Rest(l + 1) \in Seq(Bundles) /\ Rest(l) \in Seq(Bundles) /\ Upto(l) \in Seq(Int)
      BY <1>0, <2>0
    <3> QED
      BY <3>1, <3>2, RestSteps, UptoSteps, RowType
  <2>t. /\ R = x \o S /\ Upto(l + 1) = Upto(l) \o Ids(x) /\ x \in Seq(Bundles) /\ x # <<>> /\ S \in Seq(Bundles)
        /\ R \in Seq(Bundles) /\ Upto(l) \in Seq(Int)
    BY <2>1
  <2>r. x = rows[l + 1].msgs /\ S = Rest(l + 1) /\ R = Rest(l)
    BY <2>1
  <2>e. /\ Len(R) = Len(x) + Len(S) /\ Len(x) \in Nat \ {0} /\ Len(S) \in Nat /\ Len(x \o S) = Len(R)
        /\ \A i \in 1..(Len(x) + Len(S)) : R[i] = IF i <= Len(x) THEN x[i] ELSE S[i - Len(x)]
    BY <2>t, ConcatProperties, LenProperties, EmptySeq
  <2>x. \A i \in 1..Len(x) : x[i].id \in IdSet(rows[l + 1].msgs)
    <3>1. DOMAIN x = 1..Len(x)
      BY <2>t, LenProperties
    <3> QED
      BY <2>r, <3>1 DEF IdSet
  <2>2. ASSUME NEW q \in 0..Len(R) PROVE \E j \in l..n : CutBetween(R, l, q, j) \/ CutWithin(R, l, q, j)
    <3>1. CASE q = 0
      <4>1. l \in l..n
        BY <1>4
      <4>2. CutBetween(R, l, 0, l)
        BY <1>2, <2>r
      <4> QED
        BY <3>1, <4>1, <4>2
    <3>2. CASE 0 < q /\ q < Len(x)
      <4>1. /\ q \in 1..(Len(x) + Len(S)) /\ q + 1 \in 1..(Len(x) + Len(S))
            /\ q <= Len(x) /\ q + 1 <= Len(x) /\ q < Len(R) /\ q \in 1..Len(x) /\ q + 1 \in 1..Len(x)
        BY <3>2, <2>e
      <4>2. R[q] = x[q] /\ R[q + 1] = x[q + 1]
        BY <2>e, <4>1
      <4>3. l + 1 > l /\ l + 1 \in l..n
        BY <1>4
      <4>4. CutWithin(R, l, q, l + 1)
        BY <3>2, <2>x, <4>1, <4>2, <4>3 DEF CutWithin
      <4> QED
        BY <4>3, <4>4
    <3>3. CASE q >= Len(x)
      <4>0. PICK r :
              /\ r = q - Len(x) /\ q > 0 /\ r \in 0..Len(S) /\ Len(R) = Len(x) + Len(S)
              /\ SubSeq(R, q + 1, Len(R)) = SubSeq(S, r + 1, Len(S))
              /\ Upto(l) \o Ids(SubSeq(R, 1, q)) = (Upto(l) \o Ids(x)) \o Ids(SubSeq(S, 1, r))
              /\ r > 0 => R[q] = S[r]
              /\ r = 0 => R[q] = x[Len(x)]
              /\ r < Len(S) => R[q + 1] = S[r + 1]
        <5>1. q \in Nat /\ Len(x) <= q /\ q <= Len(x \o S)
          BY <2>e, <3>3
        <5> DEFINE U == Upto(l)
        <5>2. U \in Seq(Int)
          BY <2>t
        <5> HIDE DEF U
        <5>3. LET r == q - Len(x)
              IN  /\ q > 0 /\ r \in 0..Len(S) /\ Len(x \o S) = Len(x) + Len(S)
                  /\ SubSeq(x \o S, q + 1, Len(x \o S)) = SubSeq(S, r + 1, Len(S))
                  /\ U \o Ids(SubSeq(x \o S, 1, q)) = (U \o Ids(x)) \o Ids(SubSeq(S, 1, r))
                  /\ r > 0 => (x \o S)[q] = S[r]
                  /\ r = 0 => (x \o S)[q] = x[Len(x)]
                  /\ r < Len(S) => (x \o S)[q + 1] = S[r + 1]
          BY <2>t, <5>1, <5>2, CutSecond
        <5> QED
          BY <2>t, <5>3 DEF U
      <4>1. PICK j \in (l + 1)..n : CutBetween(S, l + 1, r, j) \/ CutWithin(S, l + 1, r, j)
        BY <2>0, <2>r, <4>0 DEF Good
      <4>2. j \in l..n /\ j > l
        BY <1>4
      <4>4. CASE CutBetween(S, l + 1, r, j)
        <5>1. /\ SubSeq(S, r + 1, Len(S)) = Rest(j)
              /\ Upto(l + 1) \o Ids(SubSeq(S, 1, r)) = Upto(j)
              /\ r = 0 => j = l + 1
              /\ r > 0 => S[r].id \in IdSet(rows[j].msgs)
          BY <4>4 DEF CutBetween
        <5>2. Upto(l) \o Ids(SubSeq(R, 1, q)) = Upto(j) /\ SubSeq(R, q + 1, Len(R)) = Rest(j)
          BY <2>t, <4>0, <5>1
        <5>3. R[q].id \in IdSet(rows[j].msgs)
          <6>1. CASE r > 0
            BY <4>0, <5>1, <6>1
          <6>2. CASE r = 0
            <7>1. Len(x) \in 1..Len(x)
              BY <2>e
            <7> QED
              BY <2>x, <4>0, <5>1, <6>2, <7>1
          <6>3. r > 0 \/ r = 0
            BY <2>e, <4>0
          <6> QED
            BY <6>1, <6>2, <6>3
        <5>4. CutBetween(R, l, q, j)
          BY <4>0, <4>2, <5>2, <5>3 DEF CutBetween
        <5> QED
          BY <4>2, <5>4
      <4>5. CASE CutWithin(S, l + 1, r, j)
        <5>1. 0 < r /\ r < Len(S) /\ S[r].id \in IdSet(rows[j].msgs) /\ S[r + 1].id \in IdSet(rows[j].msgs)
          BY <4>5 DEF CutWithin
        <5>2. q < Len(R)
          BY <2>e, <4>0, <5>1
        <5>3. CutWithin(R, l, q, j)
          BY <4>0, <4>2, <5>1, <5>2 DEF CutWithin
        <5> QED
          BY <4>2, <5>3
      <4> QED
        BY <4>1, <4>4, <4>5
    <3>4. q = 0 \/ (0 < q /\ q < Len(x)) \/ q >= Len(x)
      BY <2>e
    <3> QED
      BY <3>1, <3>2, <3>3, <3>4
  <2>3. Good(l)
    BY <2>r, <2>2
  <2> QED
    BY <2>3 DEF T
<1>5. \A l \in 0..n : l \in T
  <2> HIDE DEF T
  <2> QED
    BY <1>3, <1>4, InductionDownwards
<1>6. Good(k)
  BY <1>1, <1>5
<1> QED
  BY <1>1, <1>6

-----------------------------------------------------------------------------
(* The summariser's cut.                                                   *)

\* What a manager's fields are.
LEMMA ManagerType ==
  ASSUME NEW m \in Managers
  PROVE  /\ m.pc \in {"call", "tools", "pause", "asked", "save"} /\ m.run \in Nat \ {0}
         /\ m.old \in Seq(Bundles) /\ m.new \in Seq(Plain) /\ m.new \in Seq(Bundles)
         /\ m.queue \in Seq(Plain) /\ m.queue \in Seq(Bundles)
         /\ m.runOf \in Maps /\ DOMAIN m.runOf \subseteq Int /\ \A x \in DOMAIN m.runOf : m.runOf[x] \in Int
         /\ \A b : RunAt(m.runOf, b) \in Int
         /\ m.steered \subseteq Int /\ m.summaries \in Results \cup {NoResult}
         /\ m.context \in Nat /\ m.pending \in Nat /\ m.usage \in Nat /\ m.known \in BOOLEAN
         /\ m.measured \in Measures
<1>1. /\ m.pc \in {"call", "tools", "pause", "asked", "save"} /\ m.run \in Nat \ {0}
      /\ m.old \in Seq(Bundles) /\ m.new \in Seq(Plain) /\ m.queue \in Seq(Plain)
      /\ m.runOf \in Maps
      /\ m.steered \subseteq Int /\ m.summaries \in Results \cup {NoResult}
      /\ m.context \in Nat /\ m.pending \in Nat /\ m.usage \in Nat /\ m.known \in BOOLEAN
      /\ m.measured \in Measures
  BY DEF Managers
<1>2. DOMAIN m.runOf \subseteq Int /\ \A x \in DOMAIN m.runOf : m.runOf[x] \in Int
  <2>1. PICK D \in SUBSET Int : m.runOf \in [D -> Int]
    BY <1>1 DEF Maps
  <2> QED
    BY <2>1
<1>3. \A b : RunAt(m.runOf, b) \in Int
  BY <1>2 DEF RunAt, NoRun
<1> QED
  BY <1>1, <1>2, <1>3, PlainLists

\* A list of bundles, by its elements.
LEMMA ListType ==
  ASSUME NEW s \in Seq(Bundles)
  PROVE  Len(s) \in Nat /\ DOMAIN s = 1..Len(s) /\ \A i \in 1..Len(s) : s[i] \in Bundles /\ s[i].id \in IdSet(s)
<1>1. Len(s) \in Nat /\ DOMAIN s = 1..Len(s) /\ \A i \in 1..Len(s) : s[i] \in Bundles
  BY LenProperties, ElementOfSeq
<1> QED
  BY <1>1 DEF IdSet

\* A list that does not begin with an empty bundle weighs something.
LEMMA TotalOfSome ==
  ASSUME NEW w \in Measures, NEW s \in Seq(Bundles), s # <<>>, s[1].kind # "empty"
  PROVE  Total(w, s) >= 1
<1>1. s[1] \in Bundles /\ Tail(s) \in Seq(Bundles) /\ s = <<s[1]>> \o Tail(s)
  <2>1. Head(s) \in Bundles /\ Tail(s) \in Seq(Bundles) /\ Head(s) = s[1]
    BY HeadTailProperties
  <2>2. s = <<Head(s)>> \o Tail(s)
    OBVIOUS
  <2> QED
    BY <2>1, <2>2
<1>2. PICK x \in Bundles, t \in Seq(Bundles) : x = s[1] /\ s = <<x>> \o t
  BY <1>1
<1>3. <<x>> \in Seq(Bundles)
  OBVIOUS
<1>4. Total(w, <<x>> \o t) = Total(w, <<x>>) + Total(w, t) /\ Total(w, t) \in Nat
  BY <1>3, TotalConcat, TotalType
<1>5. Total(w, <<x>>) = Weight(w, x) /\ Weight(w, x) \in Nat /\ Weight(w, x) >= 1
  BY <1>2, TotalOne, WeighsType
<1> QED
  BY <1>2, <1>4, <1>5

\* Where the runs to keep begin: past the first bundle, where the run changes.
LEMMA KeepFrom ==
  ASSUME NEW runOf, NEW msgs \in Seq(Bundles), settings.keep \in Nat \ {0},
         Cardinality(groupIntoRuns(runOf, msgs)) > settings.keep
  PROVE  LET from == keepFromIndex(groupIntoRuns(runOf, msgs))
         IN  from \in 2..Len(msgs) /\ RunAt(runOf, msgs[from]) # RunAt(runOf, msgs[from - 1])
<1> DEFINE T == groupIntoRuns(runOf, msgs)
           k == settings.keep
<1>1. Len(msgs) \in Nat /\ DOMAIN msgs = 1..Len(msgs)
  BY LenProperties
<1>2. \A i \in T : i \in 1..Len(msgs) /\ (i = 1 \/ RunAt(runOf, msgs[i]) # RunAt(runOf, msgs[i - 1]))
  BY <1>1 DEF groupIntoRuns
<1> HIDE DEF T, k
<1>3. T \in SUBSET (0..Len(msgs)) /\ k \in Nat \ {0} /\ Cardinality(T) > k /\ Cardinality(T) \in Nat
  <2>1. \A i \in T : i \in 0..Len(msgs) /\ i \in Nat /\ i <= Len(msgs)
    BY <1>1, <1>2
  <2>2. T \in SUBSET Nat
    BY <2>1
  <2>3. IsFiniteSet(T)
    BY <1>1, <2>1, <2>2, FS_BoundedSetOfNaturals
  <2>4. Cardinality(T) \in Nat
    BY <2>3, FS_CardinalityType
  <2> QED
    BY <2>1, <2>4 DEF T, k
<1>4. \E i \in T : Cardinality({j \in T : j >= i}) = k
  <2>1. k <= Cardinality(T)
    BY <1>3
  <2> QED
    BY <1>1, <1>3, <2>1, KthFromTheEnd
<1> DEFINE f == CHOOSE i \in T : Cardinality({j \in T : j >= i}) = k
<1>5. f \in T /\ Cardinality({j \in T : j >= f}) = k
  BY <1>4
<1>6. f = keepFromIndex(T)
  BY DEF keepFromIndex, k
<1> HIDE DEF f
<1>7. f # 1
  <2> SUFFICES ASSUME f = 1 PROVE FALSE
    OBVIOUS
  <2>1. \A j \in T : j >= f
    BY <1>1, <1>2
  <2>2. {j \in T : j >= f} = T
    BY <2>1
  <2>3. Cardinality(T) = k
    BY <1>5, <2>2, Zenon
  <2> QED
    BY <1>3, <2>3
<1>8. f \in 2..Len(msgs) /\ RunAt(runOf, msgs[f]) # RunAt(runOf, msgs[f - 1])
  BY <1>1, <1>2, <1>5, <1>7
<1> QED
  BY <1>6, <1>8 DEF T

\* The last run that a list names.
LEMMA LastNamedIs ==
  ASSUME NEW runOf, NEW msgs \in Seq(Bundles)
  PROVE  LET last == LastNamed(runOf, msgs)
         IN  \/ last = NoRun
             \/ \E i \in 1..Len(msgs) : /\ last = RunAt(runOf, msgs[i]) /\ last # NoRun
                                        /\ \A j \in 1..Len(msgs) : j > i => RunAt(runOf, msgs[j]) = NoRun
<1>1. Len(msgs) \in Nat /\ DOMAIN msgs = 1..Len(msgs)
  BY LenProperties
<1> DEFINE N == {i \in DOMAIN msgs : RunAt(runOf, msgs[i]) # NoRun}
<1>2. CASE N = {}
  BY <1>2 DEF LastNamed
<1>3. CASE N # {}
  <2>1. LastNamed(runOf, msgs) = RunAt(runOf, msgs[Max(N)])
    BY <1>3 DEF LastNamed
  <2>2. \A i : i \in N <=> i \in 1..Len(msgs) /\ RunAt(runOf, msgs[i]) # NoRun
    BY <1>1
  <2> HIDE DEF N
  <2>3. N \in SUBSET (0..Len(msgs))
    <3>1. \A i \in N : i \in 0..Len(msgs)
      BY <1>1, <2>2
    <3> QED
      BY <3>1
  <2>4. Max(N) \in N /\ \A i \in N : Max(N) >= i
    BY <1>1, <1>3, <2>3, MaxIsGreatest
  <2>5. Max(N) \in 1..Len(msgs) /\ \A j \in 1..Len(msgs) : j > Max(N) => RunAt(runOf, msgs[j]) = NoRun
    <3>1. Max(N) \in 1..Len(msgs)
      BY <2>2, <2>4
    <3>2. \A j \in 1..Len(msgs) : j > Max(N) => j \notin N
      <4> TAKE j \in 1..Len(msgs)
      <4> HAVE j > Max(N)
      <4>1. ~(Max(N) >= j)
        BY <3>1
      <4> QED
        BY <2>4, <4>1
    <3> QED
      BY <2>2, <3>1, <3>2
  <2> QED
    BY <2>1, <2>2, <2>4, <2>5
<1> QED
  BY <1>2, <1>3

\* The loaded half: at most one bundle in front, and the rest of the thread.
LEMMA Loaded ==
  ASSUME rows \in Seq(Rows), NEW m \in Managers, NEW k \in 0..Len(rows), Holds(m, k)
  PROVE  \E H \in Seq(Bundles) :
           /\ m.old = H \o Rest(k) /\ Len(H) <= 1
           /\ H = <<>> => (settings.kind = "llm" => k = 0)
           /\ H # <<>> => H = <<m.old[1]>> /\ HeadInv(m, m.old[1], k)
           /\ settings.kind = "llm" /\ (Placed(m) \/ k < Len(rows)) => Covers(H) = Upto(k)
<1>1. Rest(k) \in Seq(Bundles) /\ Upto(0) = <<>>
  BY RestSteps, UptoSteps, PlainLists
<1>2. CASE m.old = Rest(k) /\ (settings.kind = "llm" => k = 0)
  <2>1. <<>> \in Seq(Bundles) /\ <<>> \o Rest(k) = Rest(k) /\ Len(<<>>) <= 1
    <3>1. <<>> \in Seq(Bundles) /\ Len(<<>>) = 0
      OBVIOUS
    <3>2. <<>> \o Rest(k) = Rest(k)
      BY <1>1, ConcatEmptySeq
    <3> QED
      BY <3>1, <3>2
  <2>2. settings.kind = "llm" => Covers(<<>>) = Upto(k)
    BY <1>1, <1>2, CoversNothing
  <2> QED
    BY <1>2, <2>1, <2>2
<1>3. CASE m.old # <<>> /\ m.old = <<m.old[1]>> \o Rest(k) /\ HeadInv(m, m.old[1], k)
  <2>1. PICK b \in Heads : /\ b = m.old[1] /\ HeadInv(m, b, k)
                           /\ m.old = <<b>> \o Rest(k)
    BY <1>3 DEF HeadInv
  <2>2. b \in Bundles /\ <<b>> \in Seq(Bundles) /\ Len(<<b>>) <= 1 /\ <<b>> # <<>>
    <3>1. b \in Bundles
      BY PlainLists
    <3>2. <<b>> \in Seq(Bundles) /\ Len(<<b>>) = 1
      BY <3>1
    <3> QED
      BY <3>1, <3>2
  <2>3. ASSUME settings.kind = "llm", Placed(m) \/ k < Len(rows) PROVE Covers(<<b>>) = Upto(k)
    <3>1. b.kind = "summary" /\ b.of = Upto(k)
      BY <2>1, <2>3 DEF HeadInv
    <3>2. Stands(b) = b.of
      BY <3>1, StandsType
    <3> QED
      BY <2>2, <3>1, <3>2, CoversOne
  <2> QED
    BY <2>1, <2>2, <2>3
<1> QED
  BY <1>2, <1>3 DEF Holds

\* What a manager knows of the places of bundles, in its loaded half and in flight.
LEMMA PlacesKnown ==
  ASSUME rows \in Seq(Rows), RowsInv, NEW m \in Managers, RunInv(m), FlightInv(m), MapInv(m),
         NEW k \in 0..Len(rows), Holds(m, k)
  PROVE  /\ \A b : \A l \in (k + 1)..Len(rows) : b.id \in IdSet(rows[l].msgs) => RunAt(m.runOf, b) = rows[l].run
         /\ \A i \in 1..Len(m.new) : /\ RunAt(m.runOf, m.new[i]) \in {NoRun, m.run}
                                     /\ Placed(m) => RunAt(m.runOf, m.new[i]) = m.run
         /\ Resumes(m) => m.run = rows[Len(rows)].run
         /\ ~Placed(m) => Resumes(m)
         /\ \A l \in (k + 1)..Len(rows) : IdSet(rows[l].msgs) \cap InFlight(m) = {}
         /\ IdSet(m.new) \subseteq InFlight(m)
<1>1. PICK n \in Nat : n = Len(rows) /\ k \in 0..n /\ DOMAIN rows = 1..n
  BY RowType
<1>2. ASSUME NEW b, NEW l \in (k + 1)..n, b.id \in IdSet(rows[l].msgs)
      PROVE  RunAt(m.runOf, b) = rows[l].run
  BY <1>1, <1>2 DEF Holds, RunAt
<1>3. ASSUME NEW i \in 1..Len(m.new)
      PROVE  /\ RunAt(m.runOf, m.new[i]) \in {NoRun, m.run}
             /\ Placed(m) => RunAt(m.runOf, m.new[i]) = m.run
  <2>1. m.new[i].id \in IdSet(m.new)
    BY ManagerType, ListType
  <2> QED
    BY <2>1 DEF MapInv, RunAt, Placed
<1>4. (Resumes(m) => m.run = rows[n].run) /\ (~Placed(m) => Resumes(m))
  BY <1>1 DEF RunInv
<1>5. InFlight(m) = IdSet(m.new)
  BY IdSetOfIds DEF InFlight
<1>6. \A l \in (k + 1)..n : l \in DOMAIN rows
  BY <1>1
<1>7. \A l \in (k + 1)..n : IdSet(rows[l].msgs) \cap InFlight(m) = {}
  BY <1>5, <1>6 DEF FlightInv
<1> QED
  BY <1>1, <1>2, <1>3, <1>4, <1>5, <1>7

\* What a cut gives up stands for the thread up to a run, and what it keeps of the
\* loaded half is the rest: or the cut is within what is in flight.
SummaryCutAt(m, from, j) ==
  LET D == Old(m.old \o m.new, from)
      E == Recent(m.old \o m.new, from)
      L == LastNamed(m.runOf, D)
  IN  /\ D \in Seq(Bundles) /\ E \in Seq(Bundles) /\ L \in Int
      /\ Kept(m, E) = Rest(j)
      /\ Placed(m) /\ Resumes(m) => j < Len(rows)
      /\ settings.kind = "llm" /\ (Placed(m) \/ j < Len(rows) \/ (L > 0 /\ L # m.run)) => Covers(D) = Upto(j)
      /\ L > 0 /\ L # m.run => j > 0 /\ L = rows[j].run /\ rows[j].complete
      /\ Total(m.measured, Rest(j)) + (IF settings.kind = "llm" THEN 1 ELSE 0) <= Total(m.measured, m.old)

\* The setting of a cut.
CutSetting(m, k, from) ==
  /\ rows \in Seq(Rows) /\ RowsInv /\ settings.kind \in {"llm", "window"}
  /\ m \in Managers /\ RunInv(m) /\ FlightInv(m) /\ MapInv(m)
  /\ k \in 0..Len(rows) /\ Holds(m, k)
  /\ from \in 2..Len(m.old \o m.new)
  /\ RunAt(m.runOf, (m.old \o m.new)[from]) # RunAt(m.runOf, (m.old \o m.new)[from - 1])

\* What a cut gives up and keeps, when it is in the loaded half or at its end.
LEMMA CutLoaded ==
  ASSUME NEW m, NEW k, NEW from, CutSetting(m, k, from), from - 1 <= Len(m.old)
  PROVE  \E j \in k..Len(rows) : SummaryCutAt(m, from, j)
<1>0. /\ rows \in Seq(Rows) /\ RowsInv /\ settings.kind \in {"llm", "window"}
      /\ m \in Managers /\ RunInv(m) /\ FlightInv(m) /\ MapInv(m)
      /\ k \in 0..Len(rows) /\ Holds(m, k) /\ from \in 2..Len(m.old \o m.new)
  BY DEF CutSetting
<1>1. PICK n \in Nat : n = Len(rows) /\ k \in 0..n
  BY <1>0, RowType
<1>2. PICK H \in Seq(Bundles) :
           /\ m.old = H \o Rest(k) /\ Len(H) <= 1
           /\ H = <<>> => (settings.kind = "llm" => k = 0)
           /\ H # <<>> => H = <<m.old[1]>> /\ HeadInv(m, m.old[1], k)
           /\ settings.kind = "llm" /\ (Placed(m) \/ k < Len(rows)) => Covers(H) = Upto(k)
  BY <1>0, Loaded
<1>3. PICK R, old, new : /\ R = Rest(k) /\ old = m.old /\ new = m.new /\ old = H \o R
                         /\ R \in Seq(Plain) /\ R \in Seq(Bundles)
                         /\ old \in Seq(Bundles) /\ new \in Seq(Plain) /\ new \in Seq(Bundles)
  BY <1>0, <1>2, RestSteps, PlainLists, ManagerType
<1>o. R = Rest(k) /\ old = m.old /\ new = m.new
  BY <1>3
<1>t. /\ old = H \o R /\ R \in Seq(Plain) /\ R \in Seq(Bundles)
      /\ old \in Seq(Bundles) /\ new \in Seq(Plain) /\ new \in Seq(Bundles)
  BY <1>3
<1>4. /\ Len(H) \in Nat /\ Len(R) \in Nat /\ Len(old) = Len(H) + Len(R) /\ Len(H) <= 1 /\ Len(new) \in Nat
      /\ \A i \in 1..(Len(H) + Len(R)) : old[i] = IF i <= Len(H) THEN H[i] ELSE R[i - Len(H)]
  BY <1>2, <1>t, ConcatProperties, LenProperties
<1>5. /\ Len(old \o new) = Len(old) + Len(new) /\ old \o new \in Seq(Bundles)
      /\ \A i \in 1..(Len(old) + Len(new)) : (old \o new)[i] = IF i <= Len(old) THEN old[i] ELSE new[i - Len(old)]
  BY <1>t, ConcatProperties
<1>q. PICK q \in Nat : /\ q = from - 1 /\ q >= 1 /\ q <= Len(old) /\ q < Len(old) + Len(new) /\ from = q + 1
                       /\ from \in Nat
  <2>1. from \in 2..(Len(old) + Len(new)) /\ from - 1 <= Len(old)
    BY <1>0, <1>o, <1>5
  <2>2. from - 1 \in Nat /\ from - 1 >= 1 /\ from - 1 < Len(old) + Len(new) /\ from = (from - 1) + 1 /\ from \in Nat
    BY <1>4, <2>1
  <2> QED
    BY <2>1, <2>2
<1>p. PICK p \in 0..Len(R) : p = q - Len(H) /\ q = Len(H) + p
  <2>1. q - Len(H) \in 0..Len(R) /\ q = Len(H) + (q - Len(H))
    BY <1>4, <1>q
  <2> QED
    BY <2>1
<1>6. /\ q = from - 1 /\ q >= 1 /\ q <= Len(old) /\ q < Len(old) + Len(new) /\ from = q + 1
      /\ p = q - Len(H) /\ q = Len(H) + p /\ p \in Nat /\ p <= Len(R)
  BY <1>4, <1>q, <1>p
<1>7. PICK D, A, B, E : /\ A = SubSeq(R, 1, p) /\ B = SubSeq(R, p + 1, Len(R)) /\ A \in Seq(Plain) /\ B \in Seq(Plain)
                        /\ D = Old(old \o new, from) /\ E = Recent(old \o new, from)
                        /\ A \in Seq(Bundles) /\ B \in Seq(Bundles)
                        /\ D = H \o A /\ E = B \o new /\ old = D \o B /\ Len(A) = p
                        /\ D \in Seq(Bundles) /\ E \in Seq(Bundles) /\ D = SubSeq(old, 1, q)
  <2>1. /\ q \in 0..Len(old \o new)
        /\ q \in 0..Len(old) /\ q >= Len(H)
    BY <1>4, <1>5, <1>6
  <2>2. SubSeq(old \o new, 1, q) = SubSeq(old, 1, q)
        /\ SubSeq(old \o new, q + 1, Len(old \o new)) = SubSeq(old, q + 1, Len(old)) \o new
    <3>1. old \in Seq(Bundles) /\ new \in Seq(Bundles) /\ q <= Len(old)
      BY <1>t, <2>1
    <3> QED
      BY <2>1, <3>1, SubSeqOfJoined
  <2>3. SubSeq(H \o R, 1, q) = H \o SubSeq(R, 1, q - Len(H))
        /\ SubSeq(H \o R, q + 1, Len(H \o R)) = SubSeq(R, q - Len(H) + 1, Len(R))
    <3>1. q \in 0..Len(H \o R)
      BY <1>t, <2>1
    <3> QED
      BY <1>t, <2>1, <3>1, SubSeqOfJoined
  <2>4. SubSeq(R, 1, p) \in Seq(Plain) /\ Len(SubSeq(R, 1, p)) = p /\ SubSeq(R, p + 1, Len(R)) \in Seq(Plain)
    <3>1. \A i \in 1..Len(R) : R[i] \in Plain
      BY <1>t, ElementOfSeq
    <3>2. /\ \A i \in 1..p : R[i] \in Plain
          /\ \A i \in (p + 1)..Len(R) : R[i] \in Plain
      BY <1>4, <3>1
    <3> QED
      BY <1>4, <3>2, SubSeqProperties
  <2> DEFINE A == SubSeq(R, 1, p)
             B == SubSeq(R, p + 1, Len(R))
  <2>5. Old(old \o new, from) = H \o A /\ Recent(old \o new, from) = B \o new /\ H \o A = SubSeq(old, 1, q)
    BY <1>t, <1>6, <2>2, <2>3 DEF Old, Recent
  <2>6. R = A \o B
    BY <1>4, <1>t, SubSeqJoined
  <2>a. A \in Seq(Bundles) /\ B \in Seq(Bundles)
    BY <2>4, PlainLists
  <2> HIDE DEF A, B
  <2>7. H \o R = (H \o A) \o B
    BY <2>6, <2>a, ConcatAssociative
  <2>8. H \o A \in Seq(Bundles) /\ B \o new \in Seq(Bundles)
    BY <1>t, <2>a, ConcatProperties
  <2>9. A \in Seq(Plain) /\ B \in Seq(Plain) /\ Len(A) = p
    BY <2>4 DEF A, B
  <2> QED
    BY <1>t, <2>5, <2>7, <2>8, <2>9, <2>a DEF A, B
<1>e. /\ Len(D) = q /\ Len(D) = Len(H) + p /\ Len(D) \in Nat /\ Len(A) = p /\ D # <<>>
      /\ \A l \in 1..(Len(H) + p) : D[l] = IF l <= Len(H) THEN H[l] ELSE A[l - Len(H)]
      /\ \A l \in 1..q : D[l] = old[l]
  <2>1. D = H \o A /\ Len(A) = p /\ A \in Seq(Bundles)
    BY <1>7
  <2>2. /\ Len(D) = Len(H) + p
        /\ \A l \in 1..(Len(H) + p) : D[l] = IF l <= Len(H) THEN H[l] ELSE A[l - Len(H)]
    BY <2>1, ConcatProperties
  <2>3. old = D \o B /\ D \in Seq(Bundles) /\ B \in Seq(Bundles)
    BY <1>7
  <2>4. /\ Len(old) = Len(D) + Len(B) /\ Len(D) \in Nat /\ Len(B) \in Nat
        /\ \A l \in 1..(Len(D) + Len(B)) : old[l] = IF l <= Len(D) THEN D[l] ELSE B[l - Len(D)]
    BY <2>3, ConcatProperties, LenProperties
  <2>5. Len(D) = q /\ Len(D) # 0
    BY <1>6, <2>2
  <2>6. D # <<>>
    <3>1. Len(<<>>) = 0
      OBVIOUS
    <3> QED
      BY <2>5, <3>1
  <2>7. \A l \in 1..q : D[l] = old[l]
    BY <2>4, <2>5
  <2> QED
    BY <2>1, <2>2, <2>4, <2>5, <2>6, <2>7
<1>h. H # <<>> <=> Len(H) = 1
  <2>1. Len(<<>>) = 0
    OBVIOUS
  <2>2. H # <<>> => Len(H) \in Nat \ {0}
    BY EmptySeq
  <2>3. Len(H) \in Nat /\ Len(H) <= 1
    BY <1>4
  <2>4. ASSUME H # <<>> PROVE Len(H) = 1
    <3>1. Len(H) \in Nat \ {0}
      BY <2>2, <2>4
    <3>2. \A x \in Nat \ {0} : x <= 1 => x = 1
      OBVIOUS
    <3> QED
      BY <2>3, <3>1, <3>2
  <2>5. H = <<>> => Len(H) # 1
    BY <2>1
  <2> QED
    BY <2>4, <2>5
<1>8. PICK j \in k..n : CutBetween(R, k, p, j) \/ CutWithin(R, k, p, j)
  BY <1>0, <1>1, <1>o, Cuts
<1>9. /\ \A i \in 1..Len(new) : Placed(m) => RunAt(m.runOf, new[i]) = m.run
      /\ Resumes(m) => m.run = rows[n].run
      /\ ~Placed(m) => Resumes(m)
      /\ \A l \in (k + 1)..n : IdSet(rows[l].msgs) \cap InFlight(m) = {}
      /\ IdSet(new) \subseteq InFlight(m)
  BY <1>0, <1>1, <1>o, PlacesKnown
<1>a. \A b : \A l \in (k + 1)..n : b.id \in IdSet(rows[l].msgs) => RunAt(m.runOf, b) = rows[l].run
  BY <1>0, <1>1, PlacesKnown
<1>b. ASSUME NEW b, NEW l \in (k + 1)..n, b.id \in IdSet(rows[l].msgs)
      PROVE  RunAt(m.runOf, b) = rows[l].run
  BY <1>a, <1>b
<1>10. RunAt(m.runOf, (old \o new)[q + 1]) # RunAt(m.runOf, (old \o new)[q])
  BY <1>o, <1>6 DEF CutSetting
<1>11. p > 0 => (old \o new)[q] = R[p]
  BY <1>4, <1>5, <1>6
<1>12. CutBetween(R, k, p, j)
  <2> SUFFICES ASSUME CutWithin(R, k, p, j) PROVE FALSE
    BY <1>8
  <2>1. 0 < p /\ p < Len(R) /\ j > k /\ R[p].id \in IdSet(rows[j].msgs) /\ R[p + 1].id \in IdSet(rows[j].msgs)
    BY DEF CutWithin
  <2>2. (old \o new)[q + 1] = R[p + 1]
    BY <1>4, <1>5, <1>6, <2>1
  <2>3. j \in (k + 1)..n
    BY <1>1, <2>1
  <2>4. RunAt(m.runOf, R[p]) = rows[j].run /\ RunAt(m.runOf, R[p + 1]) = rows[j].run
    BY <1>b, <2>1, <2>3
  <2> QED
    BY <1>10, <1>11, <2>1, <2>2, <2>4
<1>13. /\ B = Rest(j) /\ Upto(k) \o Ids(A) = Upto(j)
       /\ p = 0 => j = k
       /\ p > 0 => /\ j > k /\ j \in (k + 1)..n /\ R[p].id \in IdSet(rows[j].msgs) /\ RunAt(m.runOf, R[p]) = rows[j].run
  <2>1. /\ B = Rest(j) /\ Upto(k) \o Ids(A) = Upto(j)
        /\ p = 0 => j = k
        /\ p > 0 => j > k /\ R[p].id \in IdSet(rows[j].msgs)
    BY <1>7, <1>12 DEF CutBetween
  <2>2. p > 0 => j \in (k + 1)..n
    BY <1>1, <2>1
  <2>3. p > 0 => RunAt(m.runOf, R[p]) = rows[j].run
    BY <1>b, <2>1, <2>2
  <2> QED
    BY <2>1, <2>2, <2>3
<1>14. Kept(m, E) = Rest(j)
  <2>1. IdSet(Rest(j)) \cap InFlight(m) = {}
    <3> SUFFICES ASSUME NEW x \in IdSet(Rest(j)) PROVE x \notin InFlight(m)
      OBVIOUS
    <3>1. PICK i \in DOMAIN Rest(j) : x = Rest(j)[i].id
      BY DEF IdSet
    <3>2. j \in 0..Len(rows)
      BY <1>1
    <3>3. PICK l \in (j + 1)..Len(rows) : x \in IdSet(rows[l].msgs)
      BY <1>0, <3>1, <3>2, UptoAndRest
    <3>4. l \in (k + 1)..n
      BY <1>1
    <3> QED
      BY <1>9, <3>3, <3>4
  <2>2. B \in Seq(Bundles) /\ IdSet(B) \cap InFlight(m) = {}
    BY <1>7, <1>13, <2>1, PlainLists
  <2>3. Kept(m, B \o new) = B
    BY <1>t, <1>9, <2>2, KeptPart
  <2> QED
    BY <1>7, <1>13, <2>3
<1>15. ASSUME Placed(m), Resumes(m) PROVE j < n
  <2> SUFFICES ASSUME j = n PROVE FALSE
    BY <1>1
  <2>1. k < n
    BY <1>0, <1>1, <1>15 DEF Holds
  <2>2. p > 0
    BY <1>13, <2>1
  <2>3. B = <<>>
    <3>1. j \in 0..Len(rows) /\ j = Len(rows)
      BY <1>1
    <3> QED
      BY <1>0, <1>13, <3>1, RestSteps
  <2>4. p = Len(R)
    <3>1. Len(B) = Len(R) - p
      <4>1. Len(old) = Len(D) + Len(B) /\ Len(D) = Len(H) + Len(A)
        BY <1>t, <1>7, ConcatProperties
      <4>2. Len(B) \in Nat
        BY <1>7, LenProperties
      <4> QED
        BY <1>4, <1>7, <4>1, <4>2
    <3> QED
      BY <1>4, <2>3, <3>1, EmptySeq
  <2>5. (old \o new)[q + 1] = new[1] /\ 1 \in 1..Len(new)
    <3>1. q = Len(old)
      BY <1>4, <1>6, <2>4
    <3>2. q + 1 \in 1..(Len(old) + Len(new)) /\ ~(q + 1 <= Len(old)) /\ q + 1 - Len(old) = 1 /\ 1 \in 1..Len(new)
      BY <1>4, <1>6, <3>1
    <3> QED
      BY <1>5, <3>2
  <2>6. RunAt(m.runOf, new[1]) = m.run /\ m.run = rows[n].run
    BY <1>9, <1>15, <2>5
  <2> QED
    BY <1>10, <1>11, <1>13, <2>2, <2>5, <2>6
<1>16. PICK L : L = LastNamed(m.runOf, D)
  OBVIOUS
<1>17. L \in Int /\ (L > 0 => p > 0 /\ L = rows[j].run)
  <2>1. \/ L = NoRun
        \/ \E i \in 1..Len(D) : /\ L = RunAt(m.runOf, D[i]) /\ L # NoRun
                                /\ \A l \in 1..Len(D) : l > i => RunAt(m.runOf, D[l]) = NoRun
    BY <1>7, <1>16, LastNamedIs
  <2>2. CASE L = NoRun
    BY <2>2 DEF NoRun
  <2>3. ASSUME NEW i \in 1..Len(D), L = RunAt(m.runOf, D[i]), L # NoRun,
               \A l \in 1..Len(D) : l > i => RunAt(m.runOf, D[l]) = NoRun
        PROVE  L \in Int /\ (L > 0 => p > 0 /\ L = rows[j].run)
    <3>0. L \in Int
      BY <1>0, <2>3, ManagerType
    <3>1. SUFFICES ASSUME L > 0 PROVE p > 0 /\ L = rows[j].run
      BY <3>0
    <3>2. /\ Len(D) = q /\ Len(D) = Len(H) + p /\ D[q] = old[q]
          /\ \A l \in 1..Len(H) : D[l] = H[l] /\ old[l] = H[l]
      <4>1. \A l \in 1..Len(H) : l \in 1..(Len(H) + p) /\ l \in 1..(Len(H) + Len(R)) /\ l <= Len(H)
        BY <1>4, <1>6
      <4>2. q \in 1..q
        BY <1>6
      <4> QED
        BY <1>4, <1>e, <4>1, <4>2
    <3>3. p > 0
      <4> SUFFICES ASSUME p = 0 PROVE FALSE
        BY <1>4
      <4>1. i = 1 /\ Len(H) = 1 /\ 1 \in 1..Len(H)
        BY <1>4, <1>6, <3>2
      <4>2. H # <<>>
        BY <1>h, <4>1
      <4>3. HeadInv(m, old[1], k) /\ D[1] = old[1]
        BY <1>2, <1>o, <3>2, <4>1, <4>2
      <4>4. RunAt(m.runOf, D[1]) <= 0
        BY <4>3 DEF HeadInv
      <4> QED
        BY <2>3, <3>0, <3>1, <4>1, <4>4
    <3>4. D[q] = R[p] /\ q \in 1..Len(D)
      BY <1>4, <1>6, <3>2, <3>3
    <3>5. RunAt(m.runOf, D[q]) = rows[j].run
      BY <1>13, <3>3, <3>4
    <3>6. rows[j].run \in Nat \ {0}
      <4>1. j \in 1..Len(rows)
        BY <1>1, <1>13, <3>3
      <4> QED
        BY <1>0, <4>1, RowType
    <3>7. ~(q > i)
      BY <2>3, <3>4, <3>5, <3>6 DEF NoRun
    <3>8. i = q
      BY <1>6, <3>2, <3>7
    <3> QED
      BY <2>3, <3>3, <3>5, <3>8
  <2> QED
    BY <2>1, <2>2, <2>3
<1>18. ASSUME L > 0, L # m.run PROVE j > 0 /\ L = rows[j].run /\ rows[j].complete /\ k < n
  <2>1. p > 0 /\ L = rows[j].run
    BY <1>17, <1>18
  <2>2. j > k /\ j \in (k + 1)..n /\ j > 0
    BY <1>1, <1>13, <2>1
  <2>3. rows[j].complete
    <3>1. CASE j = n
      <4>1. n # 0 /\ rows # <<>>
        BY <1>0, <1>1, <2>2, EmptySeq
      <4>2. ~Resumes(m)
        BY <1>9, <1>18, <2>1, <3>1
      <4> QED
        BY <1>1, <3>1, <4>1, <4>2 DEF Resumes
    <3>2. CASE j # n
      <4>1. j \in DOMAIN rows /\ n \in DOMAIN rows /\ j < n
        BY <1>0, <1>1, <2>2, <3>2, RowType
      <4> QED
        BY <1>0, <4>1 DEF RowsInv
    <3> QED
      BY <3>1, <3>2
  <2> QED
    BY <1>1, <2>1, <2>2, <2>3
<1>19. ASSUME settings.kind = "llm", Placed(m) \/ j < n \/ (L > 0 /\ L # m.run) PROVE Covers(D) = Upto(j)
  <2>1. Placed(m) \/ k < n
    BY <1>1, <1>18, <1>19
  <2>2. Covers(H) = Upto(k)
    BY <1>1, <1>2, <1>19, <2>1
  <2>3. Covers(A) = Ids(A)
    BY <1>7, CoversPlain
  <2>4. Covers(D) = Covers(H) \o Covers(A)
    BY <1>7, CoversConcat, PlainLists
  <2> QED
    BY <1>13, <2>2, <2>3, <2>4
<1>w. PICK w \in Measures : w = m.measured
  BY <1>0, ManagerType
<1>20. Total(w, B) + (IF settings.kind = "llm" THEN 1 ELSE 0) <= Total(w, old)
  <2>1. Total(w, old) = Total(w, D) + Total(w, B) /\ Total(w, D) \in Nat /\ Total(w, B) \in Nat
    BY <1>7, TotalConcat, TotalType, PlainLists
  <2>2. CASE settings.kind = "llm"
    <3>0. 1 \in 1..(Len(H) + p) /\ 1 \in 1..q
      BY <1>6, <1>e
    <3>1. D[1].kind # "empty"
      <4>1. CASE H = <<>>
        <5>1. Len(H) = 0 /\ 1 \in 1..Len(A)
          <6>1. Len(<<>>) = 0
            OBVIOUS
          <6> QED
            BY <1>6, <1>e, <4>1, <6>1
        <5>2. D[1] = A[1]
          BY <1>e, <3>0, <5>1
        <5>3. A[1] \in Plain
          BY <1>7, <5>1, ElementOfSeq
        <5> QED
          BY <5>2, <5>3, StandsType
      <4>2. CASE H # <<>>
        <5>1. D[1] = old[1]
          BY <1>e, <3>0
        <5>2. HeadInv(m, old[1], k)
          BY <1>2, <1>o, <4>2
        <5>3. old[1].kind = "summary"
          BY <2>2, <5>2 DEF HeadInv
        <5> QED
          BY <5>1, <5>3
      <4> QED
        BY <4>1, <4>2
    <3>2. Total(w, D) >= 1
      BY <1>7, <1>e, <3>1, TotalOfSome
    <3> QED
      BY <2>1, <2>2, <3>2
  <2>3. CASE settings.kind # "llm"
    BY <2>1, <2>3
  <2> QED
    BY <2>2, <2>3
<1>21. SummaryCutAt(m, from, j)
  <2>1. D = Old(m.old \o m.new, from) /\ E = Recent(m.old \o m.new, from)
    BY <1>o, <1>7
  <2>2. L = LastNamed(m.runOf, Old(m.old \o m.new, from))
    BY <1>16, <2>1
  <2>3. Total(m.measured, Rest(j)) + (IF settings.kind = "llm" THEN 1 ELSE 0) <= Total(m.measured, m.old)
    BY <1>13, <1>20, <1>o, <1>w
  <2> QED
    BY <1>1, <1>7, <1>14, <1>15, <1>17, <1>18, <1>19, <2>1, <2>2, <2>3 DEF SummaryCutAt
<1> QED
  BY <1>1, <1>21

\* The rest of the thread is empty only at its end, and ends with the last run.
LEMMA RestEnds ==
  ASSUME rows \in Seq(Rows), NEW k \in 0..Len(rows)
  PROVE  /\ Rest(k) = <<>> => k = Len(rows)
         /\ Rest(k) # <<>> => Rest(k)[Len(Rest(k))].id \in IdSet(rows[Len(rows)].msgs)
<1>1. PICK n \in Nat : n = Len(rows) /\ k \in 0..n
  BY RowType
<1>2. ASSUME NEW j \in 0..n, Rest(j) = <<>> PROVE j = n
  <2> SUFFICES ASSUME j < n PROVE FALSE
    OBVIOUS
  <2>1. j + 1 \in 1..Len(rows) /\ j \in 0..Len(rows) /\ j + 1 \in 0..Len(rows) /\ j < Len(rows)
    BY <1>1
  <2>2. PICK x \in Seq(Plain), y \in Seq(Plain) : x = rows[j + 1].msgs /\ y = Rest(j + 1) /\ x # <<>>
    BY <2>1, RowType, RestSteps
  <2>3. Rest(j) = x \o y
    BY <2>1, <2>2, RestSteps
  <2>4. x \o y # <<>>
    BY <2>2, ConcatEqualIffEmpty
  <2> QED
    BY <1>2, <2>3, <2>4
<1>3. ASSUME Rest(k) # <<>> PROVE Rest(k)[Len(Rest(k))].id \in IdSet(rows[n].msgs)
  <2>1. PICK R : R = Rest(k) /\ R \in Seq(Plain) /\ R # <<>>
    BY <1>3, RestSteps
  <2>2. Len(R) \in Nat \ {0}
    BY <2>1, EmptySeq
  <2>3. PICK p \in 0..Len(R) : p = Len(R) /\ p > 0
    BY <2>2
  <2>4. PICK j \in k..n : CutBetween(R, k, p, j) \/ CutWithin(R, k, p, j)
    BY <1>1, <2>1, Cuts
  <2>5. ~CutWithin(R, k, p, j)
    BY <2>2, <2>3 DEF CutWithin
  <2>6. SubSeq(R, p + 1, Len(R)) = <<>>
    <3>1. p + 1 \in Int /\ Len(R) \in Int /\ Len(R) < p + 1
      BY <2>2, <2>3
    <3> QED
      BY <3>1, SubSeqEmpty
  <2>7. Rest(j) = <<>> /\ R[p].id \in IdSet(rows[j].msgs)
    BY <2>3, <2>4, <2>5, <2>6 DEF CutBetween
  <2>8. j \in 0..n
    BY <1>1
  <2>9. j = n
    BY <1>2, <2>7, <2>8
  <2> QED
    BY <2>1, <2>3, <2>7, <2>9
<1> QED
  BY <1>1, <1>2, <1>3

\* A cut within what is in flight is possible only when the manager cannot place
\* all of it; it names no other run than the one in flight.
LEMMA CutInFlight ==
  ASSUME NEW m, NEW k, NEW from, CutSetting(m, k, from), from - 1 > Len(m.old)
  PROVE  SummaryCutAt(m, from, Len(rows))
<1>0. /\ rows \in Seq(Rows) /\ RowsInv /\ settings.kind \in {"llm", "window"}
      /\ m \in Managers /\ RunInv(m) /\ FlightInv(m) /\ MapInv(m)
      /\ k \in 0..Len(rows) /\ Holds(m, k) /\ from \in 2..Len(m.old \o m.new)
  BY DEF CutSetting
<1>1. PICK n \in Nat : n = Len(rows) /\ k \in 0..n
  BY <1>0, RowType
<1>2. PICK H \in Seq(Bundles) :
           /\ m.old = H \o Rest(k) /\ Len(H) <= 1
           /\ H = <<>> => (settings.kind = "llm" => k = 0)
           /\ H # <<>> => H = <<m.old[1]>> /\ HeadInv(m, m.old[1], k)
           /\ settings.kind = "llm" /\ (Placed(m) \/ k < Len(rows)) => Covers(H) = Upto(k)
  BY <1>0, Loaded
<1>3. PICK R, old, new : /\ R = Rest(k) /\ old = m.old /\ new = m.new /\ old = H \o R
                         /\ R \in Seq(Plain) /\ R \in Seq(Bundles)
                         /\ old \in Seq(Bundles) /\ new \in Seq(Plain) /\ new \in Seq(Bundles)
  BY <1>0, <1>2, RestSteps, PlainLists, ManagerType
<1>o. R = Rest(k) /\ old = m.old /\ new = m.new
  BY <1>3
<1>t. /\ old = H \o R /\ R \in Seq(Plain) /\ R \in Seq(Bundles)
      /\ old \in Seq(Bundles) /\ new \in Seq(Plain) /\ new \in Seq(Bundles)
  BY <1>3
<1>4. /\ Len(H) \in Nat /\ Len(R) \in Nat /\ Len(old) = Len(H) + Len(R) /\ Len(H) <= 1 /\ Len(new) \in Nat
      /\ \A i \in 1..(Len(H) + Len(R)) : old[i] = IF i <= Len(H) THEN H[i] ELSE R[i - Len(H)]
  BY <1>2, <1>t, ConcatProperties, LenProperties
<1>5. /\ Len(old \o new) = Len(old) + Len(new) /\ old \o new \in Seq(Bundles)
      /\ \A i \in 1..(Len(old) + Len(new)) : (old \o new)[i] = IF i <= Len(old) THEN old[i] ELSE new[i - Len(old)]
  BY <1>t, ConcatProperties
<1>q. PICK q \in Nat : /\ q = from - 1 /\ q > Len(old) /\ q < Len(old) + Len(new) /\ from = q + 1
                       /\ from \in Nat
  <2>1. from \in 2..(Len(old) + Len(new)) /\ from - 1 > Len(old)
    BY <1>0, <1>o, <1>5
  <2>2. from - 1 \in Nat /\ from - 1 < Len(old) + Len(new) /\ from = (from - 1) + 1 /\ from \in Nat
    BY <1>4, <2>1
  <2> QED
    BY <2>1, <2>2
<1>r. PICK r \in 1..Len(new) : r = q - Len(old) /\ q = Len(old) + r /\ r + 1 \in 1..Len(new)
  <2>1. q - Len(old) \in 1..Len(new) /\ q = Len(old) + (q - Len(old)) /\ (q - Len(old)) + 1 \in 1..Len(new)
    BY <1>4, <1>q
  <2> QED
    BY <2>1
<1>6. (old \o new)[q] = new[r] /\ (old \o new)[q + 1] = new[r + 1]
  <2>1. /\ q \in 1..(Len(old) + Len(new)) /\ ~(q <= Len(old)) /\ q - Len(old) = r
        /\ q + 1 \in 1..(Len(old) + Len(new)) /\ ~(q + 1 <= Len(old)) /\ (q + 1) - Len(old) = r + 1
    BY <1>4, <1>q, <1>r
  <2> QED
    BY <1>5, <2>1
<1>a. \A b : \A l \in (k + 1)..n : b.id \in IdSet(rows[l].msgs) => RunAt(m.runOf, b) = rows[l].run
  BY <1>0, <1>1, PlacesKnown
<1>b. /\ \A i \in 1..Len(new) : /\ RunAt(m.runOf, new[i]) \in {NoRun, m.run}
                                /\ Placed(m) => RunAt(m.runOf, new[i]) = m.run
      /\ ~Placed(m) => Resumes(m)
      /\ IdSet(new) \subseteq InFlight(m)
  BY <1>0, <1>o, PlacesKnown
<1>7. ~Placed(m) /\ Resumes(m) /\ m.run = rows[n].run /\ n # 0
  <2>1. RunAt(m.runOf, (old \o new)[q + 1]) # RunAt(m.runOf, (old \o new)[q])
    BY <1>o, <1>q DEF CutSetting
  <2>2. ~Placed(m)
    BY <1>6, <1>b, <1>r, <2>1
  <2>3. Resumes(m)
    BY <1>b, <2>2
  <2>4. m.run = rows[n].run
    BY <1>0, <1>1, <2>3, PlacesKnown
  <2>5. n # 0
    BY <1>0, <1>1, <2>3, EmptySeq DEF Resumes
  <2> QED
    BY <2>2, <2>3, <2>4, <2>5
<1>8. PICK D, N, E : /\ D = Old(old \o new, from) /\ E = Recent(old \o new, from)
                     /\ D = old \o N /\ new = N \o E /\ Len(N) = r
                     /\ D \in Seq(Bundles) /\ N \in Seq(Bundles) /\ E \in Seq(Bundles)
  <2>0. q \in 0..Len(old \o new)
    BY <1>4, <1>5, <1>q
  <2>1. old \in Seq(Bundles) /\ new \in Seq(Bundles) /\ q >= Len(old)
    BY <1>t, <1>q
  <2>2. /\ SubSeq(old \o new, 1, q) = old \o SubSeq(new, 1, q - Len(old))
        /\ SubSeq(old \o new, q + 1, Len(old \o new)) = SubSeq(new, q - Len(old) + 1, Len(new))
    BY <2>0, <2>1, SubSeqOfJoined
  <2>3. SubSeq(new, 1, r) \in Seq(Bundles) /\ Len(SubSeq(new, 1, r)) = r /\ SubSeq(new, r + 1, Len(new)) \in Seq(Bundles)
    <3>1. \A i \in 1..Len(new) : new[i] \in Bundles
      BY <1>t, ElementOfSeq
    <3>2. /\ \A i \in 1..r : new[i] \in Bundles
          /\ \A i \in (r + 1)..Len(new) : new[i] \in Bundles
      BY <1>4, <3>1
    <3> QED
      BY <1>4, <3>2, SubSeqProperties
  <2> DEFINE N == SubSeq(new, 1, r)
             E == SubSeq(new, r + 1, Len(new))
  <2>4. Old(old \o new, from) = old \o N /\ Recent(old \o new, from) = E
    BY <1>q, <1>r, <2>2 DEF Old, Recent
  <2>5. new = N \o E
    <3>1. r \in 0..Len(new)
      BY <1>4
    <3> QED
      BY <1>t, <3>1, SubSeqJoined
  <2> HIDE DEF N, E
  <2>6. N \in Seq(Bundles) /\ E \in Seq(Bundles) /\ Len(N) = r
    BY <2>3 DEF N, E
  <2>7. old \o N \in Seq(Bundles)
    BY <1>t, <2>6, ConcatProperties
  <2> QED
    BY <2>4, <2>5, <2>6, <2>7
<1>9. Kept(m, E) = Rest(n)
  <2>1. E \in Seq(Bundles) /\ N \in Seq(Bundles) /\ new = N \o E
    BY <1>8
  <2>2. IdSet(E) \subseteq InFlight(m)
    BY <1>b, <2>1, IdSetConcat
  <2>3. <<>> \in Seq(Bundles) /\ IdSet(<<>>) \cap InFlight(m) = {}
    BY IdSetNothing, EmptySeq
  <2>4. Kept(m, <<>> \o E) = <<>>
    BY <2>1, <2>2, <2>3, KeptPart
  <2>5. <<>> \o E = E
    BY <2>1, ConcatEmptySeq
  <2>6. Rest(n) = <<>>
    <3>1. n \in 0..Len(rows) /\ n = Len(rows)
      BY <1>1
    <3> QED
      BY <1>0, <3>1, RestSteps
  <2> QED
    BY <2>4, <2>5, <2>6
<1>e. /\ Len(D) = Len(old) + r /\ Len(D) \in Nat
      /\ \A i \in 1..(Len(old) + r) : D[i] = IF i <= Len(old) THEN old[i] ELSE N[i - Len(old)]
      /\ \A i \in 1..r : N[i] = new[i]
  <2>1. D = old \o N /\ N \in Seq(Bundles) /\ Len(N) = r /\ new = N \o E /\ E \in Seq(Bundles)
    BY <1>8
  <2>o. old \in Seq(Bundles)
    BY <1>t
  <2>2. /\ Len(D) = Len(old) + Len(N) /\ Len(D) \in Nat
        /\ \A i \in 1..(Len(old) + Len(N)) : D[i] = IF i <= Len(old) THEN old[i] ELSE N[i - Len(old)]
    <3>1. /\ Len(old \o N) = Len(old) + Len(N) /\ old \o N \in Seq(Bundles)
          /\ \A i \in 1..(Len(old) + Len(N)) : (old \o N)[i] = IF i <= Len(old) THEN old[i] ELSE N[i - Len(old)]
      BY <2>1, <2>o, ConcatProperties
    <3>2. Len(old \o N) \in Nat
      BY <3>1, LenProperties
    <3> QED
      BY <2>1, <3>1, <3>2
  <2>3. \A i \in 1..(Len(N) + Len(E)) : new[i] = IF i <= Len(N) THEN N[i] ELSE E[i - Len(N)]
    BY <2>1, ConcatProperties
  <2>4. Len(E) \in Nat
    BY <2>1, LenProperties
  <2> QED
    BY <2>1, <2>2, <2>3, <2>4
<1>10. PICK L : L = LastNamed(m.runOf, D)
  OBVIOUS
<1>11. L \in Int /\ (L > 0 => L = m.run)
  <2>1. \/ L = NoRun
        \/ \E i \in 1..Len(D) : /\ L = RunAt(m.runOf, D[i]) /\ L # NoRun
                                /\ \A l \in 1..Len(D) : l > i => RunAt(m.runOf, D[l]) = NoRun
    BY <1>8, <1>10, LastNamedIs
  <2>2. CASE L = NoRun
    BY <2>2 DEF NoRun
  <2>3. ASSUME NEW i \in 1..Len(D), L = RunAt(m.runOf, D[i]), L # NoRun,
               \A l \in 1..Len(D) : l > i => RunAt(m.runOf, D[l]) = NoRun
        PROVE  L \in Int /\ (L > 0 => L = m.run)
    <3>0. L \in Int
      BY <1>0, <2>3, ManagerType
    <3>1. SUFFICES ASSUME L > 0 PROVE L = m.run
      BY <3>0
    <3>2. CASE i > Len(old)
      <4>1. i - Len(old) \in 1..r /\ i - Len(old) \in 1..Len(new) /\ i \in 1..(Len(old) + r) /\ ~(i <= Len(old))
        BY <1>4, <1>e, <3>2
      <4>2. D[i] = new[i - Len(old)]
        BY <1>e, <4>1
      <4>3. RunAt(m.runOf, D[i]) \in {NoRun, m.run}
        BY <1>b, <4>1, <4>2
      <4> QED
        BY <2>3, <4>3
    <3>3. CASE i <= Len(H)
      <4>0. Len(H) \in Nat /\ Len(R) \in Nat /\ Len(old) = Len(H) + Len(R) /\ Len(H) <= 1 /\ Len(D) = Len(old) + r
        BY <1>4, <1>e
      <4>h. \A x \in Nat : x <= 1 /\ i <= x => x = 1 /\ i = 1
        OBVIOUS
      <4>1. i = 1 /\ Len(H) = 1
        BY <3>3, <4>0, <4>h
      <4>i. 1 \in 1..(Len(old) + r) /\ 1 <= Len(old)
        BY <4>0, <4>1
      <4>2. H # <<>>
        <5>1. Len(<<>>) = 0
          OBVIOUS
        <5>2. H = <<>> => Len(H) # 1
          BY <5>1
        <5> QED
          BY <4>1, <5>2
      <4>3. HeadInv(m, old[1], k)
        BY <1>2, <1>o, <4>2
      <4>4. RunAt(m.runOf, old[1]) <= 0
        BY <4>3 DEF HeadInv
      <4>5. D[i] = old[1]
        BY <1>e, <4>1, <4>i
      <4> QED
        BY <2>3, <3>0, <3>1, <4>4, <4>5
    <3>4. CASE i <= Len(old) /\ i > Len(H)
      <4>1. \A l \in (Len(H) + 1)..Len(old) : l \in 1..Len(D) /\ D[l] = R[l - Len(H)] /\ l - Len(H) \in 1..Len(R)
        <5> TAKE l \in (Len(H) + 1)..Len(old)
        <5>1. /\ l \in 1..(Len(old) + r) /\ l <= Len(old) /\ l \in 1..(Len(H) + Len(R)) /\ ~(l <= Len(H))
              /\ l - Len(H) \in 1..Len(R) /\ l \in 1..Len(D)
          BY <1>4, <1>e
        <5>2. D[l] = old[l] /\ old[l] = R[l - Len(H)]
          BY <1>4, <1>e, <5>1
        <5> QED
          BY <5>1, <5>2
      <4>2. PICK t : t = Len(old) /\ t \in (Len(H) + 1)..Len(old)
        BY <1>4, <3>4
      <4>3. D[t] = R[Len(R)] /\ t \in 1..Len(D) /\ R # <<>>
        <5>1. t - Len(H) = Len(R) /\ Len(R) # 0
          BY <1>4, <4>2
        <5>2. R # <<>>
          <6>1. Len(<<>>) = 0
            OBVIOUS
          <6> QED
            BY <5>1, <6>1
        <5> QED
          BY <4>1, <4>2, <5>1, <5>2
      <4>4. R[Len(R)].id \in IdSet(rows[n].msgs)
        BY <1>0, <1>1, <1>o, <4>3, RestEnds
      <4>5. n \in (k + 1)..n
        <5>1. k # n
          <6>1. k = n => R = <<>>
            BY <1>0, <1>1, <1>o, RestSteps
          <6> QED
            BY <4>3, <6>1
        <5> QED
          BY <1>1, <5>1
      <4>6. RunAt(m.runOf, D[t]) = rows[n].run
        BY <1>a, <4>3, <4>4, <4>5
      <4>7. rows[n].run # NoRun
        <5>1. n \in 1..Len(rows)
          BY <1>1, <1>7
        <5> QED
          BY <1>0, <5>1, RowType DEF NoRun
      <4>8. ~(t > i)
        BY <2>3, <4>3, <4>6, <4>7
      <4>9. i = t
        BY <1>4, <3>4, <4>2, <4>8
      <4> QED
        BY <1>7, <2>3, <4>6, <4>9
    <3>5. i > Len(old) \/ i <= Len(H) \/ (i <= Len(old) /\ i > Len(H))
      BY <1>4, <1>e
    <3> QED
      BY <3>2, <3>3, <3>4, <3>5
  <2> QED
    BY <2>1, <2>2, <2>3
<1>w. PICK w \in Measures : w = m.measured
  BY <1>0, ManagerType
<1>12. Total(w, Rest(n)) + (IF settings.kind = "llm" THEN 1 ELSE 0) <= Total(w, old)
  <2>1. Total(w, old) \in Nat /\ Total(w, Rest(n)) = 0
    <3>1. Rest(n) = <<>>
      <4>1. n \in 0..Len(rows) /\ n = Len(rows)
        BY <1>1
      <4> QED
        BY <1>0, <4>1, RestSteps
    <3> QED
      BY <1>t, <3>1, TotalNothing, TotalType
  <2>2. CASE settings.kind = "llm"
    <3>1. old # <<>> /\ old[1].kind # "empty"
      <4>0. Len(<<>>) = 0
        OBVIOUS
      <4>1. CASE H = <<>>
        <5>1. R # <<>>
          <6>1. k = 0
            BY <1>2, <2>2, <4>1
          <6> QED
            BY <1>0, <1>1, <1>7, <1>o, <6>1, RestEnds
        <5>2. old = R
          BY <1>t, <4>1, ConcatEmptySeq
        <5>3. Len(R) \in Nat \ {0}
          BY <1>t, <5>1, EmptySeq
        <5>4. 1 \in 1..Len(R)
          BY <5>3
        <5>5. R[1] \in Plain
          BY <1>t, <5>4, ElementOfSeq
        <5> QED
          BY <5>1, <5>2, <5>5, StandsType
      <4>2. CASE H # <<>>
        <5>1. HeadInv(m, old[1], k)
          BY <1>2, <1>o, <4>2
        <5>2. old[1].kind = "summary"
          BY <2>2, <5>1 DEF HeadInv
        <5>3. old # <<>>
          BY <1>t, <4>2, ConcatEqualIffEmpty
        <5> QED
          BY <5>2, <5>3
      <4> QED
        BY <4>1, <4>2
    <3>2. Total(w, old) >= 1
      BY <1>t, <3>1, TotalOfSome
    <3> QED
      BY <2>1, <2>2, <3>2
  <2>3. CASE settings.kind # "llm"
    BY <2>1, <2>3
  <2> QED
    BY <2>2, <2>3
<1> QED
  <2>1. D = Old(m.old \o m.new, from) /\ E = Recent(m.old \o m.new, from)
    BY <1>o, <1>8
  <2>2. L = LastNamed(m.runOf, Old(m.old \o m.new, from))
    BY <1>10, <2>1
  <2>3. Total(m.measured, Rest(n)) + (IF settings.kind = "llm" THEN 1 ELSE 0) <= Total(m.measured, m.old)
    BY <1>12, <1>o, <1>w
  <2>4. ~(n < n) /\ ~(L > 0 /\ L # m.run)
    BY <1>11
  <2> QED
    BY <1>1, <1>7, <1>8, <1>9, <1>11, <2>1, <2>2, <2>3, <2>4 DEF SummaryCutAt

\* Every cut of a summariser has that form.
LEMMA SummaryCut ==
  ASSUME NEW m, NEW k, NEW from, CutSetting(m, k, from)
  PROVE  \E j \in k..Len(rows) : SummaryCutAt(m, from, j)
<1>1. k \in 0..Len(rows) /\ Len(rows) \in Nat /\ Len(m.old) \in Nat /\ from \in Int
  <2>1. m.old \in Seq(Bundles)
    BY ManagerType DEF CutSetting
  <2> QED
    BY <2>1, RowType, LenProperties DEF CutSetting
<1>2. CASE from - 1 <= Len(m.old)
  BY <1>2, CutLoaded
<1>3. CASE from - 1 > Len(m.old)
  BY <1>1, <1>3, CutInFlight
<1> QED
  BY <1>1, <1>2, <1>3

-----------------------------------------------------------------------------
(* What steps do to the manager.                                           *)

\* What the manager's invariant says depends on the thread and the settings only.
LEMMA SameThread ==
  ASSUME rows' = rows, settings' = settings
  PROVE  /\ RowsInv' = RowsInv
         /\ \A r : ResultInv(r)' = ResultInv(r)
         /\ \A m : ManagerInv(m)' = ManagerInv(m)
         /\ \A m : Begun(m)' = Begun(m)
<1>1. \A k : Upto(k)' = Upto(k) /\ Rest(k)' = Rest(k)
  BY DEF Upto, Rest
<1>2. \A r : Position(r)' = Position(r)
  BY DEF Position
<1>3. \A r : ResultInv(r)' = ResultInv(r)
  BY <1>1, <1>2 DEF ResultInv
<1>4. \A m : Resumes(m)' = Resumes(m)
  BY DEF Resumes
<1>5. \A m : \A k : Holds(m, k)' = Holds(m, k)
  BY <1>1 DEF Holds, HeadInv, Placed, Resumes
<1>6. \A m : RunInv(m)' = RunInv(m) /\ FlightInv(m)' = FlightInv(m) /\ MapInv(m)' = MapInv(m)
  BY DEF RunInv, FlightInv, MapInv, Resumes, Placed
<1>7. RowsInv' = RowsInv
  BY DEF RowsInv
<1>8. \A m : ManagerInv(m)' = ManagerInv(m)
  BY <1>3, <1>5, <1>6 DEF ManagerInv
<1>9. \A m : Begun(m)' = Begun(m)
  BY <1>4 DEF Begun
<1> QED
  BY <1>3, <1>7, <1>8, <1>9

\* What is in flight may move from the queue to the save buffer, and a summary may
\* be saved.
LEMMA MovesOn ==
  ASSUME NEW m \in Managers, NEW m2 \in Managers, ManagerInv(m),
         m2.run = m.run, m2.old = m.old, m2.runOf = m.runOf, m2.summaries \in {m.summaries, NoResult},
         \/ m2.new = m.new /\ m2.queue = m.queue
         \/ m2.new = m.new \o m.queue /\ m2.queue = <<>>
  PROVE  /\ ManagerInv(m2)
         /\ Placed(m2) = Placed(m) /\ IdSet(m2.new) \cup IdSet(m2.queue) = IdSet(m.new) \cup IdSet(m.queue)
<1>1. /\ IdSet(m2.new) \cup IdSet(m2.queue) = IdSet(m.new) \cup IdSet(m.queue)
      /\ IdSet(m.new) \cap IdSet(m.queue) = {} => IdSet(m2.new) \cap IdSet(m2.queue) = {}
  <2>1. CASE m2.new = m.new /\ m2.queue = m.queue
    BY <2>1
  <2>2. CASE m2.new = m.new \o m.queue /\ m2.queue = <<>>
    <3>1. IdSet(m2.new) = IdSet(m.new) \cup IdSet(m.queue) /\ IdSet(m2.queue) = {}
      BY <2>2, ManagerType, IdSetConcat, IdSetNothing
    <3> QED
      BY <3>1
  <2> QED
    BY <2>1, <2>2
<1>2. Placed(m2) = Placed(m) /\ Resumes(m2) = Resumes(m)
  BY <1>1 DEF Placed, Resumes
<1>3. RunInv(m2)
  BY <1>2 DEF ManagerInv, RunInv
<1>4. FlightInv(m2)
  BY <1>1 DEF ManagerInv, FlightInv
<1>5. MapInv(m2)
  BY <1>1, <1>2 DEF ManagerInv, MapInv
<1>6. \A k : Holds(m, k) => Holds(m2, k)
  BY <1>2 DEF Holds, HeadInv
<1>7. ResultInv(m2.summaries)
  BY DEF ManagerInv, ResultInv
<1> QED
  BY <1>1, <1>2, <1>3, <1>4, <1>5, <1>6, <1>7 DEF ManagerInv

\* A bundle nobody has seen arrives, and the manager places it in the run.
LEMMA Arrives ==
  ASSUME rows \in Seq(Rows), NEW m \in Managers, NEW m2 \in Managers, NEW b \in Plain, ManagerInv(m),
         b.id \notin DOMAIN m.runOf, b.id \notin IdSet(m.new) \cup IdSet(m.queue),
         \A i \in DOMAIN rows : b.id \notin IdSet(rows[i].msgs),
         m2.run = m.run, m2.old = m.old, m2.summaries = m.summaries,
         DOMAIN m2.runOf = DOMAIN m.runOf \cup {b.id}, m2.runOf[b.id] = m.run,
         \A x \in DOMAIN m.runOf : m2.runOf[x] = m.runOf[x],
         \/ m2.new = Append(m.new, b) /\ m2.queue = m.queue
         \/ m2.new = m.new /\ m2.queue = Append(m.queue, b)
  PROVE  /\ ManagerInv(m2)
         /\ IdSet(m2.new) \cup IdSet(m2.queue) = IdSet(m.new) \cup IdSet(m.queue) \cup {b.id}
<1>1. /\ IdSet(m2.new) \cup IdSet(m2.queue) = IdSet(m.new) \cup IdSet(m.queue) \cup {b.id}
      /\ IdSet(m.new) \cap IdSet(m.queue) = {} => IdSet(m2.new) \cap IdSet(m2.queue) = {}
  <2>1. IdSet(Append(m.new, b)) = IdSet(m.new) \cup {b.id} /\ IdSet(Append(m.queue, b)) = IdSet(m.queue) \cup {b.id}
    BY ManagerType, IdSetAppend
  <2> QED
    BY <2>1
<1>2. Placed(m2) = Placed(m)
  BY <1>1 DEF Placed
<1>3. Resumes(m2) = Resumes(m)
  BY DEF Resumes
<1>4. RunInv(m2)
  BY <1>2, <1>3 DEF ManagerInv, RunInv
<1>5. FlightInv(m2)
  BY <1>1 DEF ManagerInv, FlightInv
<1>6. MapInv(m2)
  <2>1. MapInv(m)
    BY DEF ManagerInv
  <2> QED
    BY <1>1, <1>3, <2>1 DEF MapInv
<1>7. ASSUME NEW k \in 0..Len(rows), Holds(m, k) PROVE Holds(m2, k)
  <2>1. ASSUME NEW h, HeadInv(m, h, k) PROVE HeadInv(m2, h, k)
    <3>1. h.id <= 0 /\ h.id \in Int /\ b.id \in Nat \ {0}
      BY <2>1, StandsType DEF HeadInv, Heads
    <3>2. h.id # b.id
      BY <3>1
    <3>3. RunAt(m2.runOf, h) = RunAt(m.runOf, h)
      BY <3>2 DEF RunAt
    <3> QED
      BY <1>2, <2>1, <3>3 DEF HeadInv
  <2>2. \A h : HeadInv(m, h, k) => HeadInv(m2, h, k)
    BY <2>1
  <2>3. \A i \in (k + 1)..Len(rows) : \A x \in IdSet(rows[i].msgs) : x \in DOMAIN m2.runOf /\ m2.runOf[x] = rows[i].run
    <3>1. \A i \in (k + 1)..Len(rows) : \A x \in IdSet(rows[i].msgs) : x \in DOMAIN m.runOf /\ m.runOf[x] = rows[i].run
      BY <1>7 DEF Holds
    <3> QED
      BY <3>1
  <2> QED
    BY <1>2, <1>3, <1>7, <2>2, <2>3 DEF Holds
<1> QED
  BY <1>1, <1>4, <1>5, <1>6, <1>7 DEF ManagerInv

\* Where a run is in the thread.
LEMMA PositionType ==
  ASSUME rows \in Seq(Rows), RowsInv
  PROVE  /\ \A x : Position(x) \in 0..Len(rows) /\ (Position(x) > 0 => rows[Position(x)].run = x)
         /\ \A j \in 1..Len(rows) : Position(rows[j].run) = j
         /\ \A x \in Int : x <= 0 => Position(x) = 0
<1>1. Len(rows) \in Nat /\ DOMAIN rows = 1..Len(rows) /\ \A i \in 1..Len(rows) : rows[i].run \in Nat \ {0}
  BY RowType
<1>2. ASSUME NEW x
      PROVE  Position(x) \in 0..Len(rows) /\ (Position(x) > 0 => rows[Position(x)].run = x)
  <2>1. CASE \E i \in DOMAIN rows : rows[i].run = x
    <3>1. Position(x) = CHOOSE i \in DOMAIN rows : rows[i].run = x
      BY <2>1 DEF Position
    <3>2. Position(x) \in DOMAIN rows /\ rows[Position(x)].run = x
      BY <2>1, <3>1
    <3> QED
      BY <1>1, <3>2
  <2>2. CASE ~\E i \in DOMAIN rows : rows[i].run = x
    <3>1. Position(x) = 0
      BY <2>2 DEF Position
    <3> QED
      BY <1>1, <3>1
  <2> QED
    BY <2>1, <2>2
<1>3. ASSUME NEW j \in 1..Len(rows) PROVE Position(rows[j].run) = j
  <2>1. PICK x : x = rows[j].run
    OBVIOUS
  <2>2. Position(x) = CHOOSE i \in DOMAIN rows : rows[i].run = x
    BY <1>1, <2>1 DEF Position
  <2>3. PICK i : i = Position(x)
    OBVIOUS
  <2>4. i \in DOMAIN rows /\ rows[i].run = x /\ j \in DOMAIN rows /\ rows[j].run = x
    BY <1>1, <2>1, <2>2, <2>3
  <2>5. ~(rows[i].run < rows[j].run) /\ ~(rows[j].run < rows[i].run)
    BY <1>1, <2>4
  <2>6. ~(i < j) /\ ~(j < i)
    BY <2>4, <2>5 DEF RowsInv
  <2>7. i \in Int /\ j \in Int
    BY <1>1, <2>4
  <2>8. i = j
    BY <2>6, <2>7
  <2> QED
    BY <2>1, <2>3, <2>8
<1>4. ASSUME NEW x \in Int, x <= 0 PROVE Position(x) = 0
  <2>1. \A i \in DOMAIN rows : rows[i].run # x
    BY <1>1, <1>4
  <2> QED
    BY <2>1 DEF Position
<1> QED
  BY <1>2, <1>3, <1>4

\* The bundles of the thread and those in flight have positive ids.
LEMMA PlainIds ==
  ASSUME NEW s \in Seq(Plain)
  PROVE  IdSet(s) \subseteq Nat \ {0}
<1>1. DOMAIN s = 1..Len(s) /\ \A i \in 1..Len(s) : s[i] \in Plain
  BY ElementOfSeq
<1>2. \A i \in DOMAIN s : s[i].id \in Nat \ {0}
  BY <1>1, StandsType
<1> QED
  BY <1>2 DEF IdSet

\* One more bundle is placed.
Extended(F, x, y) == [z \in DOMAIN F \cup {x} |-> IF z = x THEN y ELSE F[z]]

\* A summariser's decision, written into the manager.
Billed(m, usage, named, old, runOf) == [m EXCEPT !.usage = usage, !.summaries = named, !.old = old, !.runOf = runOf]

\* The map with one more bundle.
LEMMA MapExtended ==
  ASSUME NEW F \in Maps, NEW x \in Int, NEW y \in Int
  PROVE  /\ Extended(F, x, y) \in Maps
         /\ DOMAIN Extended(F, x, y) = DOMAIN F \cup {x} /\ Extended(F, x, y)[x] = y
         /\ \A z \in DOMAIN F : z # x => Extended(F, x, y)[z] = F[z]
<1>1. PICK D \in SUBSET Int : F \in [D -> Int]
  BY DEF Maps
<1> DEFINE g == [z \in DOMAIN F \cup {x} |-> IF z = x THEN y ELSE F[z]]
<1>2. D \cup {x} \in SUBSET Int /\ g \in [D \cup {x} -> Int]
  BY <1>1
<1>3. g \in Maps
  <2> HIDE DEF g
  <2> QED
    BY <1>2 DEF Maps
<1>4. DOMAIN g = DOMAIN F \cup {x} /\ g[x] = y /\ \A z \in DOMAIN F : z # x => g[z] = F[z]
  OBVIOUS
<1> QED
  BY <1>3, <1>4 DEF Extended

\* The same, of all maps.
LEMMA ExtendedMap ==
  \A F \in Maps : \A x \in Int :
    /\ DOMAIN Extended(F, x, x) = DOMAIN F \cup {x} /\ Extended(F, x, x)[x] = x
    /\ \A z \in DOMAIN F : z # x => Extended(F, x, x)[z] = F[z]
BY MapExtended

\* A boundary that names the run in flight is cleared.
Cleared(r, run) == IF r.upTo = run THEN [r EXCEPT !.upTo = NoRun] ELSE r

\* The manager before and after a summariser's decision is applied.
AfterSummary(m, m2, r) ==
  /\ m2.pc = m.pc /\ m2.run = m.run /\ m2.new = m.new /\ m2.queue = m.queue
  /\ m2.context = m.context /\ m2.pending = m.pending /\ m2.known = m.known /\ m2.measured = m.measured
  /\ m2.summaries = Cleared(r, m.run)
  /\ r.message.kind = "summary" => /\ m2.old = <<r.message>> \o Kept(m, r.keep)
                                   /\ m2.runOf = Extended(m.runOf, r.message.id, r.message.id)
  /\ r.message.kind # "summary" => m2.old = Kept(m, r.keep) /\ m2.runOf = m.runOf

\* The same, with what a cut gives.
CutResult(m, m2, from, j, msg, r) ==
  /\ m2.run = m.run /\ m2.new = m.new /\ m2.queue = m.queue /\ m2.summaries = r
  /\ r.message = msg
  /\ LET L == LastNamed(m.runOf, Old(m.old \o m.new, from)) IN r.upTo = IF L = m.run THEN NoRun ELSE L
  /\ settings.kind = "llm" =>
       /\ msg.kind = "summary" /\ msg.of = Covers(Old(m.old \o m.new, from)) /\ msg.id < 0
       /\ m2.old = <<msg>> \o Rest(j)
       /\ m2.runOf = Extended(m.runOf, msg.id, msg.id)
  /\ settings.kind = "window" => msg.kind = "empty" /\ m2.old = Rest(j) /\ m2.runOf = m.runOf

\* What a summariser's decision does to the manager, from what a cut gives.
LEMMA CutApplied ==
  ASSUME NEW m \in Managers, NEW m2 \in Managers, NEW k, NEW from, CutSetting(m, k, from),
         NEW j \in k..Len(rows), SummaryCutAt(m, from, j),
         NEW msg \in Heads, NEW r \in Results,
         settings.kind = "llm" => msg.id \notin DOMAIN m.measured, CutResult(m, m2, from, j, msg, r)
  PROVE  ManagerInv(m2) /\ Total(m.measured, m2.old) <= Total(m.measured, m.old)
<1>0. /\ rows \in Seq(Rows) /\ RowsInv /\ settings.kind \in {"llm", "window"}
      /\ RunInv(m) /\ FlightInv(m) /\ MapInv(m) /\ k \in 0..Len(rows) /\ Holds(m, k)
      /\ Len(rows) \in Nat /\ j \in 0..Len(rows) /\ Rest(j) \in Seq(Plain) /\ msg \in Bundles /\ msg.id \in Int
  <2>1. rows \in Seq(Rows) /\ k \in 0..Len(rows) /\ msg \in Bundles
    BY PlainLists DEF CutSetting
  <2>2. Len(rows) \in Nat /\ j \in 0..Len(rows)
    BY <2>1, RowType
  <2> QED
    BY <2>1, <2>2, RestSteps, StandsType DEF CutSetting
<1>1. \A x \in IdSet(m.new) \cup IdSet(m.queue) : x \in Nat \ {0}
  BY ManagerType, PlainIds
<1>l. PICK L : L = LastNamed(m.runOf, Old(m.old \o m.new, from))
  OBVIOUS
<1>r. /\ m2.run = m.run /\ m2.new = m.new /\ m2.queue = m.queue /\ m2.summaries = r
      /\ r.message = msg /\ r.upTo = IF L = m.run THEN NoRun ELSE L
      /\ settings.kind = "llm" =>
           /\ msg.kind = "summary" /\ msg.of = Covers(Old(m.old \o m.new, from)) /\ msg.id < 0
           /\ m2.old = <<msg>> \o Rest(j)
           /\ m2.runOf = Extended(m.runOf, msg.id, msg.id)
      /\ settings.kind = "window" => msg.kind = "empty" /\ m2.old = Rest(j) /\ m2.runOf = m.runOf
  BY <1>l DEF CutResult
<1> USE <1>r
<1>2. /\ \A x : x # msg.id \/ settings.kind # "llm" => (x \in DOMAIN m2.runOf <=> x \in DOMAIN m.runOf)
      /\ \A x \in DOMAIN m.runOf : x # msg.id \/ settings.kind # "llm" => m2.runOf[x] = m.runOf[x]
      /\ settings.kind = "llm" => msg.id < 0 /\ msg.id \in DOMAIN m2.runOf /\ m2.runOf[msg.id] = msg.id
  <2>1. m.runOf \in Maps
    BY ManagerType
  <2>2. /\ DOMAIN Extended(m.runOf, msg.id, msg.id) = DOMAIN m.runOf \cup {msg.id}
        /\ Extended(m.runOf, msg.id, msg.id)[msg.id] = msg.id
        /\ \A x \in DOMAIN m.runOf : x # msg.id => Extended(m.runOf, msg.id, msg.id)[x] = m.runOf[x]
    BY <1>0, <2>1, ExtendedMap
  <2>3. CASE settings.kind = "llm"
    BY <2>2, <2>3
  <2>4. CASE settings.kind # "llm"
    BY <1>0, <2>4
  <2> QED
    BY <2>3, <2>4
<1>3. \A x \in Nat : (x \in DOMAIN m2.runOf <=> x \in DOMAIN m.runOf) /\ (x \in DOMAIN m.runOf => m2.runOf[x] = m.runOf[x])
  <2>1. \A x \in Nat : x # msg.id \/ settings.kind # "llm"
    BY <1>2
  <2> QED
    BY <1>2, <2>1
<1>4. Placed(m2) = Placed(m) /\ Resumes(m2) = Resumes(m)
  BY <1>1, <1>3 DEF Placed, Resumes
<1>5. RunInv(m2)
  BY <1>0, <1>4 DEF RunInv
<1>6. FlightInv(m2)
  BY <1>0 DEF FlightInv
<1>7. MapInv(m2)
  <2>1. \A x \in IdSet(m.new) \cup IdSet(m.queue) : x \in DOMAIN m2.runOf => m2.runOf[x] = m2.run
    BY <1>0, <1>1, <1>3 DEF MapInv
  <2>2. ASSUME NEW x \in DOMAIN m2.runOf, m2.runOf[x] = m2.run
        PROVE  x \in DOMAIN m.runOf /\ m.runOf[x] = m.run
    <3>1. m2.run \in Nat \ {0}
      BY ManagerType
    <3>2. x # msg.id \/ settings.kind # "llm"
      <4> SUFFICES ASSUME x = msg.id, settings.kind = "llm" PROVE FALSE
        OBVIOUS
      <4>1. m2.run = msg.id /\ msg.id < 0
        BY <1>2, <2>2
      <4>2. \A y \in Nat \ {0} : ~(y < 0)
        OBVIOUS
      <4> QED
        BY <3>1, <4>1, <4>2
    <3> QED
      BY <1>2, <2>2, <3>2
  <2> QED
    BY <1>0, <1>4, <2>1, <2>2 DEF MapInv
<1>8. Holds(m2, j)
  <2>1. \A i \in (j + 1)..Len(rows) : \A x \in IdSet(rows[i].msgs) : x \in DOMAIN m2.runOf /\ m2.runOf[x] = rows[i].run
    <3> TAKE i \in (j + 1)..Len(rows)
    <3>1. i \in (k + 1)..Len(rows) /\ i \in 1..Len(rows)
      BY <1>0
    <3>2. IdSet(rows[i].msgs) \subseteq Nat \ {0}
      BY <1>0, <3>1, RowType, PlainIds
    <3>3. \A x \in IdSet(rows[i].msgs) : x \in DOMAIN m.runOf /\ m.runOf[x] = rows[i].run
      BY <1>0, <3>1 DEF Holds
    <3> QED
      BY <1>3, <3>2, <3>3
  <2>2. Placed(m2) /\ Resumes(m2) => j < Len(rows)
    BY <1>4 DEF SummaryCutAt
  <2>3. CASE settings.kind = "llm"
    <3>1. m2.old = <<msg>> \o Rest(j)
      BY <2>3
    <3>2. m2.old # <<>> /\ m2.old[1] = msg
      <4>1. <<msg>> \in Seq(Bundles) /\ Rest(j) \in Seq(Bundles) /\ Len(<<msg>>) = 1
        BY <1>0, PlainLists
      <4>2. \A i \in 1..(Len(<<msg>>) + Len(Rest(j))) :
             (<<msg>> \o Rest(j))[i] = IF i <= Len(<<msg>>) THEN <<msg>>[i] ELSE Rest(j)[i - Len(<<msg>>)]
        BY <4>1, ConcatProperties
      <4>3. Len(Rest(j)) \in Nat
        BY <1>0, LenProperties
      <4>4. 1 \in 1..(Len(<<msg>>) + Len(Rest(j))) /\ 1 <= Len(<<msg>>)
        BY <4>1, <4>3
      <4>5. (<<msg>> \o Rest(j))[1] = msg
        BY <4>2, <4>4
      <4>6. <<msg>> # <<>>
        OBVIOUS
      <4>7. <<msg>> \o Rest(j) # <<>>
        BY <4>1, <4>6, ConcatEqualIffEmpty
      <4> QED
        BY <3>1, <4>5, <4>7
    <3>3. HeadInv(m2, msg, j)
      <4>1. RunAt(m2.runOf, msg) <= 0
        BY <1>0, <1>2, <2>3 DEF RunAt
      <4>2. Placed(m2) \/ j < Len(rows) => msg.of = Upto(j)
        BY <1>4, <2>3 DEF SummaryCutAt
      <4> QED
        BY <2>3, <4>1, <4>2 DEF HeadInv
    <3> QED
      BY <2>1, <2>2, <3>1, <3>2, <3>3 DEF Holds
  <2>4. CASE settings.kind = "window"
    BY <2>1, <2>2, <2>4 DEF Holds
  <2> QED
    BY <1>0, <2>3, <2>4
<1>9. ResultInv(r)
  <2>1. L \in Int /\ (L > 0 /\ L # m.run => j > 0 /\ L = rows[j].run /\ rows[j].complete)
    BY <1>l DEF SummaryCutAt
  <2>2. CASE r.upTo > 0 /\ settings.kind = "llm"
    <3>1. L > 0 /\ L # m.run /\ r.upTo = L
      BY <2>2 DEF NoRun
    <3>2. j \in 1..Len(rows)
      BY <1>0, <2>1, <3>1
    <3>3. Position(r.upTo) = j /\ rows[j].complete
      BY <1>0, <2>1, <3>1, <3>2, PositionType
    <3>4. msg.of = Upto(j)
      BY <1>l, <2>2, <3>1 DEF SummaryCutAt
    <3> QED
      BY <1>0, <2>2, <3>2, <3>3, <3>4 DEF ResultInv
  <2>3. CASE ~(r.upTo > 0) /\ settings.kind = "llm"
    <3>1. r.upTo \in Int /\ r.upTo <= 0
      BY <2>1, <2>3 DEF NoRun
    <3>2. Position(r.upTo) = 0
      BY <1>0, <3>1, PositionType
    <3> QED
      BY <2>3, <3>1, <3>2 DEF ResultInv
  <2>4. CASE settings.kind = "window"
    BY <2>4 DEF ResultInv
  <2> QED
    BY <1>0, <2>2, <2>3, <2>4
<1>10. ManagerInv(m2)
  BY <1>0, <1>5, <1>6, <1>7, <1>8, <1>9 DEF ManagerInv
<1>w. PICK w \in Measures : w = m.measured
  BY ManagerType
<1>11. Total(w, m2.old) <= Total(w, m.old)
  <2>1. Total(w, Rest(j)) + (IF settings.kind = "llm" THEN 1 ELSE 0) <= Total(w, m.old)
    BY <1>w DEF SummaryCutAt
  <2>2. CASE settings.kind = "llm"
    <3>1. Total(w, <<msg>>) = 1
      <4>1. Weight(w, msg) = estimateBundleTokens(msg)
        BY <1>w, <2>2, WeighsType
      <4> QED
        BY <2>2, <4>1, TotalOne, WeightType
    <3>2. Total(w, <<msg>> \o Rest(j)) = Total(w, <<msg>>) + Total(w, Rest(j))
      <4>1. <<msg>> \in Seq(Bundles) /\ Rest(j) \in Seq(Bundles)
        BY <1>0, PlainLists
      <4> QED
        BY <4>1, TotalConcat
    <3>3. Total(w, Rest(j)) \in Nat /\ Total(w, m.old) \in Nat
      BY <1>0, ManagerType, TotalType
    <3>4. PICK t, u : t = Total(w, Rest(j)) /\ u = Total(w, m.old) /\ t \in Nat /\ u \in Nat
      BY <3>3
    <3>5. m2.old = <<msg>> \o Rest(j)
      BY <2>2
    <3>6. Total(w, m2.old) = 1 + t
      BY <3>1, <3>2, <3>4, <3>5
    <3>7. t + 1 <= u
      BY <2>1, <2>2, <3>4
    <3>8. 1 + t <= u
      BY <3>4, <3>7
    <3> QED
      BY <3>4, <3>6, <3>8
  <2>3. CASE settings.kind = "window"
    <3>1. Total(w, Rest(j)) \in Nat /\ Total(w, m.old) \in Nat
      BY <1>0, ManagerType, TotalType
    <3> QED
      BY <2>1, <2>3, <3>1
  <2> QED
    BY <1>0, <2>2, <2>3
<1> QED
  BY <1>10, <1>11, <1>w

\* A boundary that names the run in flight is cleared.
LEMMA BoundaryCleared ==
  ASSUME NEW r \in Results, NEW run
  PROVE  /\ Cleared(r, run) \in Results /\ Cleared(r, run).message = r.message
         /\ Cleared(r, run).upTo = IF r.upTo = run THEN NoRun ELSE r.upTo
<1>1. /\ [r EXCEPT !.upTo = NoRun] \in Results
      /\ [r EXCEPT !.upTo = NoRun].message = r.message
      /\ [r EXCEPT !.upTo = NoRun].upTo = NoRun
  BY DEF Results, NoRun
<1> QED
  BY <1>1 DEF Cleared

\* What a summariser hands to the manager.
LEMMA ResultType ==
  ASSUME NEW runOf, NEW D \in Seq(Bundles), NEW E \in Seq(Bundles), NEW id \in Int, id < 0,
         LastNamed(runOf, D) \in Int
  PROVE  /\ LET r == Summarize(runOf, D, E, id)
            IN  /\ r \in Results /\ r.upTo = LastNamed(runOf, D) /\ r.keep = E /\ r.id = id
                /\ r.message.kind = "summary" /\ r.message.of = Covers(D) /\ r.message.id = id
         /\ LET r == Slide(runOf, D, E, id)
            IN  /\ r \in Results /\ r.upTo = LastNamed(runOf, D) /\ r.keep = E
                /\ r.message.kind = "empty" /\ r.message.id = 0
<1>1. PICK L \in Int : L = LastNamed(runOf, D)
  OBVIOUS
<1>2. PICK msg \in Heads : msg = SummaryMessage(D, id) /\ msg.kind = "summary" /\ msg.of = Covers(D) /\ msg.id = id
  <2> DEFINE Negatives == {x \in Int : x < 0}
             b(i, s) == [Bundle(i, "summary", "") EXCEPT !.of = s]
  <2>1. Covers(D) \in Seq(Int)
    BY CoversConcat
  <2>2. id \in Negatives
    OBVIOUS
  <2>a. \A i \in Negatives, s \in Seq(Int) : /\ b(i, s) \in Heads /\ b(i, s).kind = "summary"
                                                   /\ b(i, s).of = s /\ b(i, s).id = i
    BY HeadType, Zenon
  <2>b. SummaryMessage(D, id) = b(id, Covers(D))
    BY Zenon DEF SummaryMessage
  <2> HIDE DEF Negatives, b
  <2>3. /\ SummaryMessage(D, id) \in Heads /\ SummaryMessage(D, id).kind = "summary"
        /\ SummaryMessage(D, id).of = Covers(D) /\ SummaryMessage(D, id).id = id
    BY <2>1, <2>2, <2>a, <2>b
  <2> QED
    BY <2>3
<1>n. PICK none \in Heads : none = Bundle(0, "empty", "") /\ none.kind = "empty" /\ none.id = 0
  BY HeadType, Zenon
<1>3. none.kind = "empty" /\ none.id = 0
  BY <1>n, Zenon
<1>4. PICK c \in Nat : c = Len(D) + 1
  BY LenProperties
<1>5. Summarize(runOf, D, E, id) = [id |-> id, upTo |-> L, message |-> msg, keep |-> E, cost |-> c]
  BY <1>1, <1>2, <1>4 DEF Summarize
<1>6. Slide(runOf, D, E, id) = [id |-> id, upTo |-> L, message |-> none, keep |-> E, cost |-> 0]
  BY <1>1, <1>n, Zenon DEF Slide
<1>7. \A h \in Heads : \A n \in Nat : [id |-> id, upTo |-> L, message |-> h, keep |-> E, cost |-> n] \in Results
  <2>1. id \in {i \in Int : i < 0}
    OBVIOUS
  <2> QED
    BY <2>1 DEF Results
<1>8. PICK r1, r2 : /\ r1 = [id |-> id, upTo |-> L, message |-> msg, keep |-> E, cost |-> c]
                    /\ r2 = [id |-> id, upTo |-> L, message |-> none, keep |-> E, cost |-> 0]
  OBVIOUS
<1>9. /\ r1 \in Results /\ r1.upTo = L /\ r1.keep = E /\ r1.id = id /\ r1.message = msg
      /\ r2 \in Results /\ r2.upTo = L /\ r2.keep = E /\ r2.message = none
  <2>1. r1 \in Results /\ r2 \in Results
    BY <1>7, <1>8
  <2> QED
    BY <1>8, <2>1
<1>10. Summarize(runOf, D, E, id) = r1 /\ Slide(runOf, D, E, id) = r2
  BY <1>5, <1>6, <1>8
<1> QED
  BY <1>1, <1>2, <1>3, <1>9, <1>10

\* The manager once a summariser's decision is applied.
LEMMA AppliedType ==
  ASSUME NEW m \in Managers, NEW r \in Results, Kept(m, r.keep) \in Seq(Bundles),
         r.message.kind = "summary" => r.id = r.message.id
  PROVE  Applied(m, r) \in Managers /\ AfterSummary(m, Applied(m, r), r)
<1>1. PICK msg \in Heads, kept \in Seq(Bundles), cost \in Nat :
           msg = r.message /\ kept = Kept(m, r.keep) /\ cost = r.cost
  BY DEF Results
<1>2. PICK named \in Results : named = Cleared(r, m.run)
  BY BoundaryCleared
<1>3. PICK usage \in Nat : usage = m.usage + cost
  BY <1>1, ManagerType
<1>4. PICK id \in Int : id = msg.id
  BY <1>1, StandsType, PlainLists
<1>5. PICK F \in Maps : /\ F = Extended(m.runOf, id, id)
                        /\ DOMAIN F = DOMAIN m.runOf \cup {id} /\ F[id] = id
                        /\ \A z \in DOMAIN m.runOf : z # id => F[z] = m.runOf[z]
  <2>1. m.runOf \in Maps
    BY ManagerType
  <2>2. /\ Extended(m.runOf, id, id) \in Maps
        /\ DOMAIN Extended(m.runOf, id, id) = DOMAIN m.runOf \cup {id} /\ Extended(m.runOf, id, id)[id] = id
        /\ \A z \in DOMAIN m.runOf : z # id => Extended(m.runOf, id, id)[z] = m.runOf[z]
    BY <2>1, MapExtended
  <2> QED
    BY <2>2
<1>6. PICK old \in Seq(Bundles) : old = <<msg>> \o kept
  <2>1. msg \in Bundles
    BY PlainLists
  <2>2. <<msg>> \in Seq(Bundles)
    BY <2>1
  <2> QED
    BY <2>2, ConcatProperties
<1>7. \A o \in Seq(Bundles) : \A f \in Maps :
        LET m2 == Billed(m, usage, named, o, f)
        IN  /\ m2 \in Managers /\ m2.pc = m.pc /\ m2.run = m.run /\ m2.new = m.new /\ m2.queue = m.queue
            /\ m2.context = m.context /\ m2.pending = m.pending /\ m2.known = m.known /\ m2.measured = m.measured
            /\ m2.summaries = named /\ m2.old = o /\ m2.runOf = f
  BY DEF Managers, Billed
<1>8. CASE msg.kind = "summary"
  <2>1. Applied(m, r) = Billed(m, usage, named, old, F)
    <3>1. r.id = id /\ r.message.id = id /\ r.message.kind = "summary"
      BY <1>1, <1>4, <1>8
    <3>2. old = <<r.message>> \o Kept(m, r.keep)
      BY <1>1, <1>6
    <3>3. usage = m.usage + r.cost
      BY <1>1, <1>3
    <3>4. /\ [m EXCEPT !.usage = m.usage + r.cost].runOf = m.runOf
      BY DEF Managers
    <3> QED
      BY <1>2, <1>5, <3>1, <3>2, <3>3, <3>4 DEF Applied, TrackAuxiliaryUsage, Billed, Extended, Cleared
  <2>2. PICK m2 : m2 = Billed(m, usage, named, old, F)
    OBVIOUS
  <2>3. /\ m2 \in Managers /\ m2.pc = m.pc /\ m2.run = m.run /\ m2.new = m.new /\ m2.queue = m.queue
        /\ m2.context = m.context /\ m2.pending = m.pending /\ m2.known = m.known /\ m2.measured = m.measured
        /\ m2.summaries = named /\ m2.old = old /\ m2.runOf = F
    BY <1>7, <2>2
  <2>4. Applied(m, r) = m2
    BY <2>1, <2>2
  <2> QED
    BY <1>1, <1>2, <1>4, <1>5, <1>6, <1>8, <2>3, <2>4 DEF AfterSummary
<1>9. CASE msg.kind # "summary"
  <2>1. Applied(m, r) = Billed(m, usage, named, kept, m.runOf)
    <3>1. r.message.kind # "summary" /\ kept = Kept(m, r.keep) /\ usage = m.usage + r.cost
      BY <1>1, <1>3, <1>9
    <3>2. Applied(m, r) = [[[m EXCEPT !.usage = usage] EXCEPT !.summaries = named] EXCEPT !.old = kept]
      BY <1>2, <3>1 DEF Applied, TrackAuxiliaryUsage, Cleared
    <3>3. \A u, s, o : LET x == [[[m EXCEPT !.usage = u] EXCEPT !.summaries = s] EXCEPT !.old = o]
                       IN  x = [x EXCEPT !.runOf = m.runOf]
      BY DEF Managers
    <3> QED
      BY <3>2, <3>3 DEF Billed
  <2>2. PICK m2 : m2 = Billed(m, usage, named, kept, m.runOf)
    OBVIOUS
  <2>3. /\ m2 \in Managers /\ m2.pc = m.pc /\ m2.run = m.run /\ m2.new = m.new /\ m2.queue = m.queue
        /\ m2.context = m.context /\ m2.pending = m.pending /\ m2.known = m.known /\ m2.measured = m.measured
        /\ m2.summaries = named /\ m2.old = kept /\ m2.runOf = m.runOf
    <3>1. m.runOf \in Maps
      BY ManagerType
    <3> QED
      BY <1>7, <2>2, <3>1
  <2>4. Applied(m, r) = m2
    BY <2>1, <2>2
  <2> QED
    BY <1>1, <1>2, <1>9, <2>3, <2>4 DEF AfterSummary
<1> QED
  BY <1>8, <1>9

\* The summariser's decision when one is due.
SummaryOf(m, id, r) ==
  LET msgs == m.old \o m.new
      starts == groupIntoRuns(m.runOf, msgs)
      from == keepFromIndex(starts)
  IN  /\ Cardinality(starts) > settings.keep
      /\ r = IF settings.kind = "llm" THEN Summarize(m.runOf, Old(msgs, from), Recent(msgs, from), id)
             ELSE Slide(m.runOf, Old(msgs, from), Recent(msgs, from), id)

\* A model call that is due a summary: the manager's shape survives it, what is in
\* flight is as it was, and the loaded half grows no heavier.
LEMMA SummaryStep ==
  ASSUME rows \in Seq(Rows), RowsInv, settings \in [kind : {"llm", "window"}, keep : Nat \ {0}],
         NEW m \in Managers, ManagerInv(m), NEW id \in Int, id < 0, id \notin DOMAIN m.measured, NEW r, SummaryOf(m, id, r)
  PROVE  LET m2 == Applied(m, r)
         IN  /\ m2 \in Managers /\ ManagerInv(m2) /\ Total(m.measured, m2.old) <= Total(m.measured, m.old)
             /\ m2.pc = m.pc /\ m2.run = m.run /\ m2.new = m.new /\ m2.queue = m.queue
             /\ m2.context = m.context /\ m2.pending = m.pending /\ m2.known = m.known /\ m2.measured = m.measured
             /\ DOMAIN m2.runOf \subseteq DOMAIN m.runOf \cup {id}
             /\ \A x \in IdSet(m2.old) : x = id \/ x > 0
             /\ m2.summaries # NoResult => m2.summaries.message.id \in {0, id}
<1>0. PICK msgs, from :
           /\ msgs = m.old \o m.new /\ from = keepFromIndex(groupIntoRuns(m.runOf, msgs))
           /\ Cardinality(groupIntoRuns(m.runOf, msgs)) > settings.keep
           /\ r = IF settings.kind = "llm" THEN Summarize(m.runOf, Old(msgs, from), Recent(msgs, from), id)
                  ELSE Slide(m.runOf, Old(msgs, from), Recent(msgs, from), id)
  BY DEF SummaryOf
<1>1. settings.keep \in Nat \ {0} /\ settings.kind \in {"llm", "window"}
  OBVIOUS
<1>2. msgs \in Seq(Bundles)
  BY <1>0, ManagerType, ConcatProperties
<1>3. from \in 2..Len(msgs) /\ RunAt(m.runOf, msgs[from]) # RunAt(m.runOf, msgs[from - 1])
  BY <1>0, <1>1, <1>2, KeepFrom
<1>4. PICK k \in 0..Len(rows) : Holds(m, k)
  BY DEF ManagerInv
<1>5. CutSetting(m, k, from)
  BY <1>0, <1>1, <1>3, <1>4 DEF ManagerInv, CutSetting
<1>6. PICK j \in k..Len(rows) : SummaryCutAt(m, from, j)
  BY <1>5, SummaryCut
<1>7. PICK D \in Seq(Bundles), E \in Seq(Bundles), L \in Int :
           /\ D = Old(msgs, from) /\ E = Recent(msgs, from) /\ L = LastNamed(m.runOf, D) /\ Kept(m, E) = Rest(j)
  BY <1>0, <1>6 DEF SummaryCutAt
<1>8. Kept(m, E) \in Seq(Bundles)
  <2>1. j \in 0..Len(rows)
    BY <1>4, RowType
  <2> QED
    BY <1>7, <2>1, RestSteps, PlainLists
<1>9. r = IF settings.kind = "llm" THEN Summarize(m.runOf, D, E, id) ELSE Slide(m.runOf, D, E, id)
  BY <1>0, <1>7
<1>10. /\ r \in Results /\ r.upTo = L /\ r.keep = E
       /\ settings.kind = "llm" => /\ r.id = id /\ r.message.kind = "summary"
                                   /\ r.message.of = Covers(D) /\ r.message.id = id
       /\ settings.kind = "window" => r.message.kind = "empty" /\ r.message.id = 0
  <2>1. LastNamed(m.runOf, D) \in Int
    BY <1>7
  <2>2. CASE settings.kind = "llm"
    BY <1>7, <1>9, <2>1, <2>2, ResultType
  <2>3. CASE settings.kind = "window"
    BY <1>7, <1>9, <2>1, <2>3, ResultType
  <2> QED
    BY <1>1, <2>2, <2>3
<1>11. r.message.kind = "summary" => r.id = r.message.id
  BY <1>1, <1>10
<1>12. PICK m2 : m2 = Applied(m, r)
  OBVIOUS
<1>a. m2 \in Managers /\ AfterSummary(m, m2, r)
  <2>1. Kept(m, r.keep) \in Seq(Bundles) /\ r \in Results
    BY <1>8, <1>10
  <2> QED
    BY <1>11, <1>12, <2>1, AppliedType
<1>13. /\ m2 \in Managers /\ m2.pc = m.pc /\ m2.run = m.run /\ m2.new = m.new /\ m2.queue = m.queue
       /\ m2.context = m.context /\ m2.pending = m.pending /\ m2.known = m.known /\ m2.measured = m.measured
       /\ m2.summaries = Cleared(r, m.run)
       /\ r.message.kind = "summary" => /\ m2.old = <<r.message>> \o Kept(m, r.keep)
                                        /\ m2.runOf = Extended(m.runOf, r.message.id, r.message.id)
       /\ r.message.kind # "summary" => m2.old = Kept(m, r.keep) /\ m2.runOf = m.runOf
  BY <1>a DEF AfterSummary
<1>14. PICK named \in Results, msg \in Heads :
            /\ named = m2.summaries /\ msg = r.message /\ named.message = msg
            /\ named.upTo = IF L = m.run THEN NoRun ELSE L
  <2>1. r.message \in Heads
    BY <1>10 DEF Results
  <2>2. r \in Results /\ r.upTo = L /\ m2.summaries = Cleared(r, m.run)
    BY <1>10, <1>13
  <2>3. /\ Cleared(r, m.run) \in Results /\ Cleared(r, m.run).message = r.message
        /\ Cleared(r, m.run).upTo = IF L = m.run THEN NoRun ELSE L
    BY <2>2, BoundaryCleared
  <2> QED
    BY <2>1, <2>2, <2>3
<1>15. L = LastNamed(m.runOf, Old(m.old \o m.new, from)) /\ D = Old(m.old \o m.new, from)
  BY <1>0, <1>7
<1>16. settings.kind = "llm" =>
           /\ msg.kind = "summary" /\ msg.of = Covers(Old(m.old \o m.new, from)) /\ msg.id < 0
           /\ m2.old = <<msg>> \o Rest(j)
           /\ m2.runOf = Extended(m.runOf, msg.id, msg.id)
  BY <1>7, <1>10, <1>13, <1>14, <1>15
<1>17. settings.kind = "window" => msg.kind = "empty" /\ m2.old = Rest(j) /\ m2.runOf = m.runOf
  BY <1>7, <1>10, <1>13, <1>14
<1>18. m2.run = m.run /\ m2.new = m.new /\ m2.queue = m.queue
  BY <1>13
<1>19. ManagerInv(m2) /\ Total(m.measured, m2.old) <= Total(m.measured, m.old)
  <2>1. m2 \in Managers /\ named = m2.summaries /\ named.message = msg
    BY <1>13, <1>14
  <2>2. named.upTo = IF L = m.run THEN NoRun ELSE L
    BY <1>14
  <2>3. CutResult(m, m2, from, j, msg, named)
    BY <1>15, <1>16, <1>17, <1>18, <2>1, <2>2 DEF CutResult
  <2>4. settings.kind = "llm" => msg.id \notin DOMAIN m.measured
    BY <1>10, <1>14
  <2> QED
    BY <1>5, <1>6, <1>10, <1>14, <2>1, <2>3, <2>4, CutApplied
<1>20. DOMAIN m2.runOf \subseteq DOMAIN m.runOf \cup {id}
  <2>1. CASE settings.kind = "llm"
    <3>1. m2.runOf = Extended(m.runOf, id, id) /\ m.runOf \in Maps
      BY <1>10, <1>14, <1>16, <2>1, ManagerType
    <3>2. PICK F : F = m.runOf
      OBVIOUS
    <3>3. DOMAIN Extended(F, id, id) = DOMAIN F \cup {id}
      BY <3>1, <3>2, ExtendedMap
    <3>4. DOMAIN m2.runOf = DOMAIN m.runOf \cup {id}
      BY <3>1, <3>2, <3>3
    <3> QED
      BY <3>4
  <2>2. CASE settings.kind = "window"
    BY <1>17, <2>2
  <2> QED
    BY <1>1, <2>1, <2>2
<1>21. /\ \A x \in IdSet(m2.old) : x = id \/ x > 0
       /\ m2.summaries # NoResult => m2.summaries.message.id \in {0, id}
  <2>1. PICK R \in Seq(Plain) : R = Rest(j) /\ R \in Seq(Bundles)
    <3>1. j \in 0..Len(rows)
      BY <1>4, RowType
    <3> QED
      BY <3>1, RestSteps, PlainLists
  <2>2. \A x \in IdSet(R) : x > 0
    <3>1. IdSet(R) \subseteq Nat \ {0}
      BY PlainIds
    <3> QED
      BY <3>1
  <2>3. CASE settings.kind = "llm"
    <3>1. msg.id = id /\ m2.old = <<msg>> \o R /\ <<msg>> \in Seq(Bundles)
      BY <1>10, <1>14, <1>16, <2>1, <2>3, PlainLists
    <3>2. PICK M \in Seq(Bundles), R2 \in Seq(Bundles) : M = <<msg>> /\ R2 = R
      BY <2>1, <3>1
    <3>3. IdSet(M \o R2) = IdSet(M) \cup IdSet(R2)
      BY IdSetConcat
    <3>4. IdSet(M) = {id}
      BY <3>1, <3>2, IdSetOne
    <3>5. IdSet(m2.old) = {id} \cup IdSet(R)
      BY <3>1, <3>2, <3>3, <3>4
    <3> QED
      BY <1>14, <2>2, <3>1, <3>5
  <2>4. CASE settings.kind = "window"
    <3>1. m2.old = R
      BY <1>17, <2>1, <2>4
    <3>2. msg.id = 0
      BY <1>10, <1>14, <2>4
    <3> QED
      BY <1>14, <2>2, <3>1, <3>2
  <2> QED
    BY <1>1, <2>3, <2>4
<1> QED
  BY <1>12, <1>13, <1>19, <1>20, <1>21

-----------------------------------------------------------------------------
(* The manager's operations, field by field.                               *)

PCs == {"call", "tools", "pause", "asked", "save"}

\* Another place in the code.
LEMMA PlaceType ==
  ASSUME NEW m \in Managers, NEW pc \in PCs
  PROVE  LET m2 == [m EXCEPT !.pc = pc]
         IN  /\ m2 \in Managers /\ m2.pc = pc /\ m2.run = m.run /\ m2.old = m.old /\ m2.new = m.new
             /\ m2.queue = m.queue /\ m2.runOf = m.runOf /\ m2.summaries = m.summaries /\ m2.steered = m.steered
             /\ m2.context = m.context /\ m2.pending = m.pending /\ m2.known = m.known /\ m2.measured = m.measured
BY DEF Managers, PCs

\* The queue, drained.
LEMMA DrainedType ==
  ASSUME NEW m \in Managers
  PROVE  LET d == Drained(m)
         IN  /\ d \in Managers /\ d.pc = m.pc /\ d.run = m.run /\ d.old = m.old /\ d.new = m.new \o m.queue
             /\ d.queue = <<>> /\ d.runOf = m.runOf /\ d.summaries = m.summaries
             /\ d.context = m.context /\ d.pending = m.pending /\ d.known = m.known /\ d.measured = m.measured
<1>1. PICK new, st : new = m.new \o m.queue /\ st = m.steered \cup ToSet(Ids(m.queue))
  OBVIOUS
<1>2. new \in Seq(Plain)
  BY <1>1, ManagerType, ConcatProperties
<1>3. st \in SUBSET Int
  <2>1. IdSet(m.queue) \subseteq Int
    <3>1. IdSet(m.queue) \subseteq Nat \ {0}
      BY ManagerType, PlainIds
    <3> QED
      BY <3>1
  <2> QED
    BY <1>1, <2>1, ManagerType, IdSetOfIds
<1>4. <<>> \in Seq(Plain)
  BY EmptySeq
<1>5. PICK d : d = [m EXCEPT !.new = new, !.queue = <<>>, !.steered = st]
  OBVIOUS
<1>6. /\ d \in Managers /\ d.pc = m.pc /\ d.run = m.run /\ d.old = m.old /\ d.new = new
      /\ d.queue = <<>> /\ d.runOf = m.runOf /\ d.summaries = m.summaries
      /\ d.context = m.context /\ d.pending = m.pending /\ d.known = m.known /\ d.measured = m.measured
  BY <1>2, <1>3, <1>4, <1>5 DEF Managers
<1>7. Drained(m) = d
  <2>1. [m EXCEPT !.new = new].queue = m.queue /\ [[m EXCEPT !.new = new] EXCEPT !.queue = <<>>].steered = m.steered
    BY DEF Managers
  <2> QED
    BY <1>1, <1>5 DEF Drained
<1> QED
  BY <1>1, <1>6, <1>7

\* A bundle that arrives.
LEMMA ArrivedType ==
  ASSUME NEW m \in Managers, NEW b \in Plain, NEW queue \in BOOLEAN, NEW estimate \in BOOLEAN
  PROVE  LET m2 == processIncoming(m, b, queue, estimate)
         IN  /\ m2 \in Managers /\ m2.pc = m.pc /\ m2.run = m.run /\ m2.old = m.old /\ m2.summaries = m.summaries
             /\ m2.context = m.context /\ m2.known = m.known /\ m2.measured = m.measured
             /\ m2.pending = IF estimate THEN m.pending + estimateBundleTokens(b) ELSE m.pending
             /\ m2.runOf = Extended(m.runOf, b.id, m.run)
             /\ m2.new = IF queue THEN m.new ELSE Append(m.new, b)
             /\ m2.queue = IF queue THEN Append(m.queue, b) ELSE m.queue
<1>1. PICK F \in Maps : F = Extended(m.runOf, b.id, m.run)
  <2>1. m.runOf \in Maps /\ m.run \in Int
    BY ManagerType
  <2>2. b.id \in Int
    BY StandsType
  <2> QED
    BY <2>1, <2>2, MapExtended
<1>2. PICK p \in Nat : p = IF estimate THEN m.pending + estimateBundleTokens(b) ELSE m.pending
  BY ManagerType, WeightType
<1>3. PICK new \in Seq(Plain), q \in Seq(Plain) : /\ new = IF queue THEN m.new ELSE Append(m.new, b)
                                                  /\ q = IF queue THEN Append(m.queue, b) ELSE m.queue
  BY ManagerType, AppendProperties
<1>4. PICK m2 : m2 = [m EXCEPT !.runOf = F, !.pending = p, !.new = new, !.queue = q]
  OBVIOUS
<1>5. /\ m2 \in Managers /\ m2.pc = m.pc /\ m2.run = m.run /\ m2.old = m.old /\ m2.summaries = m.summaries
      /\ m2.context = m.context /\ m2.known = m.known /\ m2.measured = m.measured /\ m2.pending = p /\ m2.runOf = F /\ m2.new = new /\ m2.queue = q
  BY <1>4 DEF Managers
<1>6. processIncoming(m, b, queue, estimate) = m2
  <2>1. PICK known : known = [m EXCEPT !.runOf = F]
    OBVIOUS
  <2>2. trackRun(m, b) = known
    BY <1>1, <2>1 DEF trackRun, Extended
  <2>3. known.pending = m.pending /\ known = [known EXCEPT !.pending = m.pending]
    BY <2>1 DEF Managers
  <2>4. PICK weighed : weighed = [known EXCEPT !.pending = p]
    OBVIOUS
  <2>5. weighed = IF estimate THEN [known EXCEPT !.pending = known.pending + estimateBundleTokens(b)] ELSE known
    BY <1>2, <2>3, <2>4
  <2>6. weighed.queue = m.queue /\ weighed.new = m.new
    BY <2>1, <2>4 DEF Managers
  <2>7. processIncoming(m, b, queue, estimate) =
          IF queue THEN [weighed EXCEPT !.queue = Append(m.queue, b)] ELSE [weighed EXCEPT !.new = Append(m.new, b)]
    BY <2>2, <2>5, <2>6 DEF processIncoming
  <2>8. m2 = [[weighed EXCEPT !.new = new] EXCEPT !.queue = q]
    BY <1>4, <2>1, <2>4
  <2>9. /\ [weighed EXCEPT !.new = m.new] = weighed
        /\ [[weighed EXCEPT !.new = new] EXCEPT !.queue = m.queue] = [weighed EXCEPT !.new = new]
    BY <2>1, <2>4, <2>6 DEF Managers
  <2>10. CASE queue
    BY <1>3, <2>7, <2>8, <2>9, <2>10
  <2>11. CASE ~queue
    BY <1>3, <2>7, <2>8, <2>9, <2>11
  <2> QED
    BY <2>10, <2>11
<1> QED
  BY <1>1, <1>2, <1>3, <1>5, <1>6

\* A manager that has been told what its call weighed.
Told(m, total, w) == [TrackUsage(m, total) EXCEPT !.measured = w, !.known = TRUE]

\* A call that measures the prompt.
LEMMA MeasuredType ==
  ASSUME NEW m \in Managers, NEW total \in Nat, NEW w \in Measures
  PROVE  LET m2 == Told(m, total, w) IN
         /\ m2 \in Managers /\ m2.pc = m.pc /\ m2.run = m.run /\ m2.old = m.old /\ m2.new = m.new
         /\ m2.queue = m.queue /\ m2.runOf = m.runOf /\ m2.summaries = m.summaries
         /\ m2.context = total /\ m2.pending = 0 /\ m2.measured = w
<1>1. PICK u \in Nat : u = m.usage + total
  BY ManagerType
<1>2. PICK zero \in Nat, yes \in BOOLEAN : zero = 0 /\ yes = TRUE
  OBVIOUS
<1>3. PICK m1 : m1 = [m EXCEPT !.usage = u, !.context = total, !.pending = zero]
  OBVIOUS
<1>4. TrackUsage(m, total) = m1
  BY <1>1, <1>2, <1>3 DEF TrackUsage
<1>m. PICK m2 : m2 = Told(m, total, w)
  OBVIOUS
<1>5. m2 = [m1 EXCEPT !.measured = w, !.known = yes]
  BY <1>2, <1>4, <1>m DEF Told
<1>6. /\ m2 \in Managers /\ m2.pc = m.pc /\ m2.run = m.run /\ m2.old = m.old /\ m2.new = m.new
      /\ m2.queue = m.queue /\ m2.runOf = m.runOf /\ m2.summaries = m.summaries
      /\ m2.context = total /\ m2.pending = zero /\ m2.measured = w
  BY <1>3, <1>5 DEF Managers
<1> QED
  BY <1>2, <1>6, <1>m

\* A reply that nobody measured.
LEMMA UnmeasuredType ==
  ASSUME NEW m \in Managers
  PROVE  LET m2 == [m EXCEPT !.known = FALSE]
         IN  /\ m2 \in Managers /\ m2.pc = m.pc /\ m2.run = m.run /\ m2.old = m.old /\ m2.new = m.new
             /\ m2.queue = m.queue /\ m2.runOf = m.runOf /\ m2.summaries = m.summaries
             /\ m2.known = FALSE /\ m2.measured = m.measured
<1>1. PICK no \in BOOLEAN : no = FALSE
  OBVIOUS
<1>2. LET m2 == [m EXCEPT !.known = no]
      IN  /\ m2 \in Managers /\ m2.pc = m.pc /\ m2.run = m.run /\ m2.old = m.old /\ m2.new = m.new
          /\ m2.queue = m.queue /\ m2.runOf = m.runOf /\ m2.summaries = m.summaries
          /\ m2.known = no /\ m2.measured = m.measured
  BY DEF Managers
<1> QED
  BY <1>1, <1>2

\* What the provider makes of a prompt and its reply, bundle by bundle.
LEMMA MeasureType ==
  ASSUME NEW m \in Managers, NEW agent, NEW reply \in Plain
  PROVE  /\ Measure(m, agent, reply) \in Measures
         /\ DOMAIN Measure(m, agent, reply) \subseteq IdSet(m.old) \cup IdSet(m.new) \cup {reply.id}
<1>1. PICK said : said = {b \in ToSet(m.old \o m.new) : b.kind # "empty"} \cup {reply}
  OBVIOUS
<1>2. PICK ids : ids = {b.id : b \in said}
  OBVIOUS
<1>3. \A b \in said : b \in Bundles /\ b.kind \in Kinds /\ b.id \in IdSet(m.old) \cup IdSet(m.new) \cup {reply.id}
  <2>1. PICK list \in Seq(Bundles) : list = m.old \o m.new
    BY ManagerType, ConcatProperties
  <2>2. IdSet(list) = IdSet(m.old) \cup IdSet(m.new)
    BY <2>1, ManagerType, IdSetConcat
  <2>3. \A b \in ToSet(list) : b \in Bundles /\ b.id \in IdSet(list)
    BY <2>1, ListType DEF ToSet
  <2>4. reply \in Bundles /\ reply.kind # "empty"
    BY PlainLists, StandsType
  <2>5. \A b \in Bundles : b.kind # "empty" => b.kind \in Kinds
    BY DEF Bundles, Plain, Heads, PlainKinds, Kinds
  <2> QED
    BY <1>1, <2>1, <2>2, <2>3, <2>4, <2>5
<1>4. \A b \in Kinds : Tokens[b] \in Nat \ {0}
  BY SummariesAssumption
<1>5. Prefix \in Nat /\ Steering \in Nat
  BY SummariesAssumption
<1> DEFINE Worth(b) == Tokens[b.kind] + (IF Form(b, agent) = "own" THEN 0 ELSE Prefix)
                                      + (IF b.id \in m.steered THEN Steering ELSE 0)
<1>6. \A b \in said : Worth(b) \in Nat \ {0}
  <2> TAKE b \in said
  <2>1. PICK t \in Nat \ {0}, p \in Nat, n \in Nat :
          /\ t = Tokens[b.kind] /\ p = (IF Form(b, agent) = "own" THEN 0 ELSE Prefix)
          /\ n = (IF b.id \in m.steered THEN Steering ELSE 0)
    BY <1>3, <1>4, <1>5
  <2>2. t + p + n \in Nat \ {0}
    OBVIOUS
  <2> QED
    BY <2>1, <2>2
<1> HIDE DEF Worth
<1>7. PICK f : f = [id \in ids |-> Worth(CHOOSE b \in said : b.id = id)]
  OBVIOUS
<1>8. \A id \in ids : (CHOOSE b \in said : b.id = id) \in said
  BY <1>2
<1>9. f \in [ids -> Nat \ {0}]
  BY <1>6, <1>7, <1>8
<1>10. ids \subseteq Int /\ ids \subseteq IdSet(m.old) \cup IdSet(m.new) \cup {reply.id}
  <2>1. \A b \in Bundles : b.id \in Int
    BY StandsType DEF Bundles, Heads
  <2> QED
    BY <1>2, <1>3, <2>1
<1>11. f \in Measures /\ DOMAIN f = ids
  BY <1>9, <1>10 DEF Measures
<1>12. Measure(m, agent, reply) = f
  BY <1>1, <1>2, <1>7 DEF Measure, Worth
<1> QED
  BY <1>10, <1>11, <1>12

\* The identifiers of a list of bundles.
LEMMA BundleIds ==
  ASSUME NEW s \in Seq(Bundles)
  PROVE  IdSet(s) \subseteq Int
<1>1. \A b \in Bundles : b.id \in Int
  BY StandsType DEF Bundles, Heads
<1> QED
  BY <1>1, ListType DEF IdSet

\* What is numbered stays numbered when more summaries and bundles were made.
LEMMA NumbersGrow ==
  ASSUME NEW lo \in Nat, NEW hi \in Nat, NEW lo2 \in Nat, NEW hi2 \in Nat, lo <= lo2, hi <= hi2
  PROVE  /\ \A w \in Measures : Weighed(w, lo, hi) => Weighed(w, lo2, hi2)
         /\ \A r \in Results \cup {NoResult} : Headed(r, lo) => Headed(r, lo2)
         /\ \A m \in Managers : NumberInv(m, lo, hi) => NumberInv(m, lo2, hi2)
         /\ rows \in Seq(Rows) /\ RowsDue(lo, hi) => RowsDue(lo2, hi2)
<1>1. \A x \in Int : (0 <= x + lo => 0 <= x + lo2) /\ (x <= hi => x <= hi2)
  OBVIOUS
<1>2. \A w \in Measures : Weighed(w, lo, hi) => Weighed(w, lo2, hi2)
  <2> SUFFICES ASSUME NEW w \in Measures, Weighed(w, lo, hi) PROVE Weighed(w, lo2, hi2)
    OBVIOUS
  <2>1. DOMAIN w \subseteq Int
    BY DEF Measures
  <2> QED
    BY <1>1, <2>1 DEF Weighed
<1>3. \A r \in Results \cup {NoResult} : Headed(r, lo) => Headed(r, lo2)
  <2> SUFFICES ASSUME NEW r \in Results, Headed(r, lo), r # NoResult PROVE 0 <= r.message.id + lo2
    BY DEF Headed
  <2>1. r.message.id \in Int
    BY DEF Results, Heads
  <2>2. 0 <= r.message.id + lo
    BY DEF Headed
  <2> QED
    BY <1>1, <2>1, <2>2
<1>4. \A m \in Managers : NumberInv(m, lo, hi) => NumberInv(m, lo2, hi2)
  <2> SUFFICES ASSUME NEW m \in Managers, NumberInv(m, lo, hi) PROVE NumberInv(m, lo2, hi2)
    OBVIOUS
  <2>1. m.measured \in Measures /\ m.summaries \in Results \cup {NoResult} /\ IdSet(m.old) \subseteq Int
    BY ManagerType, BundleIds
  <2> QED
    BY <1>1, <1>2, <1>3, <2>1 DEF NumberInv
<1>5. rows \in Seq(Rows) /\ RowsDue(lo, hi) => RowsDue(lo2, hi2)
  <2> SUFFICES ASSUME rows \in Seq(Rows), RowsDue(lo, hi) PROVE RowsDue(lo2, hi2)
    OBVIOUS
  <2>1. \A i \in DOMAIN rows : rows[i].measured \in Measures
    BY RowType DEF Rows
  <2> QED
    BY <1>2, <2>1 DEF RowsDue
<1> QED
  BY <1>2, <1>3, <1>4, <1>5

\* A summary that is saved.
LEMMA SavedType ==
  ASSUME NEW m \in Managers
  PROVE  LET m2 == [m EXCEPT !.summaries = NoResult, !.pc = IF @ = "tools" THEN "pause" ELSE @]
         IN  /\ m2 \in Managers /\ m2.run = m.run /\ m2.old = m.old /\ m2.new = m.new
             /\ m2.queue = m.queue /\ m2.runOf = m.runOf /\ m2.summaries = NoResult
             /\ m2.context = m.context /\ m2.pending = m.pending /\ m2.known = m.known /\ m2.measured = m.measured
             /\ m2.pc = IF m.pc = "tools" THEN "pause" ELSE m.pc
<1>1. PICK p \in PCs : p = IF m.pc = "tools" THEN "pause" ELSE m.pc
  BY ManagerType DEF PCs
<1>2. [m EXCEPT !.summaries = NoResult, !.pc = IF @ = "tools" THEN "pause" ELSE @]
        = [m EXCEPT !.summaries = NoResult, !.pc = p]
  BY <1>1 DEF Managers
<1>3. PICK none \in Results \cup {NoResult} : none = NoResult
  OBVIOUS
<1>4. LET m2 == [m EXCEPT !.summaries = none, !.pc = p]
      IN  /\ m2 \in Managers /\ m2.run = m.run /\ m2.old = m.old /\ m2.new = m.new
          /\ m2.queue = m.queue /\ m2.runOf = m.runOf /\ m2.summaries = none
          /\ m2.context = m.context /\ m2.pending = m.pending /\ m2.known = m.known /\ m2.measured = m.measured /\ m2.pc = p
  BY DEF Managers, PCs
<1> QED
  BY <1>1, <1>2, <1>3, <1>4

-----------------------------------------------------------------------------
(* Steps.                                                                  *)

\* Three lists weigh together what they weigh apart.
LEMMA TotalThree ==
  ASSUME NEW w \in Measures, NEW a \in Seq(Bundles), NEW b \in Seq(Bundles), NEW c \in Seq(Bundles)
  PROVE  /\ Total(w, a \o b \o c) = Total(w, a) + Total(w, b) + Total(w, c)
         /\ Total(w, a) \in Nat /\ Total(w, b) \in Nat /\ Total(w, c) \in Nat
<1>1. a \o b \in Seq(Bundles)
  BY ConcatProperties
<1>2. Total(w, a \o b \o c) = Total(w, a \o b) + Total(w, c)
  BY <1>1, TotalConcat
<1>3. Total(w, a \o b) = Total(w, a) + Total(w, b)
  BY TotalConcat
<1> QED
  BY <1>2, <1>3, TotalType

\* What holds of a manager at work.
LEMMA Working ==
  ASSUME Inv, mgr # Idle
  PROVE  /\ mgr \in Managers /\ ManagerInv(mgr) /\ Begun(mgr) /\ ManagerCount(mgr) /\ CountInv(mgr)
         /\ NumberInv(mgr, summaries, bundles) /\ RowsDue(summaries, bundles)
         /\ summaries \in Nat /\ bundles \in Nat
         /\ rows \in Seq(Rows) /\ RowsInv /\ settings \in [kind : {"llm", "window"}, keep : Nat \ {0}]
         /\ settings.kind \in {"llm", "window"}
BY DEF Inv, TypeOK

\* A step that leaves the thread alone preserves the invariant when the manager it
\* leads to fits.
LEMMA StepTo ==
  ASSUME Inv, rows' = rows, settings' = settings, NEW s, summary' = s, s \in Results \cup {NoResult}, ResultInv(s),
         bundles' \in Nat, bundles <= bundles', runs' \in Nat, runs <= runs', summaries' \in Nat,
         summaries <= summaries', failures' \in Nat, Headed(s, summaries'),
         NEW m2 \in Managers, mgr' = m2, NumberInv(m2, summaries', bundles'), ManagerInv(m2), Begun(m2), CountInv(m2), m2.run <= runs',
         \A x \in IdSet(m2.new) \cup IdSet(m2.queue) \cup DOMAIN m2.runOf : x <= bundles'
  PROVE  Inv'
<1>1. RowsInv' /\ ResultInv(summary)' /\ ManagerInv(mgr)' /\ Begun(mgr)'
  <2>1. RowsInv
    BY DEF Inv
  <2>2. /\ RowsInv' = RowsInv /\ \A r : ResultInv(r)' = ResultInv(r)
        /\ \A m : ManagerInv(m)' = ManagerInv(m)
        /\ \A m : Begun(m)' = Begun(m)
    BY SameThread
  <2>4. ResultInv(s)' /\ ManagerInv(m2)' /\ Begun(m2)'
    BY <2>1, <2>2
  <2> QED
    BY <2>1, <2>2, <2>4
<1>2. RowsCount'
  <2>1. /\ rows \in Seq(Rows) /\ RowsCount /\ runs \in Nat /\ bundles \in Nat
    BY DEF Inv, TypeOK
  <2>2. \A i \in DOMAIN rows : /\ rows[i].run \in Nat
                               /\ IdSet(rows[i].msgs) \subseteq Nat /\ IdSet(rows[i].queue) \subseteq Nat
    <3> TAKE i \in DOMAIN rows
    <3>1. rows[i].run \in Nat /\ rows[i].msgs \in Seq(Plain) /\ rows[i].queue \in Seq(Plain)
      BY <2>1, RowType
    <3> QED
      BY <3>1, PlainIds
  <2>3. ASSUME NEW i \in DOMAIN rows
        PROVE  rows[i].run <= runs' /\ \A x \in IdSet(rows[i].msgs) \cup IdSet(rows[i].queue) : x <= bundles'
    <3>1. rows[i].run <= runs /\ \A x \in IdSet(rows[i].msgs) \cup IdSet(rows[i].queue) : x <= bundles
      BY <2>1 DEF RowsCount
    <3>2. \A x \in Nat : x <= bundles => x <= bundles'
      BY <2>1
    <3>3. \A x \in Nat : x <= runs => x <= runs'
      BY <2>1
    <3> QED
      BY <2>2, <3>1, <3>2, <3>3
  <2> QED
    BY <2>3 DEF RowsCount
<1>3. ManagerCount(mgr)' /\ CountInv(mgr)'
  BY DEF ManagerCount, CountInv, Counts
<1>4. TypeOK'
  BY DEF Inv, TypeOK
<1>5. RowsDue(summaries, bundles)'
  <2>1. rows \in Seq(Rows) /\ RowsDue(summaries, bundles) /\ summaries \in Nat /\ bundles \in Nat
    BY DEF Inv, TypeOK
  <2>2. RowsDue(summaries', bundles')
    BY <2>1, NumbersGrow
  <2> QED
    BY <2>2 DEF RowsDue
<1>6. Headed(summary, summaries)' /\ NumberInv(mgr, summaries, bundles)'
  BY DEF Headed, NumberInv, Weighed
<1> QED
  BY <1>1, <1>2, <1>3, <1>4, <1>5, <1>6 DEF Inv

\* The same, when the summary stays.
LEMMA StepOf ==
  ASSUME Inv, rows' = rows, settings' = settings, summary' = summary,
         bundles' \in Nat, bundles <= bundles', runs' \in Nat, runs <= runs', summaries' \in Nat,
         summaries <= summaries', failures' \in Nat,
         NEW m2 \in Managers, mgr' = m2, NumberInv(m2, summaries', bundles'), ManagerInv(m2), Begun(m2), CountInv(m2), m2.run <= runs',
         \A x \in IdSet(m2.new) \cup IdSet(m2.queue) \cup DOMAIN m2.runOf : x <= bundles'
  PROVE  Inv'
<1>1. PICK s : s = summary
  OBVIOUS
<1>2. summary' = s /\ s \in Results \cup {NoResult} /\ ResultInv(s)
  BY <1>1 DEF Inv, TypeOK
<1>3. Headed(s, summaries')
  <2>1. Headed(s, summaries) /\ summaries \in Nat
    BY <1>1 DEF Inv, TypeOK
  <2> QED
    BY <1>2, <2>1, NumbersGrow
<1> QED
  BY <1>2, <1>3, StepTo

\* The bundles that a run makes.
LEMMA NewBundleType ==
  ASSUME bundles \in Nat, NEW kind \in PlainKinds, NEW sender \in Agents \cup {Human}
  PROVE  /\ NewBundle(kind, sender) \in Plain /\ NewBundle(kind, sender).id = bundles + 1
         /\ NewBundle(kind, sender).kind = kind
<1> DEFINE b == [id |-> bundles + 1, kind |-> kind, sender |-> sender, of |-> <<>>]
<1>1. NewBundle(kind, sender) = b
  BY DEF NewBundle, Bundle
<1>2. <<>> \in Seq(Int)
  OBVIOUS
<1>3. bundles + 1 \in Nat \ {0}
  OBVIOUS
<1>4. sender \in Senders
  BY Zenon DEF Senders
<1>5. /\ b \in [id : Nat \ {0}, kind : PlainKinds, sender : Senders, of : Seq(Int)]
      /\ b.of = <<>> /\ b.id = bundles + 1 /\ b.kind = kind
  BY <1>2, <1>3, <1>4
<1> HIDE DEF b
<1>6. b \in Plain
  BY <1>5 DEF Plain
<1> QED
  BY <1>1, <1>5, <1>6

\* A bundle whose weight is estimated adds as much to the count as to the lists.
LEMMA EstimateCounts ==
  ASSUME NEW m \in Managers, NEW b \in Plain, NEW queue \in BOOLEAN, Counts(m), b.id \notin DOMAIN m.measured
  PROVE  Counts(processIncoming(m, b, queue, TRUE))
<1>1. PICK m2 : m2 = processIncoming(m, b, queue, TRUE)
  OBVIOUS
<1>2. /\ m2 \in Managers /\ m2.old = m.old /\ m2.context = m.context /\ m2.known = m.known /\ m2.measured = m.measured
      /\ m2.pending = m.pending + estimateBundleTokens(b)
      /\ m2.new = IF queue THEN m.new ELSE Append(m.new, b)
      /\ m2.queue = IF queue THEN Append(m.queue, b) ELSE m.queue
  BY <1>1, ArrivedType
<1>3. PICK w \in Nat : w = estimateBundleTokens(b)
  BY WeightType
<1>4. PICK o \in Seq(Bundles), n \in Seq(Plain), q \in Seq(Plain), n2 \in Seq(Plain), q2 \in Seq(Plain) :
           o = m.old /\ n = m.new /\ q = m.queue /\ n2 = m2.new /\ q2 = m2.queue
  BY <1>2, ManagerType
<1>v. PICK v \in Measures : v = m.measured /\ Weight(v, b) = w
  <2>1. PICK v \in Measures : v = m.measured
    BY ManagerType
  <2>2. Weight(v, b) = estimateBundleTokens(b)
    BY <2>1, WeighsType
  <2> QED
    BY <1>3, <2>1, <2>2
<1>5. Total(v, n2) + Total(v, q2) = Total(v, n) + Total(v, q) + w
  <2>1. Total(v, Append(n, b)) = Total(v, n) + w /\ Total(v, Append(q, b)) = Total(v, q) + w
    BY <1>3, <1>v, TotalAppend
  <2>2. Total(v, n) \in Nat /\ Total(v, q) \in Nat
    BY TotalType
  <2>3. CASE queue
    <3>1. n2 = n /\ q2 = Append(q, b)
      BY <1>2, <1>4, <2>3
    <3> QED
      BY <2>1, <2>2, <3>1
  <2>4. CASE ~queue
    <3>1. n2 = Append(n, b) /\ q2 = q
      BY <1>2, <1>4, <2>4
    <3> QED
      BY <2>1, <2>2, <3>1
  <2> QED
    BY <2>3, <2>4
<1>6. /\ n \in Seq(Bundles) /\ q \in Seq(Bundles) /\ n2 \in Seq(Bundles) /\ q2 \in Seq(Bundles)
  BY PlainLists
<1>7. /\ Total(v, o \o n \o q) = Total(v, o) + Total(v, n) + Total(v, q)
      /\ Total(v, o \o n2 \o q2) = Total(v, o) + Total(v, n2) + Total(v, q2)
      /\ Total(v, o) \in Nat /\ Total(v, n) \in Nat /\ Total(v, q) \in Nat /\ Total(v, n2) \in Nat /\ Total(v, q2) \in Nat
  BY <1>6, TotalThree
<1>8. Total(v, o \o n2 \o q2) = Total(v, o \o n \o q) + w
  <2>1. PICK a \in Nat, c \in Nat, d \in Nat, c2 \in Nat, d2 \in Nat :
          a = Total(v, o) /\ c = Total(v, n) /\ d = Total(v, q) /\ c2 = Total(v, n2) /\ d2 = Total(v, q2)
    BY <1>7
  <2>2. c2 + d2 = c + d + w
    BY <1>5, <2>1
  <2>3. a + c2 + d2 = a + c + d + w
    BY <2>2
  <2>4. Total(v, o \o n2 \o q2) = a + c2 + d2 /\ Total(v, o \o n \o q) = a + c + d
    BY <1>7, <2>1
  <2> QED
    BY <2>3, <2>4
<1>9. PICK t \in Nat : t = Total(v, o \o n \o q)
  BY <1>7
<1>10. m.context \in Nat /\ m.pending \in Nat
  BY ManagerType
<1>11. m.known => m.context + m.pending >= t
  BY <1>4, <1>9, <1>v DEF Counts
<1>12. m2.known => m2.context + m2.pending >= t + w
  BY <1>2, <1>3, <1>10, <1>11
<1>13. Total(m2.measured, m2.old \o m2.new \o m2.queue) = t + w
  BY <1>2, <1>4, <1>8, <1>9, <1>v
<1>14. Counts(m2)
  BY <1>12, <1>13 DEF Counts
<1> QED
  BY <1>1, <1>14

\* The loaded half is made of bundles that were made.
LEMMA OldNumbers ==
  ASSUME rows \in Seq(Rows), RowsCount, bundles \in Nat, NEW m \in Managers, ManagerInv(m)
  PROVE  \A x \in IdSet(m.old) : x <= bundles
<1>1. PICK k \in 0..Len(rows) : Holds(m, k)
  BY DEF ManagerInv
<1>2. PICK H \in Seq(Bundles) : /\ m.old = H \o Rest(k) /\ Len(H) <= 1
                                /\ H # <<>> => H = <<m.old[1]>> /\ HeadInv(m, m.old[1], k)
  BY <1>1, Loaded
<1>3. IdSet(m.old) = IdSet(H) \cup IdSet(Rest(k))
  <2>1. PICK R \in Seq(Bundles) : R = Rest(k)
    BY <1>1, RestSteps, PlainLists
  <2>2. IdSet(H \o R) = IdSet(H) \cup IdSet(R)
    BY IdSetConcat
  <2> QED
    BY <1>2, <2>1, <2>2
<1>4. \A x \in IdSet(Rest(k)) : x <= bundles
  <2>1. \A i \in DOMAIN Rest(k) : \E j \in (k + 1)..Len(rows) : Rest(k)[i].id \in IdSet(rows[j].msgs)
    BY <1>1, UptoAndRest
  <2>2. \A j \in (k + 1)..Len(rows) : j \in DOMAIN rows
    BY <1>1, RowType
  <2> QED
    BY <2>1, <2>2 DEF IdSet, RowsCount
<1>5. \A x \in IdSet(H) : x <= bundles
  <2>1. CASE H = <<>>
    BY <2>1, IdSetNothing
  <2>2. CASE H # <<>>
    <3>1. H = <<m.old[1]>> /\ HeadInv(m, m.old[1], k)
      BY <1>2, <2>2
    <3>2. PICK h : h = m.old[1]
      OBVIOUS
    <3>3. h \in Heads /\ H = <<h>>
      BY <3>1, <3>2 DEF HeadInv
    <3>4. IdSet(H) = {h.id}
      BY <3>3, IdSetOne
    <3>5. h.id \in Int /\ h.id <= 0
      BY <3>3 DEF Heads
    <3>6. h.id <= bundles
      BY <3>5
    <3> QED
      BY <3>4, <3>6
  <2> QED
    BY <2>1, <2>2
<1> QED
  BY <1>3, <1>4, <1>5

\* A step in which a bundle arrives, of a manager that fits.
LEMMA ArrivalAt ==
  ASSUME Inv, rows' = rows, settings' = settings, summary' = summary,
         bundles' = bundles + 1, runs' \in Nat, runs <= runs', summaries' = summaries, failures' = failures,
         NEW m \in Managers, ManagerInv(m), m.run <= runs',
         \A x \in IdSet(m.new) \cup IdSet(m.queue) \cup DOMAIN m.runOf : x <= bundles,
         NEW b \in Plain, b.id = bundles + 1, NEW queue \in BOOLEAN, queue => Begun(m),
         NEW m2 \in Managers, mgr' = m2, CountInv(m2), NumberInv(m, summaries, bundles),
         Weighed(m2.measured, summaries', bundles'),
         m2.run = m.run, m2.old = m.old, m2.summaries = m.summaries,
         m2.runOf = Extended(m.runOf, b.id, m.run),
         m2.new = IF queue THEN m.new ELSE Append(m.new, b),
         m2.queue = IF queue THEN Append(m.queue, b) ELSE m.queue
  PROVE  Inv'
<1>1. rows \in Seq(Rows) /\ RowsInv /\ RowsCount /\ bundles \in Nat /\ runs \in Nat /\ summaries \in Nat /\ failures \in Nat
  BY DEF Inv, TypeOK
<1>2. ~(b.id <= bundles)
  BY <1>1
<1>3. b.id \notin DOMAIN m.runOf /\ b.id \notin IdSet(m.new) \cup IdSet(m.queue)
  BY <1>2
<1>4. \A i \in DOMAIN rows : b.id \notin IdSet(rows[i].msgs)
  BY <1>1, <1>2 DEF RowsCount
<1>5. /\ DOMAIN m2.runOf = DOMAIN m.runOf \cup {b.id} /\ m2.runOf[b.id] = m.run
      /\ \A x \in DOMAIN m.runOf : m2.runOf[x] = m.runOf[x]
  BY <1>3 DEF Extended
<1>6. \/ m2.new = Append(m.new, b) /\ m2.queue = m.queue
      \/ m2.new = m.new /\ m2.queue = Append(m.queue, b)
  OBVIOUS
<1>7. /\ ManagerInv(m2)
       /\ IdSet(m2.new) \cup IdSet(m2.queue) = IdSet(m.new) \cup IdSet(m.queue) \cup {b.id}
  BY <1>1, <1>3, <1>4, <1>5, <1>6, Arrives
<1>8. Begun(m2)
  <2>1. m.new \in Seq(Plain)
    BY ManagerType
  <2>2. Append(m.new, b) # <<>>
    <3>1. Append(m.new, b) \in Seq(Plain) /\ Len(Append(m.new, b)) = Len(m.new) + 1 /\ Len(m.new) \in Nat
      BY <2>1, AppendProperties, LenProperties
    <3>2. PICK a \in Seq(Plain), l \in Nat : a = Append(m.new, b) /\ Len(a) = l + 1
      BY <3>1
    <3>3. Len(a) # 0
      BY <3>2
    <3>4. a # <<>>
      BY <3>3, EmptySeq
    <3> QED
      BY <3>2, <3>4
  <2>3. Resumes(m2) = Resumes(m)
    BY DEF Resumes
  <2> QED
    BY <2>2, <2>3 DEF Begun
<1>9. m2.run <= runs'
  OBVIOUS
<1>10. \A x \in IdSet(m2.new) \cup IdSet(m2.queue) \cup DOMAIN m2.runOf : x <= bundles'
  <2>1. \A x \in IdSet(m.new) \cup IdSet(m.queue) \cup DOMAIN m.runOf : x \in Int /\ x <= bundles
    <3>1. IdSet(m.new) \subseteq Int /\ IdSet(m.queue) \subseteq Int
      <4>1. IdSet(m.new) \subseteq Nat \ {0} /\ IdSet(m.queue) \subseteq Nat \ {0}
        BY ManagerType, PlainIds
      <4> QED
        BY <4>1
    <3> QED
      BY <3>1, ManagerType
  <2>2. \A x \in Int : x <= bundles => x <= bundles'
    BY <1>1
  <2>3. b.id <= bundles'
    BY <1>1
  <2> QED
    BY <1>5, <1>7, <2>1, <2>2, <2>3
<1>11. bundles' \in Nat /\ bundles <= bundles' /\ summaries' \in Nat /\ summaries <= summaries' /\ failures' \in Nat
  BY <1>1
<1>12. NumberInv(m2, summaries', bundles')
  BY DEF NumberInv
<1> QED
  BY <1>7, <1>8, <1>9, <1>10, <1>11, <1>12, StepOf

\* A step in which a bundle arrives while a run works.
LEMMA ArrivalStep ==
  ASSUME Inv, mgr # Idle, rows' = rows, settings' = settings, summary' = summary,
         bundles' = bundles + 1, runs' = runs, summaries' = summaries, failures' = failures,
         NEW b \in Plain, b.id = bundles + 1, NEW queue \in BOOLEAN, NEW m2 \in Managers, mgr' = m2, CountInv(m2),
         Weighed(m2.measured, summaries', bundles'),
         m2.run = mgr.run, m2.old = mgr.old, m2.summaries = mgr.summaries,
         m2.runOf = Extended(mgr.runOf, b.id, mgr.run),
         m2.new = IF queue THEN mgr.new ELSE Append(mgr.new, b),
         m2.queue = IF queue THEN Append(mgr.queue, b) ELSE mgr.queue
  PROVE  Inv'
<1>1. PICK m \in Managers : /\ m = mgr /\ ManagerInv(m) /\ Begun(m) /\ ManagerCount(m)
                            /\ NumberInv(m, summaries, bundles)
  BY Working
<1>2. runs' \in Nat /\ runs <= runs'
  BY DEF Inv, TypeOK
<1>3. m.run <= runs' /\ \A x \in IdSet(m.new) \cup IdSet(m.queue) \cup DOMAIN m.runOf : x <= bundles
  BY <1>1 DEF ManagerCount
<1>4. /\ m2.run = m.run /\ m2.old = m.old /\ m2.summaries = m.summaries
      /\ m2.runOf = Extended(m.runOf, b.id, m.run)
      /\ m2.new = IF queue THEN m.new ELSE Append(m.new, b)
      /\ m2.queue = IF queue THEN Append(m.queue, b) ELSE m.queue
  BY <1>1
<1> QED
  BY <1>1, <1>2, <1>3, <1>4, ArrivalAt

\* A message is queued while the run works.
LEMMA QueueStep ==
  ASSUME Inv, AddMessagesToQueue
  PROVE  Inv'
<1>1. mgr # Idle /\ mgr.pc \in {"call", "tools"}
  BY DEF AddMessagesToQueue, Idle
<1>2. mgr \in Managers /\ CountInv(mgr) /\ bundles \in Nat
  BY <1>1, Working DEF Inv, TypeOK
<1>3. PICK b \in Plain : b = NewBundle("user", Human) /\ b.id = bundles + 1
  <2>1. "user" \in PlainKinds /\ Human \in Agents \cup {Human}
    BY DEF PlainKinds
  <2> QED
    BY <1>2, <2>1, NewBundleType
<1>w. b.id \notin DOMAIN mgr.measured /\ Weighed(mgr.measured, summaries', bundles')
  <2>1. Weighed(mgr.measured, summaries, bundles) /\ mgr.measured \in Measures
    BY <1>1, <1>2, Working, ManagerType DEF NumberInv
  <2>2. ~(b.id <= bundles)
    BY <1>2, <1>3
  <2>3. bundles + 1 \in Nat /\ bundles <= bundles + 1 /\ summaries \in Nat /\ bundles \in Nat /\ summaries <= summaries
    BY <1>1, Working
  <2>4. Weighed(mgr.measured, summaries, bundles + 1)
    BY <2>1, <2>3, NumbersGrow
  <2>5. summaries' = summaries /\ bundles' = bundles + 1
    BY DEF AddMessagesToQueue
  <2>6. b.id \notin DOMAIN mgr.measured
    BY <2>1, <2>2 DEF Weighed
  <2> QED
    BY <2>4, <2>5, <2>6
<1>4. PICK m2 : m2 = processIncoming(mgr, b, TRUE, TRUE)
  OBVIOUS
<1>5. /\ m2 \in Managers /\ m2.pc = mgr.pc /\ m2.run = mgr.run /\ m2.old = mgr.old /\ m2.summaries = mgr.summaries
      /\ m2.runOf = Extended(mgr.runOf, b.id, mgr.run) /\ m2.new = mgr.new /\ m2.queue = Append(mgr.queue, b)
      /\ m2.measured = mgr.measured
  BY <1>2, <1>4, ArrivedType
<1>6. CountInv(m2)
  <2>1. Counts(m2)
    BY <1>2, <1>4, <1>w, EstimateCounts DEF CountInv
  <2> QED
    BY <1>1, <1>5, <2>1 DEF CountInv
<1>7. /\ mgr' = m2 /\ bundles' = bundles + 1 /\ rows' = rows /\ settings' = settings /\ summary' = summary
      /\ runs' = runs /\ summaries' = summaries /\ failures' = failures
  BY <1>3, <1>4 DEF AddMessagesToQueue
<1> QED
  BY <1>1, <1>3, <1>5, <1>6, <1>7, <1>w, ArrivalStep

\* A bundle whose weight is estimated arrives, and the run goes on elsewhere.
LEMMA AddStep ==
  ASSUME Inv, mgr # Idle, NEW kind \in PlainKinds, NEW pc \in PCs \ {"asked"},
         mgr' = [AddMessages(mgr, NewBundle(kind, Human)) EXCEPT !.pc = pc], bundles' = bundles + 1,
         rows' = rows, settings' = settings, summary' = summary, runs' = runs, summaries' = summaries, failures' = failures
  PROVE  Inv'
<1>1. mgr \in Managers /\ CountInv(mgr) /\ bundles \in Nat
  BY Working DEF Inv, TypeOK
<1>2. PICK b \in Plain : b = NewBundle(kind, Human) /\ b.id = bundles + 1
  <2>1. Human \in Agents \cup {Human}
    OBVIOUS
  <2> QED
    BY <1>1, <2>1, NewBundleType
<1>w. b.id \notin DOMAIN mgr.measured /\ Weighed(mgr.measured, summaries', bundles')
  <2>1. Weighed(mgr.measured, summaries, bundles) /\ mgr.measured \in Measures
    BY <1>1, Working, ManagerType DEF NumberInv
  <2>2. ~(b.id <= bundles)
    BY <1>1, <1>2
  <2>3. bundles + 1 \in Nat /\ bundles <= bundles + 1 /\ summaries \in Nat /\ bundles \in Nat /\ summaries <= summaries
    BY Working
  <2>4. Weighed(mgr.measured, summaries, bundles + 1)
    BY <2>1, <2>3, NumbersGrow
  <2>5. summaries' = summaries /\ bundles' = bundles + 1
    OBVIOUS
  <2>6. b.id \notin DOMAIN mgr.measured
    BY <2>1, <2>2 DEF Weighed
  <2> QED
    BY <2>4, <2>5, <2>6
<1>3. PICK m1, m2 : m1 = processIncoming(mgr, b, FALSE, TRUE) /\ m2 = [m1 EXCEPT !.pc = pc]
  OBVIOUS
<1>4. /\ m1 \in Managers /\ m1.run = mgr.run /\ m1.old = mgr.old /\ m1.summaries = mgr.summaries
      /\ m1.runOf = Extended(mgr.runOf, b.id, mgr.run) /\ m1.new = Append(mgr.new, b) /\ m1.queue = mgr.queue
      /\ m1.measured = mgr.measured
  BY <1>1, <1>3, ArrivedType
<1>5. /\ m2 \in Managers /\ m2.pc = pc /\ m2.run = m1.run /\ m2.old = m1.old /\ m2.new = m1.new
      /\ m2.queue = m1.queue /\ m2.runOf = m1.runOf /\ m2.summaries = m1.summaries
      /\ m2.context = m1.context /\ m2.pending = m1.pending /\ m2.known = m1.known /\ m2.measured = m1.measured
  BY <1>3, <1>4, PlaceType
<1>6. CountInv(m2)
  <2>1. Counts(m1)
    BY <1>1, <1>3, <1>w, EstimateCounts DEF CountInv
  <2> QED
    BY <1>5, <2>1 DEF CountInv, Counts
<1>10. Weighed(m2.measured, summaries', bundles')
  BY <1>4, <1>5, <1>w
<1>7. mgr' = m2
  BY <1>2, <1>3 DEF AddMessages
<1>8. /\ m2.run = mgr.run /\ m2.old = mgr.old /\ m2.summaries = mgr.summaries
      /\ m2.runOf = Extended(mgr.runOf, b.id, mgr.run) /\ m2.new = Append(mgr.new, b) /\ m2.queue = mgr.queue
  BY <1>4, <1>5
<1>9. FALSE \in BOOLEAN
  OBVIOUS
<1> QED
  BY <1>2, <1>5, <1>6, <1>7, <1>8, <1>9, <1>10, ArrivalStep

\* The tools ran.
LEMMA ToolsStep ==
  ASSUME Inv, Tools
  PROVE  Inv'
<1>1. mgr # Idle
  BY DEF Tools, Idle
<1>2. "tool" \in PlainKinds /\ "call" \in PCs \ {"asked"}
  BY DEF PlainKinds, PCs
<1>3. /\ mgr' = [AddMessages(mgr, NewBundle("tool", Human)) EXCEPT !.pc = "call"] /\ bundles' = bundles + 1
      /\ rows' = rows /\ settings' = settings /\ summary' = summary
      /\ runs' = runs /\ summaries' = summaries /\ failures' = failures
  BY DEF Tools
<1> QED
  BY <1>1, <1>2, <1>3, AddStep

\* A stop.
LEMMA StopStep ==
  ASSUME Inv, Stop
  PROVE  Inv'
<1>1. mgr # Idle
  BY DEF Stop, Idle
<1>2. "notice" \in PlainKinds /\ "save" \in PCs \ {"asked"}
  BY DEF PlainKinds, PCs
<1>3. /\ mgr' = [AddMessages(mgr, NewBundle("notice", Human)) EXCEPT !.pc = "save"] /\ bundles' = bundles + 1
      /\ rows' = rows /\ settings' = settings /\ summary' = summary
      /\ runs' = runs /\ summaries' = summaries /\ failures' = failures
  BY DEF Stop
<1> QED
  BY <1>1, <1>2, <1>3, AddStep

\* A reply: its usage measures what was asked and the reply itself, or nobody does.
LEMMA ReplyStep ==
  ASSUME Inv, NEW agent \in Agents, NEW reported \in BOOLEAN, Reply(agent, reported)
  PROVE  Inv'
<1>1. mgr # Idle /\ mgr.pc = "asked"
  BY DEF Reply, Idle
<1>2. /\ mgr \in Managers /\ mgr.queue = <<>> /\ bundles \in Nat /\ summaries \in Nat
      /\ ManagerInv(mgr) /\ ManagerCount(mgr) /\ NumberInv(mgr, summaries, bundles)
      /\ rows \in Seq(Rows) /\ RowsCount
  BY <1>1, Working DEF CountInv, Inv
<1>3. PICK b \in Plain : b = NewBundle("reply", agent) /\ b.id = bundles + 1 /\ b.kind = "reply"
  <2>1. "reply" \in PlainKinds /\ agent \in Agents \cup {Human}
    BY DEF PlainKinds
  <2> QED
    BY <1>2, <2>1, NewBundleType
<1>4. PICK w \in Measures : w = Measure(mgr, agent, b) /\ DOMAIN w \subseteq IdSet(mgr.old) \cup IdSet(mgr.new) \cup {b.id}
  BY <1>2, MeasureType
<1>5. PICK o \in Seq(Bundles), n \in Seq(Plain), n2 \in Seq(Plain) : o = mgr.old /\ n = mgr.new /\ n2 = Append(n, b)
  BY <1>2, ManagerType, AppendProperties
<1>6. /\ o \o n \in Seq(Bundles) /\ o \o n2 \in Seq(Bundles) /\ o \o n2 = Append(o \o n, b)
  <2>1. b \in Bundles /\ n \in Seq(Bundles) /\ n2 \in Seq(Bundles)
    BY PlainLists
  <2>2. o \o Append(n, b) = Append(o \o n, b)
    BY <2>1, AppendToBoth
  <2> QED
    BY <1>5, <2>1, <2>2, ConcatProperties
<1>7. PICK t \in Nat : t = Total(w, o \o n2)
  BY <1>6, TotalType
<1>8. PICK m0 : m0 = IF reported THEN [TrackUsage(mgr, t) EXCEPT !.measured = w, !.known = TRUE]
                     ELSE [mgr EXCEPT !.known = FALSE]
  OBVIOUS
<1>9. /\ m0 \in Managers /\ m0.run = mgr.run /\ m0.old = mgr.old /\ m0.new = mgr.new
      /\ m0.queue = mgr.queue /\ m0.runOf = mgr.runOf /\ m0.summaries = mgr.summaries
      /\ m0.measured \in {w, mgr.measured}
      /\ m0.known => m0.context = t /\ m0.pending = 0 /\ m0.measured = w
  <2>0. PICK m \in Managers : m = mgr
    BY <1>2
  <2>1. CASE reported
    <3>1. m0 = Told(m, t, w)
      BY <1>8, <2>0, <2>1 DEF Told
    <3>2. /\ m0 \in Managers /\ m0.run = m.run /\ m0.old = m.old /\ m0.new = m.new
          /\ m0.queue = m.queue /\ m0.runOf = m.runOf /\ m0.summaries = m.summaries
          /\ m0.context = t /\ m0.pending = 0 /\ m0.measured = w
      BY <3>1, MeasuredType
    <3> QED
      BY <2>0, <3>2
  <2>2. CASE ~reported
    <3>1. m0 = [m EXCEPT !.known = FALSE]
      BY <1>8, <2>0, <2>2
    <3> QED
      BY <2>0, <3>1, UnmeasuredType
  <2> QED
    BY <2>1, <2>2
<1>10. PICK m1 : m1 = processIncoming(m0, b, FALSE, FALSE)
  OBVIOUS
<1>11. /\ m1 \in Managers /\ m1.run = m0.run /\ m1.old = m0.old /\ m1.summaries = m0.summaries
       /\ m1.context = m0.context /\ m1.pending = m0.pending /\ m1.known = m0.known /\ m1.measured = m0.measured
       /\ m1.runOf = Extended(m0.runOf, b.id, m0.run) /\ m1.new = Append(m0.new, b) /\ m1.queue = m0.queue
  BY <1>9, <1>10, ArrivedType
<1>12. PICK pc \in {"tools", "save"} : mgr' = [m1 EXCEPT !.pc = pc]
  <2>1. t = Total(Measure(mgr, agent, b), Append(mgr.old \o mgr.new, b))
    BY <1>4, <1>5, <1>6, <1>7
  <2> QED
    BY <1>3, <1>4, <1>8, <1>10, <2>1 DEF Reply
<1>13. PICK m2 : m2 = [m1 EXCEPT !.pc = pc]
  OBVIOUS
<1>14. /\ m2 \in Managers /\ m2.pc = pc /\ m2.run = m1.run /\ m2.old = m1.old /\ m2.new = m1.new
       /\ m2.queue = m1.queue /\ m2.runOf = m1.runOf /\ m2.summaries = m1.summaries
       /\ m2.context = m1.context /\ m2.pending = m1.pending /\ m2.known = m1.known /\ m2.measured = m1.measured
  <2>1. pc \in PCs
    BY DEF PCs
  <2> QED
    BY <1>11, <1>13, <2>1, PlaceType
<1>15. /\ m2.run = mgr.run /\ m2.old = mgr.old /\ m2.summaries = mgr.summaries
       /\ m2.runOf = Extended(mgr.runOf, b.id, mgr.run) /\ m2.new = Append(mgr.new, b) /\ m2.queue = mgr.queue
       /\ m2.measured \in {w, mgr.measured}
       /\ m2.known => m2.context = t /\ m2.pending = 0 /\ m2.measured = w
  BY <1>9, <1>11, <1>14
<1>16. CountInv(m2)
  <2>1. m2.old \o m2.new \o m2.queue = o \o n2
    BY <1>2, <1>5, <1>6, <1>15, ConcatEmptySeq
  <2>2. Counts(m2)
    BY <1>7, <1>15, <2>1 DEF Counts
  <2> QED
    BY <1>14, <2>2 DEF CountInv
<1>17. /\ mgr' = m2 /\ bundles' = bundles + 1 /\ rows' = rows /\ settings' = settings /\ summary' = summary
       /\ runs' = runs /\ summaries' = summaries /\ failures' = failures
  BY <1>12, <1>13 DEF Reply
<1>18. Weighed(m2.measured, summaries', bundles')
  <2>1. bundles + 1 \in Nat /\ bundles <= bundles + 1 /\ summaries <= summaries
    BY <1>2
  <2>2. Weighed(mgr.measured, summaries, bundles + 1)
    BY <1>2, <2>1, ManagerType, NumbersGrow DEF NumberInv
  <2>3. \A x \in IdSet(mgr.old) : x \in Int /\ 0 <= x + summaries /\ x <= bundles
    BY <1>2, OldNumbers, ManagerType, BundleIds DEF NumberInv
  <2>4. \A x \in IdSet(mgr.new) : x \in Nat /\ x <= bundles
    <3>1. IdSet(mgr.new) \subseteq Nat \ {0}
      BY <1>2, ManagerType, PlainIds
    <3> QED
      BY <1>2, <3>1 DEF ManagerCount
  <2>5. \A x \in Int : x <= bundles => x <= bundles + 1
    BY <1>2
  <2>6. \A x \in Nat : 0 <= x + summaries
    BY <1>2
  <2>7. 0 <= b.id + summaries /\ b.id <= bundles + 1
    BY <1>2, <1>3
  <2>8. Weighed(w, summaries, bundles + 1)
    BY <1>4, <2>3, <2>4, <2>5, <2>6, <2>7 DEF Weighed
  <2> QED
    BY <1>15, <1>17, <2>2, <2>8
<1>19. FALSE \in BOOLEAN
  OBVIOUS
<1> QED
  BY <1>1, <1>3, <1>14, <1>15, <1>16, <1>17, <1>18, <1>19, ArrivalStep

\* The summary is saved.
LEMMA SaveSummaryStep ==
  ASSUME Inv, SaveSummary
  PROVE  Inv'
<1>1. mgr # Idle /\ mgr.pc \in {"save", "tools", "pause"}
  BY DEF SaveSummary, Idle
<1>2. /\ mgr \in Managers /\ ManagerInv(mgr) /\ Begun(mgr) /\ ManagerCount(mgr) /\ CountInv(mgr)
      /\ NumberInv(mgr, summaries, bundles) /\ bundles \in Nat /\ runs \in Nat /\ summaries \in Nat /\ failures \in Nat
  BY <1>1, Working DEF Inv, TypeOK
<1>3. PICK m, m2, s :
        /\ m = mgr /\ s = mgr.summaries
        /\ m2 = [m EXCEPT !.summaries = NoResult, !.pc = IF @ = "tools" THEN "pause" ELSE @]
  OBVIOUS
<1>4. /\ m2 \in Managers /\ m2.run = m.run /\ m2.old = m.old /\ m2.new = m.new
      /\ m2.queue = m.queue /\ m2.runOf = m.runOf /\ m2.summaries = NoResult
      /\ m2.context = m.context /\ m2.pending = m.pending /\ m2.known = m.known /\ m2.measured = m.measured
      /\ m2.pc = IF m.pc = "tools" THEN "pause" ELSE m.pc
  BY <1>2, <1>3, SavedType
<1>5. s \in Results \cup {NoResult} /\ ResultInv(s)
  BY <1>2, <1>3, ManagerType DEF ManagerInv
<1>6. m \in Managers /\ ManagerInv(m) /\ m2.summaries \in {m.summaries, NoResult} /\ m2.new = m.new /\ m2.queue = m.queue
  BY <1>2, <1>3, <1>4
<1>7. ManagerInv(m2)
  BY <1>4, <1>6, MovesOn
<1>8. Begun(m2) /\ CountInv(m2)
  <2>1. m2.pc # "asked"
    BY <1>1, <1>3, <1>4
  <2>2. Begun(m) /\ Counts(m)
    BY <1>2, <1>3 DEF CountInv
  <2> QED
    BY <1>4, <2>1, <2>2 DEF Begun, Resumes, CountInv, Counts
<1>9. m2.run <= runs /\ \A x \in IdSet(m2.new) \cup IdSet(m2.queue) \cup DOMAIN m2.runOf : x <= bundles
  BY <1>2, <1>3, <1>4 DEF ManagerCount
<1>10. /\ mgr' = m2 /\ summary' = s /\ rows' = rows /\ settings' = settings
       /\ bundles' = bundles /\ runs' = runs /\ summaries' = summaries /\ failures' = failures
  BY <1>3 DEF SaveSummary
<1>11. bundles' \in Nat /\ bundles <= bundles' /\ runs' \in Nat /\ runs <= runs' /\ summaries' \in Nat /\ failures' \in Nat
  BY <1>2, <1>10
<1>12. m2.run <= runs' /\ \A x \in IdSet(m2.new) \cup IdSet(m2.queue) \cup DOMAIN m2.runOf : x <= bundles'
  BY <1>9, <1>10
<1>13. Headed(s, summaries') /\ NumberInv(m2, summaries', bundles') /\ summaries <= summaries'
  <2>1. NumberInv(m, summaries, bundles)
    BY <1>2, <1>3
  <2>2. Headed(NoResult, summaries)
    BY DEF Headed
  <2>3. Headed(s, summaries) /\ NumberInv(m2, summaries, bundles)
    BY <1>3, <1>4, <2>1, <2>2 DEF NumberInv
  <2> QED
    BY <1>2, <1>10, <2>3
<1> QED
  BY <1>4, <1>5, <1>7, <1>8, <1>10, <1>11, <1>12, <1>13, StepTo

\* What the prompt stands for, when the manager holds the thread.
LEMMA PromptStands ==
  ASSUME rows \in Seq(Rows), RowsInv, settings.kind \in {"llm", "window"},
         NEW m \in Managers, ManagerInv(m), Placed(m), m.queue = <<>>
  PROVE  LET shown == Covers(m.old \o m.new)
             due == Transcript \o Ids(m.new)
         IN  IF settings.kind = "llm" THEN shown = due
             ELSE IsSuffix(shown, due) /\ {id \in DOMAIN m.runOf : m.runOf[id] = m.run} \subseteq ToSet(shown)
<1>1. PICK k \in 0..Len(rows) : Holds(m, k)
  BY DEF ManagerInv
<1>2. PICK H \in Seq(Bundles) :
           /\ m.old = H \o Rest(k) /\ Len(H) <= 1
           /\ H = <<>> => (settings.kind = "llm" => k = 0)
           /\ H # <<>> => H = <<m.old[1]>> /\ HeadInv(m, m.old[1], k)
           /\ settings.kind = "llm" /\ (Placed(m) \/ k < Len(rows)) => Covers(H) = Upto(k)
  BY <1>1, Loaded
<1>3. PICK R \in Seq(Bundles), new \in Seq(Bundles) :
           /\ R = Rest(k) /\ new = m.new /\ R \in Seq(Plain) /\ new \in Seq(Plain)
  BY <1>1, RestSteps, PlainLists, ManagerType
<1>4. PICK r, n, u, h : r = Ids(R) /\ n = Ids(new) /\ u = Upto(k) /\ h = Covers(H)
  OBVIOUS
<1>5. r \in Seq(Int) /\ n \in Seq(Int) /\ u \in Seq(Int) /\ h \in Seq(Int)
  <2>1. h \in Seq(Int)
    BY <1>4, CoversConcat
  <2>2. u \in Seq(Int)
    BY <1>1, <1>4, UptoSteps
  <2> QED
    BY <1>3, <1>4, <2>1, <2>2, IdsType
<1>6. Covers(m.old \o m.new) = h \o (r \o n)
  <2>1. Covers(R) = r /\ Covers(new) = n
    BY <1>3, <1>4, CoversPlain
  <2>2. H \o R \in Seq(Bundles)
    BY ConcatProperties
  <2>3. Covers((H \o R) \o new) = Covers(H \o R) \o Covers(new)
    BY <2>2, CoversConcat
  <2>4. Covers(H \o R) = Covers(H) \o Covers(R)
    BY CoversConcat
  <2>5. (h \o r) \o n = h \o (r \o n)
    BY <1>5, JoinedThrice
  <2> QED
    BY <1>2, <1>3, <1>4, <2>1, <2>3, <2>4, <2>5
<1>7. Transcript \o Ids(m.new) = u \o (r \o n)
  <2>1. u \o r = Transcript
    BY <1>1, <1>3, <1>4, UptoAndRest
  <2>2. (u \o r) \o n = u \o (r \o n)
    BY <1>5, JoinedThrice
  <2> QED
    BY <1>3, <1>4, <2>1, <2>2
<1>8. CASE settings.kind = "llm"
  BY <1>2, <1>4, <1>6, <1>7, <1>8
<1>9. CASE settings.kind = "window"
  <2>1. h = <<>>
    <3>1. CASE H = <<>>
      BY <1>4, <3>1, CoversNothing
    <3>2. CASE H # <<>>
      <4>1. PICK b \in Heads : H = <<b>> /\ b.kind = "empty"
        BY <1>2, <1>9, <3>2 DEF HeadInv
      <4>2. Stands(b) = <<>> /\ b \in Bundles
        BY <4>1, StandsType, PlainLists
      <4> QED
        BY <1>4, <4>1, <4>2, CoversOne
    <3> QED
      BY <3>1, <3>2
  <2>2. PICK s \in Seq(Int) : s = r \o n
    BY <1>5, ConcatProperties
  <2>3. Covers(m.old \o m.new) = s
    BY <1>6, <2>1, <2>2, ConcatEmptySeq
  <2>4. IsSuffix(s, u \o s)
    BY <1>5, SuffixOfJoined
  <2>5. ASSUME NEW x \in DOMAIN m.runOf, m.runOf[x] = m.run PROVE x \in ToSet(s)
    <3>1. ToSet(s) = IdSet(R) \cup IdSet(new)
      <4>1. s = Ids(R \o new)
        BY <1>4, <2>2, IdsConcat
      <4>2. ToSet(s) = IdSet(R \o new)
        BY <4>1, IdSetOfIds
      <4> QED
        BY <4>2, IdSetConcat
    <3>2. x \in IdSet(m.new) \cup IdSet(m.queue) \cup IF Resumes(m) THEN IdSet(rows[Len(rows)].msgs) ELSE {}
      BY <2>5 DEF ManagerInv, MapInv
    <3>3. CASE x \in IdSet(m.new)
      BY <1>3, <3>1, <3>3
    <3>4. CASE x \in IdSet(m.queue)
      BY <3>4, IdSetNothing
    <3>5. CASE Resumes(m) /\ x \in IdSet(rows[Len(rows)].msgs)
      <4>1. k < Len(rows)
        BY <1>1, <3>5 DEF Holds
      <4>2. Len(rows) \in (k + 1)..Len(rows)
        BY <1>1, <4>1, RowType
      <4>3. x \in IdSet(Rest(k))
        BY <1>1, <3>5, <4>2, UptoAndRest
      <4> QED
        BY <1>3, <3>1, <4>3
    <3> QED
      BY <3>2, <3>3, <3>4, <3>5
  <2> QED
    BY <1>7, <1>9, <2>2, <2>3, <2>4, <2>5
<1> QED
  BY <1>8, <1>9

\* A prompt is handed over: by a manager that fits, with or without a summary.
LEMMA AskingStep ==
  ASSUME Inv, NEW agent, NEW m \in Managers, ManagerInv(m), Begun(m), Counts(m), m.run <= runs,
         \A x \in IdSet(m.new) \cup IdSet(m.queue) \cup DOMAIN m.runOf : x <= bundles,
         Asking(m, agent), rows' = rows, settings' = settings, summary' = summary,
         bundles' = bundles, runs' = runs, summaries' \in Nat, summaries <= summaries', failures' = failures,
         NumberInv(m, summaries', bundles)
  PROVE  Inv' /\ ContextComplete'
<1>1. PICK d, m2 : d = Drained(m) /\ m2 = [d EXCEPT !.pc = "asked"]
  OBVIOUS
<1>2. /\ d \in Managers /\ d.run = m.run /\ d.old = m.old /\ d.new = m.new \o m.queue
      /\ d.queue = <<>> /\ d.runOf = m.runOf /\ d.summaries = m.summaries
      /\ d.context = m.context /\ d.pending = m.pending /\ d.known = m.known /\ d.measured = m.measured
  BY <1>1, DrainedType
<1>3. /\ m2 \in Managers /\ m2.pc = "asked" /\ m2.run = d.run /\ m2.old = d.old /\ m2.new = d.new
      /\ m2.queue = d.queue /\ m2.runOf = d.runOf /\ m2.summaries = d.summaries
      /\ m2.context = d.context /\ m2.pending = d.pending /\ m2.known = d.known /\ m2.measured = d.measured
  <2>1. "asked" \in PCs
    BY DEF PCs
  <2> QED
    BY <1>1, <1>2, <2>1, PlaceType
<1>4. /\ ManagerInv(d) /\ Placed(d) = Placed(m)
      /\ IdSet(d.new) \cup IdSet(d.queue) = IdSet(m.new) \cup IdSet(m.queue)
  BY <1>2, MovesOn
<1>5. ManagerInv(m2)
  <2>1. /\ m2.run = d.run /\ m2.old = d.old /\ m2.runOf = d.runOf /\ m2.summaries \in {d.summaries, NoResult}
        /\ m2.new = d.new /\ m2.queue = d.queue
    BY <1>3
  <2> QED
    BY <1>2, <1>3, <1>4, <2>1, MovesOn
<1>6. Begun(m2)
  <2>1. m.new \in Seq(Plain) /\ m.queue \in Seq(Plain)
    BY ManagerType
  <2>2. m.new # <<>> => m2.new # <<>>
    BY <1>2, <1>3, <2>1, ConcatEqualIffEmpty
  <2>3. Resumes(m2) = Resumes(m)
    BY DEF Resumes
  <2> QED
    BY <2>2, <2>3 DEF Begun
<1>7. CountInv(m2)
  <2>1. PICK o \in Seq(Bundles), n \in Seq(Bundles), q \in Seq(Bundles) : o = m.old /\ n = m.new /\ q = m.queue
    BY ManagerType
  <2>2. m2.old \o m2.new \o m2.queue = o \o (n \o q)
    <3>1. n \o q \in Seq(Bundles)
      BY ConcatProperties
    <3>2. o \o (n \o q) \in Seq(Bundles)
      BY <3>1, ConcatProperties
    <3>3. (o \o (n \o q)) \o <<>> = o \o (n \o q)
      BY <3>2, ConcatEmptySeq
    <3> QED
      BY <1>2, <1>3, <2>1, <3>3
  <2>3. o \o (n \o q) = o \o n \o q
    BY ConcatAssociative
  <2>4. m2.old \o m2.new \o m2.queue = m.old \o m.new \o m.queue
    BY <2>1, <2>2, <2>3
  <2>5. Counts(m2)
    BY <1>2, <1>3, <2>4 DEF Counts
  <2> QED
    BY <1>2, <1>3, <2>5 DEF CountInv
<1>8. /\ mgr' = m2
      /\ sent' = [prompt |-> attributeMessages(d, agent), due |-> Transcript \o Ids(d.new),
                  mine |-> {id \in DOMAIN d.runOf : d.runOf[id] = d.run},
                  placed |-> InFlight(d) \subseteq DOMAIN d.runOf, agent |-> agent]
  BY <1>1 DEF Asking
<1>9. Inv'
  <2>1. bundles' \in Nat /\ bundles <= bundles' /\ runs' \in Nat /\ runs <= runs' /\ failures' \in Nat
    BY DEF Inv, TypeOK
  <2>2. m2.run <= runs'
    BY <1>2, <1>3
  <2>3. \A x \in IdSet(m2.new) \cup IdSet(m2.queue) \cup DOMAIN m2.runOf : x <= bundles'
    BY <1>2, <1>3, <1>4
  <2>4. mgr' = m2 /\ m2 \in Managers
    BY <1>3, <1>8
  <2>5. NumberInv(m2, summaries', bundles')
    BY <1>2, <1>3 DEF NumberInv
  <2> QED
    BY <1>5, <1>6, <1>7, <2>1, <2>2, <2>3, <2>4, <2>5, StepOf
<1>10. PICK p : p = attributeMessages(d, agent)
  OBVIOUS
<1>11. Shown' = Covers(d.old \o d.new)
  <2>1. sent'.prompt = p
    BY <1>8, <1>10
  <2>2. Shown' = Covers([i \in DOMAIN p |-> p[i].bundle])
    BY <2>1 DEF Shown
  <2>3. Covers([i \in DOMAIN p |-> p[i].bundle]) = Covers(d.old \o d.new)
    BY <1>2, <1>10, ManagerType, PromptCovers
  <2> QED
    BY <2>2, <2>3
<1>12. ContextComplete'
  <2> SUFFICES ASSUME sent'.placed
               PROVE  IF settings.kind = "llm" THEN Shown' = sent'.due
                      ELSE IsSuffix(Shown', sent'.due) /\ sent'.mine \subseteq ToSet(Shown')
    BY DEF ContextComplete
  <2>1. Placed(d)
    <3>1. InFlight(d) \subseteq DOMAIN d.runOf
      BY <1>8
    <3> QED
      BY <1>2, <3>1, IdSetNothing, IdSetOfIds DEF Placed, InFlight
  <2>2. rows \in Seq(Rows) /\ RowsInv /\ settings.kind \in {"llm", "window"}
    BY DEF Inv, TypeOK
  <2>3. PICK shown, due, mine : /\ shown = Covers(d.old \o d.new) /\ due = Transcript \o Ids(d.new)
                                /\ mine = {id \in DOMAIN d.runOf : d.runOf[id] = d.run}
    OBVIOUS
  <2>4. IF settings.kind = "llm" THEN shown = due ELSE IsSuffix(shown, due) /\ mine \subseteq ToSet(shown)
    BY <1>2, <1>4, <2>1, <2>2, <2>3, PromptStands
  <2>5. Shown' = shown /\ sent'.due = due /\ sent'.mine = mine
    BY <1>8, <1>11, <2>3
  <2> QED
    BY <2>4, <2>5
<1> QED
  BY <1>9, <1>12

\* A model call with nothing to summarise.
LEMMA CallStep ==
  ASSUME Inv, NEW agent, CallModel(agent)
  PROVE  Inv' /\ ContextComplete'
<1>1. mgr # Idle
  BY DEF CallModel, Idle
<1>2. PICK m \in Managers : /\ m = mgr /\ ManagerInv(m) /\ Begun(m) /\ ManagerCount(m) /\ CountInv(m)
                            /\ NumberInv(m, summaries, bundles)
  BY <1>1, Working
<1>3. /\ Counts(m) /\ m.run <= runs
      /\ \A x \in IdSet(m.new) \cup IdSet(m.queue) \cup DOMAIN m.runOf : x <= bundles
  BY <1>2 DEF CountInv, ManagerCount
<1>4. /\ Asking(m, agent) /\ rows' = rows /\ settings' = settings /\ summary' = summary
      /\ bundles' = bundles /\ runs' = runs /\ failures' = failures
      /\ summaries' \in Nat /\ summaries <= summaries' /\ NumberInv(m, summaries', bundles)
  BY <1>2 DEF CallModel, Inv, TypeOK
<1> QED
  BY <1>2, <1>3, <1>4, AskingStep

\* A model call after a summary.
LEMMA SummarizeStep ==
  ASSUME Inv, NEW agent, SummarizeAndCall(agent)
  PROVE  Inv' /\ ContextComplete'
<1>1. mgr # Idle
  BY DEF SummarizeAndCall, Idle
<1>2. PICK m \in Managers : /\ m = mgr /\ ManagerInv(m) /\ Begun(m) /\ ManagerCount(m) /\ CountInv(m)
                            /\ NumberInv(m, summaries, bundles)
  BY <1>1, Working
<1>3. /\ rows \in Seq(Rows) /\ RowsInv /\ settings \in [kind : {"llm", "window"}, keep : Nat \ {0}]
      /\ summaries \in Nat /\ bundles \in Nat
  BY <1>1, Working DEF Inv, TypeOK
<1>4. PICK id : id = -(summaries + 1)
  OBVIOUS
<1>5. PICK r :
      /\ SummaryOf(m, id, r)
      /\ Asking(Applied(m, r), agent) /\ rows' = rows /\ settings' = settings /\ summary' = summary
      /\ bundles' = bundles /\ runs' = runs /\ summaries' = summaries + 1 /\ failures' = failures
  BY <1>2, <1>4 DEF SummarizeAndCall, ShouldSummarize, SummaryOf
<1>6. id \in Int /\ id < 0 /\ id \notin DOMAIN m.measured
  <2>1. id \in Int /\ id < 0 /\ ~(0 <= id + summaries)
    BY <1>3, <1>4
  <2> QED
    BY <1>2, <2>1 DEF NumberInv, Weighed
<1>7. PICK m2 : m2 = Applied(m, r)
  OBVIOUS
<1>8. /\ m2 \in Managers /\ ManagerInv(m2) /\ Total(m.measured, m2.old) <= Total(m.measured, m.old)
      /\ m2.run = m.run /\ m2.new = m.new /\ m2.queue = m.queue
      /\ m2.context = m.context /\ m2.pending = m.pending /\ m2.known = m.known /\ m2.measured = m.measured
      /\ DOMAIN m2.runOf \subseteq DOMAIN m.runOf \cup {id} /\ m2.measured = m.measured
      /\ \A x \in IdSet(m2.old) : x = id \/ x > 0
      /\ m2.summaries # NoResult => m2.summaries.message.id \in {0, id}
  BY <1>2, <1>3, <1>4, <1>5, <1>6, <1>7, SummaryStep
<1>9. Begun(m2)
  BY <1>2, <1>8 DEF Begun, Resumes
<1>10. Counts(m2)
  <2>w. PICK w \in Measures : w = m.measured
    BY ManagerType
  <2>1. PICK o \in Seq(Bundles), n \in Seq(Bundles), q \in Seq(Bundles), o2 \in Seq(Bundles) :
          o = m.old /\ n = m.new /\ q = m.queue /\ o2 = m2.old
    BY <1>8, ManagerType
  <2>2. PICK a \in Nat, b \in Nat, c \in Nat, a2 \in Nat : a = Total(w, o) /\ b = Total(w, n) /\ c = Total(w, q) /\ a2 = Total(w, o2)
    BY TotalType
  <2>3. Total(w, o \o n \o q) = a + b + c /\ Total(w, o2 \o n \o q) = a2 + b + c
    BY <2>2, TotalThree
  <2>4. a2 <= a
    BY <1>8, <2>1, <2>2, <2>w
  <2>5. m.known => m.context + m.pending >= a + b + c
    BY <1>2, <2>1, <2>3, <2>w DEF CountInv, Counts
  <2>6. m.context \in Nat /\ m.pending \in Nat
    BY ManagerType
  <2>7. m.known => m.context + m.pending >= a2 + b + c
    BY <2>4, <2>5, <2>6
  <2>8. Total(m2.measured, m2.old \o m2.new \o m2.queue) = a2 + b + c
    BY <1>8, <2>1, <2>3, <2>w
  <2> QED
    BY <1>8, <2>7, <2>8 DEF Counts
<1>11. m2.run <= runs
  BY <1>2, <1>8 DEF ManagerCount
<1>12. \A x \in IdSet(m2.new) \cup IdSet(m2.queue) \cup DOMAIN m2.runOf : x <= bundles
  <2>1. id <= bundles
    BY <1>3, <1>6
  <2>2. \A x \in IdSet(m.new) \cup IdSet(m.queue) \cup DOMAIN m.runOf : x <= bundles
    BY <1>2 DEF ManagerCount
  <2> QED
    BY <1>8, <2>1, <2>2
<1>13. summaries' \in Nat /\ summaries <= summaries' /\ Asking(m2, agent)
  BY <1>3, <1>5, <1>7
<1>14. NumberInv(m2, summaries', bundles)
  <2>1. Weighed(m2.measured, summaries', bundles)
    <3>1. Weighed(m.measured, summaries, bundles) /\ m.measured \in Measures /\ bundles <= bundles
      BY <1>2, <1>3, ManagerType DEF NumberInv
    <3>2. Weighed(m.measured, summaries', bundles)
      BY <1>3, <1>13, <3>1, NumbersGrow
    <3> QED
      BY <1>8, <3>2
  <2>2. 0 <= id + summaries' /\ 0 <= 0 + summaries'
    BY <1>3, <1>4, <1>5
  <2>3. Headed(m2.summaries, summaries')
    BY <1>8, <2>2 DEF Headed
  <2>4. \A x \in IdSet(m2.old) : 0 <= x + summaries'
    <3>1. IdSet(m2.old) \subseteq Int
      BY <1>8, ManagerType, BundleIds
    <3>2. PICK lo \in Nat : lo = summaries'
      BY <1>13
    <3>3. \A x \in Int : x > 0 => 0 <= x + lo
      OBVIOUS
    <3> QED
      BY <1>8, <2>2, <3>1, <3>2, <3>3
  <2> QED
    BY <2>1, <2>3, <2>4 DEF NumberInv
<1> QED
  BY <1>5, <1>8, <1>9, <1>10, <1>11, <1>12, <1>13, <1>14, AskingStep

-----------------------------------------------------------------------------
(* The thread grows.                                                       *)

\* Position and Upto, of any thread.
PositionIn(R, run) == IF \E i \in DOMAIN R : R[i].run = run THEN CHOOSE i \in DOMAIN R : R[i].run = run ELSE 0
UptoIn(R, k) == FlattenSeq([i \in 1..k |-> Ids(R[i].msgs)])

\* A thread that keeps the runs it has keeps their places.
LEMMA PlacesKept ==
  ASSUME NEW R \in Seq(Rows), NEW R2 \in Seq(Rows), Len(R) <= Len(R2),
         \A i, j \in DOMAIN R2 : i < j => R2[i].run < R2[j].run,
         \A i \in DOMAIN R : R2[i].run = R[i].run,
         NEW x \in Int
  PROVE  /\ PositionIn(R, x) > 0 => PositionIn(R2, x) = PositionIn(R, x)
         /\ x <= 0 => PositionIn(R2, x) = 0
         /\ PositionIn(R, x) \in Nat
<1>1. PICK n \in Nat, n2 \in Nat : n = Len(R) /\ n2 = Len(R2) /\ DOMAIN R = 1..n /\ DOMAIN R2 = 1..n2 /\ n <= n2
  BY LenProperties
<1>2. \A i \in 1..n2 : R2[i].run \in Nat \ {0}
  <2>1. \A i \in 1..n2 : R2[i] \in Rows
    BY <1>1, ElementOfSeq
  <2> QED
    BY <2>1 DEF Rows
<1>3. PICK p : p = PositionIn(R, x)
  OBVIOUS
<1>4. p = 0 \/ (p \in 1..n /\ R[p].run = x)
  BY <1>1, <1>3 DEF PositionIn
<1>5. ASSUME p > 0 PROVE PositionIn(R2, x) = p
  <2>1. p \in 1..n /\ R[p].run = x
    BY <1>4, <1>5
  <2>2. p \in 1..n2 /\ R2[p].run = x
    BY <1>1, <2>1
  <2>3. PICK q : q = PositionIn(R2, x)
    OBVIOUS
  <2>4. q \in 1..n2 /\ R2[q].run = x
    BY <1>1, <2>2, <2>3 DEF PositionIn
  <2>5. x \in Nat
    BY <1>2, <2>2
  <2>6. ~(R2[p].run < R2[q].run) /\ ~(R2[q].run < R2[p].run)
    BY <2>2, <2>4, <2>5
  <2>7. ~(p < q) /\ ~(q < p)
    BY <1>1, <2>2, <2>4, <2>6
  <2> QED
    BY <2>2, <2>3, <2>4, <2>7
<1>6. ASSUME x <= 0 PROVE PositionIn(R2, x) = 0
  <2>1. \A i \in DOMAIN R2 : R2[i].run # x
    BY <1>1, <1>2, <1>6
  <2> QED
    BY <2>1 DEF PositionIn
<1> QED
  BY <1>1, <1>3, <1>4, <1>5, <1>6

\* A summary that stood for the thread up to a complete run still does when only the
\* run behind it changed.
LEMMA ResultKept ==
  ASSUME rows \in Seq(Rows), rows' \in Seq(Rows), RowsInv, RowsInv', Len(rows) <= Len(rows'), settings' = settings,
         \A i \in DOMAIN rows : rows'[i].run = rows[i].run,
         \A i \in DOMAIN rows : rows[i].complete => rows'[i] = rows[i],
         NEW r \in Results \cup {NoResult}, ResultInv(r)
  PROVE  ResultInv(r)'
<1> SUFFICES ASSUME r # NoResult, settings.kind = "llm"
             PROVE  /\ r.upTo > 0 => Position(r.upTo)' > 0
                    /\ Position(r.upTo)' > 0 => /\ r.message.of = Upto(Position(r.upTo))'
                                                /\ rows'[Position(r.upTo)'].complete
  BY DEF ResultInv
<1>1. r.upTo \in Int
  BY DEF Results
<1>2. PICK R, R2 : R = rows /\ R2 = rows'
  OBVIOUS
<1>3. PICK x, p, p2 : x \in Int /\ x = r.upTo /\ p = PositionIn(R, x) /\ p2 = PositionIn(R2, x)
  BY <1>1
<1>4. p = Position(r.upTo) /\ p2 = Position(r.upTo)'
  BY <1>2, <1>3 DEF Position, PositionIn
<1>5. (p > 0 => p2 = p) /\ (x <= 0 => p2 = 0) /\ p \in Nat
  <2>1. R \in Seq(Rows) /\ R2 \in Seq(Rows) /\ Len(R) <= Len(R2) /\ \A i \in DOMAIN R : R2[i].run = R[i].run
    BY <1>2
  <2>2. \A i, j \in DOMAIN R2 : i < j => R2[i].run < R2[j].run
    BY <1>2 DEF RowsInv
  <2> QED
    BY <1>3, <2>1, <2>2, PlacesKept
<1>6. (x > 0 => p > 0) /\ (p > 0 => r.message.of = Upto(p) /\ rows[p].complete)
  BY <1>3, <1>4 DEF ResultInv
<1>7. ASSUME p2 > 0 PROVE p > 0 /\ p2 = p
  BY <1>3, <1>5, <1>6, <1>7
<1>8. ASSUME p > 0 PROVE r.message.of = Upto(p2)' /\ rows'[p2].complete
  <2>1. p \in 1..Len(rows) /\ Len(rows) \in Nat /\ DOMAIN rows = 1..Len(rows)
    BY <1>4, <1>8, PositionType, RowType
  <2>2. rows[p].complete
    BY <1>6, <1>8
  <2>3. \A i \in 1..p : rows'[i] = rows[i]
    <3> TAKE i \in 1..p
    <3>1. i \in DOMAIN rows /\ p \in DOMAIN rows
      BY <2>1
    <3>2. i < p => rows[i].complete
      BY <3>1 DEF RowsInv
    <3>3. rows[i].complete
      BY <2>1, <2>2, <3>2
    <3> QED
      BY <3>1, <3>3
  <2>4. UptoIn(R2, p) = UptoIn(R, p)
    <3>1. \A i \in 1..p : R2[i] = R[i]
      BY <1>2, <2>3
    <3>2. [i \in 1..p |-> Ids(R2[i].msgs)] = [i \in 1..p |-> Ids(R[i].msgs)]
      BY <3>1
    <3> QED
      BY <3>2 DEF UptoIn
  <2>5. UptoIn(R, p) = Upto(p) /\ UptoIn(R2, p) = Upto(p)'
    BY <1>2 DEF UptoIn, Upto
  <2>6. p2 = p /\ p \in DOMAIN rows
    BY <1>5, <1>8, <2>1
  <2>7. rows'[p] = rows[p]
    BY <2>2, <2>6
  <2> QED
    BY <1>6, <1>8, <2>2, <2>4, <2>5, <2>6, <2>7
<1> QED
  BY <1>3, <1>4, <1>5, <1>6, <1>7, <1>8

\* The row that a run is saved as, and where the thread then ends.
SavedRow(m, row, l) ==
  /\ row \in Rows /\ row.run = m.run /\ row.queue = m.queue
  /\ row.context = m.context /\ row.pending = m.pending /\ row.measured = m.measured /\ row.known = m.known
  /\ row.due = Total(m.measured, m.old \o m.new \o m.queue)
  /\ row.msgs = (IF Resumes(m) THEN rows[Len(rows)].msgs ELSE <<>>) \o m.new
  /\ l \in Nat \ {0} /\ l = IF Resumes(m) THEN Len(rows) ELSE Len(rows) + 1

\* The thread that ends in this row.
Grown(R, row, l) ==
  /\ R \in Seq(Rows) /\ Len(R) = l /\ R[l] = row
  /\ \A i \in 1..(l - 1) : i \in DOMAIN rows /\ R[i] = rows[i]

\* A list is its messages, with nothing put before them.
LEMMA JoinedType ==
  ASSUME NEW s \in Seq(Plain), NEW t \in Seq(Plain), s # <<>> \/ t # <<>>
  PROVE  /\ s \o t \in Seq(Plain) \ {<<>>} /\ IdSet(s \o t) = IdSet(s) \cup IdSet(t)
         /\ <<>> \o t = t
<1>1. s \o t \in Seq(Plain) /\ Len(s \o t) = Len(s) + Len(t) /\ Len(s) \in Nat /\ Len(t) \in Nat
  BY ConcatProperties, LenProperties
<1>2. Len(s) # 0 \/ Len(t) # 0
  BY EmptySeq
<1>3. s \o t # <<>>
  <2>1. Len(s \o t) # 0
    BY <1>1, <1>2
  <2> QED
    BY <2>1
<1>4. <<>> \o t = t
  BY ConcatEmptySeq
<1> QED
  BY <1>1, <1>3, <1>4, IdSetConcat

\* A run is saved where the thread ends: in the row of the run it goes on with, or
\* in a row of its own.
LEMMA RunSaved ==
  ASSUME rows \in Seq(Rows), RowsInv, mgr \in Managers, ManagerInv(mgr), Begun(mgr), SaveMessages
  PROVE  \E row, l : SavedRow(mgr, row, l) /\ Grown(rows', row, l)
<1>1. PICK n \in Nat : n = Len(rows) /\ DOMAIN rows = 1..n
  BY LenProperties
<1>2. PICK m : m = mgr
  OBVIOUS
<1>3. PICK new \in Seq(Plain), q \in Seq(Plain), c \in Nat, p \in Nat, u \in Nat, run \in Nat \ {0}, done \in BOOLEAN,
           w \in Measures, yes \in BOOLEAN, due \in Nat :
        /\ new = m.new /\ q = m.queue /\ c = m.context /\ p = m.pending /\ u = m.usage /\ run = m.run
        /\ done = (m.pc = "save") /\ w = m.measured /\ yes = m.known
        /\ due = Total(m.measured, m.old \o m.new \o m.queue)
  <2>1. PICK done \in BOOLEAN : done = (m.pc = "save")
    <3>1. (m.pc = "save") \in BOOLEAN
      OBVIOUS
    <3> QED
      BY Zenon, <3>1
  <2>2. PICK a \in Seq(Bundles), new \in Seq(Plain), q \in Seq(Plain), w \in Measures :
          a = m.old /\ new = m.new /\ q = m.queue /\ w = m.measured
    BY <1>2, ManagerType
  <2>3. a \o new \o q \in Seq(Bundles)
    <3>1. new \in Seq(Bundles) /\ q \in Seq(Bundles)
      BY PlainLists
    <3>2. a \o new \in Seq(Bundles)
      BY <3>1, ConcatProperties
    <3> QED
      BY <3>1, <3>2, ConcatProperties
  <2>4. PICK due \in Nat : due = Total(w, a \o new \o q)
    BY <2>3, TotalType
  <2>5. due = Total(m.measured, m.old \o m.new \o m.queue)
    BY <2>2, <2>4
  <2>6. /\ m.context \in Nat /\ m.pending \in Nat /\ m.usage \in Nat /\ m.run \in Nat \ {0} /\ m.known \in BOOLEAN
    BY <1>2, ManagerType
  <2> QED
    BY <2>1, <2>2, <2>5, <2>6
<1>4. Last(rows) = rows[n]
  BY <1>1 DEF Last
<1>5. (rows # <<>> /\ Last(rows).run = m.run) <=> Resumes(m)
  <2>1. CASE rows = <<>>
    BY <2>1 DEF Resumes
  <2>2. CASE rows # <<>>
    <3>1. n \in DOMAIN rows
      <4>1. n # 0
        BY <1>1, <2>2, EmptySeq
      <4> QED
        BY <1>1, <4>1
    <3>2. rows[n].run \in Nat
      BY <1>1, <3>1, RowType
    <3>3. Resumes(m) => m.run = rows[n].run
      BY <1>1, <1>2 DEF ManagerInv, RunInv
    <3>4. ~Resumes(m) => rows[n].run < m.run
      BY <1>2, <3>1 DEF ManagerInv, RunInv
    <3>5. ~Resumes(m) => rows[n].run # m.run
      BY <1>3, <3>2, <3>4
    <3> QED
      BY <1>4, <2>2, <3>3, <3>5
  <2> QED
    BY <2>1, <2>2
<1>6. PICK row : row = [run |-> run, msgs |-> new, complete |-> done, context |-> c, pending |-> p,
                        usage |-> u, queue |-> q, measured |-> w, known |-> yes, due |-> due]
  OBVIOUS
<1>7. rows' = IF Resumes(m) THEN [rows EXCEPT ![n] = [row EXCEPT !.msgs = rows[n].msgs \o @]] ELSE Append(rows, row)
  <2>1. row = Saved(mgr.run, mgr.pc = "save")
    BY <1>2, <1>3, <1>6 DEF Saved
  <2> QED
    BY <1>1, <1>2, <1>4, <1>5, <2>1 DEF SaveMessages
<1>8. CASE Resumes(m)
  <2>1. n \in DOMAIN rows /\ n # 0
    <3>1. rows # <<>>
      BY <1>8 DEF Resumes
    <3>2. n # 0
      BY <1>1, <3>1, EmptySeq
    <3> QED
      BY <1>1, <3>2
  <2>2. rows[n].msgs \in Seq(Plain) /\ rows[n].msgs # <<>>
    BY <1>1, <2>1, RowType
  <2>3. PICK msgs \in Seq(Plain) \ {<<>>} : msgs = rows[n].msgs \o new
    BY <2>2, JoinedType
  <2>4. PICK row2 : row2 = [run |-> run, msgs |-> msgs, complete |-> done, context |-> c, pending |-> p,
                            usage |-> u, queue |-> q, measured |-> w, known |-> yes, due |-> due]
    OBVIOUS
  <2>5. /\ row2 \in Rows /\ row2.run = run /\ row2.msgs = msgs /\ row2.queue = q /\ row2.context = c /\ row2.pending = p
        /\ row2.measured = w /\ row2.known = yes /\ row2.due = due
    BY <2>4 DEF Rows
  <2>6. rows' = [rows EXCEPT ![n] = row2]
    <3>1. row.msgs = new /\ [row EXCEPT !.msgs = msgs] = row2
      BY <1>6, <2>4
    <3>2. [row EXCEPT !.msgs = rows[n].msgs \o @] = row2
      BY <2>3, <3>1
    <3> QED
      BY <1>7, <1>8, <3>2
  <2>7. /\ rows' \in Seq(Rows) /\ Len(rows') = n /\ rows'[n] = row2
        /\ \A i \in 1..(n - 1) : i \in DOMAIN rows /\ rows'[i] = rows[i]
    <3> HIDE <1>7
    <3> QED
      BY <1>1, <2>1, <2>5, <2>6
  <2>8. SavedRow(m, row2, n)
    BY <1>1, <1>3, <1>8, <2>1, <2>3, <2>5 DEF SavedRow
  <2>9. Grown(rows', row2, n)
    BY <2>7 DEF Grown
  <2> QED
    BY <1>2, <2>8, <2>9
<1>9. CASE ~Resumes(m)
  <2>1. new # <<>>
    BY <1>2, <1>3, <1>9 DEF Begun
  <2>2. /\ row \in Rows /\ row.run = run /\ row.msgs = new /\ row.queue = q /\ row.context = c /\ row.pending = p
        /\ row.measured = w /\ row.known = yes /\ row.due = due
    BY <1>6, <2>1 DEF Rows
  <2>3. <<>> \o new = new
    BY ConcatEmptySeq
  <2>4. rows' = Append(rows, row)
    BY <1>7, <1>9
  <2>5. /\ rows' \in Seq(Rows) /\ Len(rows') = n + 1 /\ rows'[n + 1] = row
        /\ \A i \in 1..n : i \in DOMAIN rows /\ rows'[i] = rows[i]
    <3> HIDE <1>7
    <3> QED
      BY <1>1, <2>2, <2>4, AppendProperties
  <2>6. SavedRow(m, row, n + 1)
    BY <1>1, <1>3, <1>9, <2>2, <2>3 DEF SavedRow
  <2>7. Grown(rows', row, n + 1)
    <3>1. (n + 1) - 1 = n
      OBVIOUS
    <3> QED
      BY <2>5, <3>1 DEF Grown
  <2> QED
    BY <1>2, <2>6, <2>7
<1> QED
  BY <1>8, <1>9

\* The thread that ends in the run that was saved is a thread, with the runs it had in
\* their places.
LEMMA ThreadGrows ==
  ASSUME rows \in Seq(Rows), rows' \in Seq(Rows), RowsInv, NEW m \in Managers, ManagerInv(m),
         NEW row, NEW l, SavedRow(m, row, l), Grown(rows', row, l)
  PROVE  /\ RowsInv' /\ Len(rows) <= Len(rows')
         /\ \A i \in DOMAIN rows : rows'[i].run = rows[i].run /\ (rows[i].complete => rows'[i] = rows[i])
         /\ \A i \in DOMAIN rows' : rows'[i] = row \/ (i \in DOMAIN rows /\ rows'[i] = rows[i])
         /\ IdSet(row.msgs) \subseteq IdSet(m.new) \cup UNION {IdSet(rows[i].msgs) : i \in DOMAIN rows}
<1>1. PICK n \in Nat : n = Len(rows) /\ DOMAIN rows = 1..n
  BY LenProperties
<1>2. PICK R \in Seq(Rows) : R = rows'
  OBVIOUS
<1>3. l \in Nat \ {0} /\ Len(R) = l /\ DOMAIN R = 1..l /\ R[l] = row /\ \A i \in 1..(l - 1) : i \in 1..n /\ R[i] = rows[i]
  <2>1. Len(R) = l /\ R[l] = row /\ \A i \in 1..(l - 1) : i \in 1..n /\ R[i] = rows[i]
    BY <1>1, <1>2 DEF Grown
  <2>2. DOMAIN R = 1..Len(R)
    BY LenProperties
  <2> QED
    BY <2>1, <2>2 DEF SavedRow
<1>4. PICK new \in Seq(Plain), q \in Seq(Plain) :
        new = m.new /\ q = m.queue /\ row.queue = q /\ row.run = m.run
  BY ManagerType DEF SavedRow
<1>5. /\ Resumes(m) => l = n /\ n \in DOMAIN rows /\ m.run = rows[n].run /\ ~rows[n].complete
                       /\ IdSet(row.msgs) = IdSet(rows[n].msgs) \cup IdSet(new)
      /\ ~Resumes(m) => /\ l = n + 1 /\ IdSet(row.msgs) = IdSet(new)
                        /\ \A i \in DOMAIN rows : rows[i].complete /\ rows[i].run < m.run
  <2>1. ASSUME Resumes(m)
        PROVE  /\ l = n /\ n \in DOMAIN rows /\ m.run = rows[n].run /\ ~rows[n].complete
               /\ IdSet(row.msgs) = IdSet(rows[n].msgs) \cup IdSet(new)
    <3>1. l = n /\ row.msgs = rows[n].msgs \o new
      BY <1>1, <1>4, <2>1 DEF SavedRow
    <3>2. n \in DOMAIN rows
      BY <1>1, <1>3, <3>1
    <3>3. rows[n].msgs \in Seq(Plain) /\ rows[n].msgs # <<>>
      BY <1>1, <3>2, RowType
    <3>4. m.run = rows[n].run /\ ~rows[n].complete
      BY <1>1, <2>1 DEF ManagerInv, RunInv, Resumes
    <3> QED
      BY <3>1, <3>2, <3>3, <3>4, JoinedType
  <2>2. ASSUME ~Resumes(m)
        PROVE  l = n + 1 /\ IdSet(row.msgs) = IdSet(new) /\ \A i \in DOMAIN rows : rows[i].complete /\ rows[i].run < m.run
    <3>1. l = n + 1 /\ row.msgs = <<>> \o new
      BY <1>1, <1>4, <2>2 DEF SavedRow
    <3>2. <<>> \o new = new
      BY ConcatEmptySeq
    <3>3. ASSUME NEW i \in DOMAIN rows PROVE rows[i].complete
      <4>1. i < n \/ i = n
        BY <1>1
      <4>2. rows # <<>>
        BY <1>1, <3>3, EmptySeq
      <4>3. n \in DOMAIN rows
        BY <1>1, <3>3
      <4>4. i = n => rows[i].complete
        BY <1>1, <2>2, <4>2 DEF Resumes
      <4>5. i < n => rows[i].complete
        BY <4>3 DEF RowsInv
      <4> QED
        BY <4>1, <4>4, <4>5
    <3>4. \A i \in DOMAIN rows : rows[i].run < m.run
      BY <2>2 DEF ManagerInv, RunInv
    <3> QED
      BY <3>1, <3>2, <3>3, <3>4
  <2> QED
    BY <2>1, <2>2
<1>6. /\ IdSet(new) \cap IdSet(q) = {}
      /\ \A i \in DOMAIN rows : IdSet(rows[i].msgs) \cap (IdSet(new) \cup IdSet(q)) = {}
  BY <1>4 DEF ManagerInv, FlightInv
<1>7. \A i \in DOMAIN rows : \A j \in DOMAIN rows : /\ i < j => rows[i].complete /\ rows[i].run < rows[j].run
                                                    /\ i # j => IdSet(rows[i].msgs) \cap IdSet(rows[j].msgs) = {}
  BY DEF RowsInv
<1>8. ASSUME NEW i \in 1..(l - 1)
      PROVE  /\ R[i] = rows[i] /\ i \in DOMAIN rows
             /\ rows[i].complete /\ rows[i].run < row.run
             /\ IdSet(rows[i].msgs) \cap IdSet(row.msgs) = {} /\ IdSet(rows[i].msgs) \cap IdSet(row.queue) = {}
  <2>1. R[i] = rows[i] /\ i \in DOMAIN rows
    BY <1>1, <1>3
  <2>2. CASE Resumes(m)
    <3>1. i < n /\ i # n
      BY <1>5, <2>2
    <3>2. rows[i].complete /\ rows[i].run < rows[n].run /\ IdSet(rows[i].msgs) \cap IdSet(rows[n].msgs) = {}
      BY <1>5, <1>7, <2>1, <2>2, <3>1
    <3> QED
      BY <1>4, <1>5, <1>6, <2>1, <2>2, <3>2
  <2>3. CASE ~Resumes(m)
    BY <1>4, <1>5, <1>6, <2>1, <2>3
  <2> QED
    BY <2>2, <2>3
<1>9. IdSet(row.msgs) \cap IdSet(row.queue) = {}
  BY <1>4, <1>5, <1>6
<1>10. RowsInv'
  <2>1. ASSUME NEW i \in DOMAIN R, NEW j \in DOMAIN R, i < j
        PROVE  /\ R[i].complete /\ R[i].run < R[j].run
               /\ IdSet(R[i].msgs) \cap IdSet(R[j].msgs) = {}
    <3>1. i \in 1..(l - 1) /\ (j = l \/ j \in 1..(l - 1))
      BY <1>3, <2>1
    <3>2. R[i] = rows[i] /\ i \in DOMAIN rows
      BY <1>8, <3>1
    <3>3. CASE j = l
      BY <1>3, <1>8, <3>1, <3>3
    <3>4. CASE j \in 1..(l - 1)
      <4>1. R[j] = rows[j] /\ j \in DOMAIN rows
        BY <1>8, <3>4
      <4>2. i # j
        BY <2>1, <1>3
      <4> QED
        BY <1>7, <2>1, <3>2, <4>1, <4>2
    <3> QED
      BY <3>1, <3>3, <3>4
  <2>2. ASSUME NEW i \in DOMAIN R, NEW j \in DOMAIN R, i # j
        PROVE  IdSet(R[i].msgs) \cap IdSet(R[j].msgs) = {}
    <3>1. i < j \/ j < i
      BY <1>3, <2>2
    <3> QED
      BY <2>1, <3>1
  <2>3. ASSUME NEW i \in DOMAIN R PROVE IdSet(R[i].msgs) \cap IdSet(R[Len(R)].queue) = {}
    <3>1. i \in 1..(l - 1) \/ i = l
      BY <1>3
    <3> QED
      BY <1>3, <1>8, <1>9, <3>1
  <2> QED
    BY <1>2, <2>1, <2>2, <2>3 DEF RowsInv
<1>11. ASSUME NEW i \in DOMAIN rows PROVE R[i].run = rows[i].run /\ (rows[i].complete => R[i] = rows[i])
  <2>1. i \in 1..(l - 1) \/ (Resumes(m) /\ i = n)
    BY <1>1, <1>3, <1>5
  <2>2. CASE i \in 1..(l - 1)
    BY <1>3, <2>2
  <2>3. CASE Resumes(m) /\ i = n
    BY <1>3, <1>4, <1>5, <2>3
  <2> QED
    BY <2>1, <2>2, <2>3
<1>12. \A i \in DOMAIN R : R[i] = row \/ (i \in DOMAIN rows /\ R[i] = rows[i])
  <2> TAKE i \in DOMAIN R
  <2>1. i \in 1..(l - 1) \/ i = l
    BY <1>3
  <2> QED
    BY <1>3, <1>8, <2>1
<1>13. n <= Len(R)
  BY <1>3, <1>5
<1>14. IdSet(row.msgs) \subseteq IdSet(m.new) \cup UNION {IdSet(rows[i].msgs) : i \in DOMAIN rows}
  BY <1>4, <1>5
<1> QED
  BY <1>1, <1>2, <1>10, <1>11, <1>12, <1>13, <1>14

\* The run is saved.
LEMMA SaveMessagesStep ==
  ASSUME Inv, SaveMessages
  PROVE  Inv'
<1>1. mgr # Idle
  BY DEF SaveMessages, Idle
<1>2. /\ mgr \in Managers /\ ManagerInv(mgr) /\ Begun(mgr) /\ ManagerCount(mgr) /\ rows \in Seq(Rows) /\ RowsInv
      /\ RowsCount /\ summary \in Results \cup {NoResult} /\ ResultInv(summary) /\ Headed(summary, summaries)
      /\ CountInv(mgr) /\ NumberInv(mgr, summaries, bundles) /\ RowsDue(summaries, bundles)
  BY <1>1, Working DEF Inv, TypeOK
<1>3. PICK row, l : SavedRow(mgr, row, l) /\ Grown(rows', row, l)
  BY <1>2, RunSaved
<1>4. PICK m \in Managers : m = mgr /\ ManagerInv(m) /\ ManagerCount(m) /\ SavedRow(m, row, l)
  BY <1>2, <1>3
<1>5. rows' \in Seq(Rows)
  BY <1>3 DEF Grown
<1>6. /\ RowsInv' /\ Len(rows) <= Len(rows')
      /\ \A i \in DOMAIN rows : rows'[i].run = rows[i].run /\ (rows[i].complete => rows'[i] = rows[i])
      /\ \A i \in DOMAIN rows' : rows'[i] = row \/ (i \in DOMAIN rows /\ rows'[i] = rows[i])
      /\ IdSet(row.msgs) \subseteq IdSet(m.new) \cup UNION {IdSet(rows[i].msgs) : i \in DOMAIN rows}
  BY <1>2, <1>3, <1>4, <1>5, ThreadGrows
<1>7. /\ settings' = settings /\ summary' = summary /\ mgr' = Idle
      /\ bundles' = bundles /\ runs' = runs /\ summaries' = summaries /\ failures' = failures
  BY DEF SaveMessages
<1>8. ResultInv(summary)'
  <2>1. PICK s \in Results \cup {NoResult} : s = summary /\ ResultInv(s)
    BY <1>2
  <2>2. ResultInv(s)'
    BY <1>2, <1>5, <1>6, <1>7, <2>1, ResultKept
  <2>3. summary' = s
    BY <1>7, <2>1
  <2> QED
    BY <2>2, <2>3
<1>9. RowsCount'
  <2>1. \A i \in DOMAIN rows : rows[i].run <= runs /\ \A x \in IdSet(rows[i].msgs) \cup IdSet(rows[i].queue) : x <= bundles
    BY <1>2 DEF RowsCount
  <2>2. row.run <= runs /\ \A x \in IdSet(row.msgs) \cup IdSet(row.queue) : x <= bundles
    <3>1. row.run = m.run /\ row.queue = m.queue
      BY <1>4 DEF SavedRow
    <3>2. m.run <= runs /\ \A x \in IdSet(m.new) \cup IdSet(m.queue) : x <= bundles
      BY <1>4 DEF ManagerCount
    <3> QED
      BY <1>6, <2>1, <3>1, <3>2
  <2>3. \A i \in DOMAIN rows' : /\ rows'[i].run <= runs
                                /\ \A x \in IdSet(rows'[i].msgs) \cup IdSet(rows'[i].queue) : x <= bundles
    BY <1>6, <2>1, <2>2
  <2> QED
    BY <1>7, <2>3 DEF RowsCount
<1>10. TypeOK'
  BY <1>5, <1>7 DEF Inv, TypeOK
<1>11. Headed(summary, summaries)'
  BY <1>2, <1>7 DEF Headed
<1>12. RowsDue(summaries, bundles)'
  <2>1. PICK lo, hi : lo = summaries /\ hi = bundles
    OBVIOUS
  <2>2. Weighed(row.measured, lo, hi) /\ (row.known => row.context + row.pending >= row.due)
    <3>1. /\ row.context = m.context /\ row.pending = m.pending /\ row.measured = m.measured /\ row.known = m.known
          /\ row.due = Total(m.measured, m.old \o m.new \o m.queue)
      BY <1>4 DEF SavedRow
    <3>2. Counts(m) /\ Weighed(m.measured, lo, hi)
      BY <1>2, <1>4, <2>1 DEF CountInv, NumberInv
    <3> QED
      BY <3>1, <3>2 DEF Counts
  <2>3. \A i \in DOMAIN rows : /\ Weighed(rows[i].measured, lo, hi)
                               /\ rows[i].known => rows[i].context + rows[i].pending >= rows[i].due
    BY <1>2, <2>1 DEF RowsDue
  <2>4. PICK R : R = rows'
    OBVIOUS
  <2>5. \A i \in DOMAIN R : /\ Weighed(R[i].measured, lo, hi)
                            /\ R[i].known => R[i].context + R[i].pending >= R[i].due
    BY <1>6, <2>2, <2>3, <2>4
  <2>6. summaries' = lo /\ bundles' = hi
    BY <1>7, <2>1
  <2> QED
    BY <2>4, <2>5, <2>6 DEF RowsDue, Weighed
<1> QED
  BY <1>6, <1>7, <1>8, <1>9, <1>10, <1>11, <1>12 DEF Inv

\* The run is lost, or nothing happens.
LEMMA NothingSaved ==
  ASSUME Inv, rows' = rows, settings' = settings, summary' = summary, mgr' = Idle \/ mgr' = mgr,
         bundles' = bundles, runs' = runs, summaries' = summaries, failures' \in Nat
  PROVE  Inv'
<1>1. /\ RowsInv' = RowsInv /\ \A r : ResultInv(r)' = ResultInv(r)
      /\ \A m : ManagerInv(m)' = ManagerInv(m)
      /\ \A m : Begun(m)' = Begun(m)
  BY SameThread
<1>2. RowsInv' /\ RowsCount' /\ ResultInv(summary)'
  <2>1. PICK s : s = summary
    OBVIOUS
  <2>2. ResultInv(s)'
    BY <1>1, <2>1 DEF Inv
  <2>3. ResultInv(summary)'
    BY <2>1, <2>2
  <2> QED
    BY <1>1, <2>3 DEF Inv, RowsCount
<1>3. TypeOK'
  BY DEF Inv, TypeOK
<1>4. mgr' # Idle => /\ ManagerInv(mgr)' /\ Begun(mgr)' /\ ManagerCount(mgr)' /\ CountInv(mgr)'
                     /\ NumberInv(mgr, summaries, bundles)'
  <2> SUFFICES ASSUME mgr # Idle, mgr' = mgr
               PROVE  /\ ManagerInv(mgr)' /\ Begun(mgr)' /\ ManagerCount(mgr)' /\ CountInv(mgr)'
                      /\ NumberInv(mgr, summaries, bundles)'
    OBVIOUS
  <2>1. PICK m : /\ m = mgr /\ ManagerInv(m) /\ Begun(m) /\ ManagerCount(m) /\ CountInv(m)
                 /\ NumberInv(m, summaries, bundles)
    BY DEF Inv
  <2>2. ManagerInv(m)' /\ Begun(m)'
    BY <1>1, <2>1
  <2>3. mgr' = m
    BY <2>1
  <2>4. ManagerCount(mgr)' /\ CountInv(mgr)'
    BY <2>1, <2>3 DEF ManagerCount, CountInv, Counts
  <2>5. NumberInv(mgr, summaries, bundles)'
    BY <2>1, <2>3 DEF NumberInv, Weighed, Headed
  <2> QED
    BY <2>2, <2>3, <2>4, <2>5
<1>5. RowsDue(summaries, bundles)'
  BY DEF Inv, RowsDue, Weighed
<1>6. Headed(summary, summaries)'
  BY DEF Inv, Headed
<1> QED
  BY <1>2, <1>3, <1>4, <1>5, <1>6 DEF Inv

\* The run fails.
LEMMA FailStep ==
  ASSUME Inv, Fail
  PROVE  Inv'
<1>1. /\ rows' = rows /\ settings' = settings /\ summary' = summary /\ mgr' = Idle
      /\ bundles' = bundles /\ runs' = runs /\ summaries' = summaries /\ failures' \in Nat
  BY DEF Fail, Inv, TypeOK
<1> QED
  BY <1>1, NothingSaved

-----------------------------------------------------------------------------
(* A turn loads the thread.                                                *)

\* Where the bundles that were loaded are placed, when no two runs share one.
LEMMA RunOfLoaded ==
  ASSUME NEW L, \A i \in DOMAIN L : IdSet(L[i].msgs) \subseteq Int /\ L[i].run \in Int,
         \A i, j \in DOMAIN L : i # j => IdSet(L[i].msgs) \cap IdSet(L[j].msgs) = {}
  PROVE  /\ RunOf(L) \in Maps
         /\ DOMAIN RunOf(L) = UNION {IdSet(L[i].msgs) : i \in DOMAIN L}
         /\ \A i \in DOMAIN L : \A x \in IdSet(L[i].msgs) : RunOf(L)[x] = L[i].run
<1>1. PICK D : D = UNION {IdSet(L[i].msgs) : i \in DOMAIN L}
  OBVIOUS
<1>2. PICK F : F = [x \in D |-> L[CHOOSE i \in DOMAIN L : x \in IdSet(L[i].msgs)].run]
  OBVIOUS
<1>3. RunOf(L) = F
  <2>1. \A i : ToSet(Ids(L[i].msgs)) = IdSet(L[i].msgs)
    BY IdSetOfIds
  <2>2. D = UNION {ToSet(Ids(L[i].msgs)) : i \in DOMAIN L}
    BY <1>1, <2>1
  <2> QED
    BY <1>2, <2>1, <2>2 DEF RunOf
<1>4. ASSUME NEW i \in DOMAIN L, NEW x \in IdSet(L[i].msgs) PROVE x \in D /\ F[x] = L[i].run
  <2>1. x \in D
    BY <1>1
  <2>2. PICK j : j = CHOOSE l \in DOMAIN L : x \in IdSet(L[l].msgs)
    OBVIOUS
  <2>3. j \in DOMAIN L /\ x \in IdSet(L[j].msgs)
    BY <2>2
  <2>4. i = j
    BY <2>3
  <2> QED
    BY <1>2, <2>1, <2>2, <2>4
<1>5. \A x \in D : F[x] \in Int
  <2> TAKE x \in D
  <2>1. PICK i \in DOMAIN L : x \in IdSet(L[i].msgs)
    BY <1>1
  <2> QED
    BY <1>4, <2>1
<1>6. D \in SUBSET Int /\ DOMAIN F = D
  BY <1>1, <1>2
<1>7. F \in [D -> Int]
  BY <1>2, <1>5
<1>8. F \in Maps
  BY <1>6, <1>7 DEF Maps
<1> QED
  BY <1>1, <1>3, <1>4, <1>6, <1>8

\* What a turn loads: the thread, or the stored summary and the runs after it.
LoadedFrom(L, k) ==
  \/ k = 0 /\ L = rows
  \/ /\ k > 0 /\ k < Len(rows) /\ summary # NoResult /\ Position(summary.upTo) = k
     /\ L = << [run |-> summary.id, msgs |-> <<summary.message>>] >> \o SubSeq(rows, k + 1, Len(rows))

\* A turn loads one of these.
LEMMA LoadIs ==
  ASSUME rows \in Seq(Rows), RowsInv, NEW asked
  PROVE  \E k \in 0..Len(rows) : LoadedFrom(Load(asked), k)
<1>1. Len(rows) \in Nat /\ \A x : Position(x) \in 0..Len(rows)
  BY RowType, PositionType
<1>2. PICK covered : covered = IF summary = NoResult THEN 0 ELSE Position(summary.upTo)
  OBVIOUS
<1>3. PICK target : target = IF asked = "" \/ rows = <<>> THEN 0 ELSE Len(rows)
  OBVIOUS
<1>4. covered \in 0..Len(rows)
  BY <1>1, <1>2
<1>5. target = 0 \/ target = Len(rows)
  BY <1>3
<1>6. Load(asked) = IF covered > 0 /\ covered < target
                    THEN << [run |-> summary.id, msgs |-> <<summary.message>>] >> \o SubSeq(rows, covered + 1, target)
                    ELSE rows
  BY <1>2, <1>3 DEF Load
<1>7. CASE covered > 0 /\ covered < target
  <2>1. target = Len(rows)
    BY <1>1, <1>4, <1>5, <1>7
  <2>2. summary # NoResult /\ Position(summary.upTo) = covered
    BY <1>2, <1>7
  <2>3. LoadedFrom(Load(asked), covered)
    BY <1>6, <1>7, <2>1, <2>2 DEF LoadedFrom
  <2> QED
    BY <1>4, <2>3
<1>8. CASE ~(covered > 0 /\ covered < target)
  <2>1. LoadedFrom(Load(asked), 0)
    BY <1>6, <1>8 DEF LoadedFrom
  <2>2. 0 \in 0..Len(rows)
    BY <1>1
  <2> QED
    BY <2>1, <2>2
<1> QED
  BY <1>7, <1>8

\* The rows behind a summary, one by one.
LEMMA LoadedRows ==
  ASSUME rows \in Seq(Rows), NEW k \in Nat, k > 0, k < Len(rows), NEW h, NEW L,
         L = <<h>> \o SubSeq(rows, k + 1, Len(rows))
  PROVE  /\ Len(L) = (Len(rows) - k) + 1 /\ DOMAIN L = 1..Len(L) /\ L[1] = h
         /\ \A i \in 1..(Len(rows) - k) : L[i + 1] = rows[k + i]
<1>1. PICK n \in Nat : n = Len(rows)
  BY LenProperties
<1>2. PICK S : S = Rows \cup {h}
  OBVIOUS
<1>3. rows \in Seq(S) /\ h \in S
  BY <1>2
<1>4. PICK t : t = SubSeq(rows, k + 1, n)
  OBVIOUS
<1>5. t \in Seq(S) /\ Len(t) = n - k /\ \A i \in 1..(n - k) : t[i] = rows[k + i]
  <2>1. k + 1 \in 1..(n + 1) /\ n \in 0..n
    BY <1>1
  <2> QED
    BY <1>1, <1>3, <1>4, <2>1
<1>6. PICK w : w = <<h>> /\ w \in Seq(S) /\ Len(w) = 1 /\ w[1] = h
  <2>1. <<h>> \in Seq(S) /\ Len(<<h>>) = 1 /\ <<h>>[1] = h
    BY <1>3
  <2>2. PICK w : w = <<h>>
    OBVIOUS
  <2> QED
    BY <2>1, <2>2
<1>7. /\ L \in Seq(S) /\ Len(L) = 1 + Len(t) /\ DOMAIN L = 1..Len(L)
      /\ L[1] = h /\ \A i \in 1..Len(t) : L[i + 1] = t[i]
  <2>1. L = w \o t
    BY <1>1, <1>4, <1>6
  <2>2. w \o t \in Seq(S) /\ Len(w \o t) = 1 + Len(t)
    BY <1>5, <1>6, ConcatProperties
  <2>3. \A i \in 1..(1 + Len(t)) : (w \o t)[i] = IF i <= 1 THEN w[i] ELSE t[i - 1]
    BY <1>5, <1>6, ConcatProperties
  <2>4. DOMAIN L = 1..Len(L)
    BY <2>1, <2>2, LenProperties
  <2>5. /\ Len(t) \in Nat /\ 1 \in 1..(1 + Len(t))
        /\ \A i \in 1..Len(t) : i + 1 \in 1..(1 + Len(t)) /\ (i + 1) - 1 = i /\ ~(i + 1 <= 1)
    BY <1>5, LenProperties
  <2>6. L[1] = h
    BY <1>6, <2>1, <2>3, <2>5
  <2>7. \A i \in 1..Len(t) : L[i + 1] = t[i]
    BY <2>1, <2>3, <2>5
  <2> QED
    BY <2>1, <2>2, <2>4, <2>6, <2>7
<1> QED
  BY <1>1, <1>5, <1>7

\* What a turn makes of what it loads.
Loading(L, k, old, F) ==
  /\ old \in Seq(Bundles) /\ F \in Maps
  /\ \A i \in (k + 1)..Len(rows) : \A x \in IdSet(rows[i].msgs) : x \in DOMAIN F /\ F[x] = rows[i].run
  /\ \A x \in DOMAIN F : \/ \E i \in (k + 1)..Len(rows) : x \in IdSet(rows[i].msgs)
                         \/ k > 0 /\ x = summary.message.id /\ F[x] = summary.id
  /\ k = 0 => old = Rest(0)
  /\ k > 0 => /\ old = <<summary.message>> \o Rest(k) /\ k < Len(rows)
              /\ summary # NoResult /\ Position(summary.upTo) = k
  /\ LastState(L) = IF rows = <<>> THEN Fresh ELSE rows[Len(rows)]

\* The whole thread, loaded.
LEMMA ThreadLoaded ==
  ASSUME rows \in Seq(Rows), RowsInv
  PROVE  Loading(rows, 0, FlattenSeq([i \in DOMAIN rows |-> rows[i].msgs]), RunOf(rows))
<1>1. PICK n \in Nat : n = Len(rows) /\ DOMAIN rows = 1..n
  BY LenProperties
<1>2. FlattenSeq([i \in DOMAIN rows |-> rows[i].msgs]) = Rest(0)
  <2>1. [i \in 1..n |-> rows[i].msgs] = [i \in 1..(n - 0) |-> rows[0 + i].msgs]
    <3>1. n - 0 = n /\ \A i \in 1..n : 0 + i = i
      OBVIOUS
    <3> QED
      BY <3>1
  <2> QED
    BY <1>1, <2>1 DEF Rest
<1>3. Rest(0) \in Seq(Bundles)
  <2>1. 0 \in 0..Len(rows)
    BY <1>1
  <2> QED
    BY <2>1, RestSteps, PlainLists
<1>4. \A i \in DOMAIN rows : IdSet(rows[i].msgs) \subseteq Int /\ rows[i].run \in Int
  <2> TAKE i \in DOMAIN rows
  <2>1. rows[i].msgs \in Seq(Plain) /\ rows[i].run \in Nat
    BY <1>1, RowType
  <2>2. IdSet(rows[i].msgs) \subseteq Nat \ {0}
    BY <2>1, PlainIds
  <2> QED
    BY <2>1, <2>2
<1>5. \A i, j \in DOMAIN rows : i # j => IdSet(rows[i].msgs) \cap IdSet(rows[j].msgs) = {}
  BY DEF RowsInv
<1>6. PICK F : F = RunOf(rows)
  OBVIOUS
<1>7. /\ F \in Maps /\ DOMAIN F = UNION {IdSet(rows[i].msgs) : i \in DOMAIN rows}
      /\ \A i \in DOMAIN rows : \A x \in IdSet(rows[i].msgs) : F[x] = rows[i].run
  BY <1>4, <1>5, <1>6, RunOfLoaded
<1>8. (0 + 1)..Len(rows) = DOMAIN rows
  BY <1>1
<1>9. LastState(rows) = IF rows = <<>> THEN Fresh ELSE rows[Len(rows)]
  BY DEF LastState, Last
<1>10. \A i \in (0 + 1)..Len(rows) : \A x \in IdSet(rows[i].msgs) : x \in DOMAIN F /\ F[x] = rows[i].run
  BY <1>7, <1>8
<1>11. \A x \in DOMAIN F : \E i \in (0 + 1)..Len(rows) : x \in IdSet(rows[i].msgs)
  BY <1>7, <1>8
<1> QED
  BY <1>2, <1>3, <1>6, <1>7, <1>9, <1>10, <1>11 DEF Loading

\* A summary and the runs after it, loaded.
LEMMA SummaryLoaded ==
  ASSUME rows \in Seq(Rows), RowsInv, summary \in Results \cup {NoResult}, NEW k \in 0..Len(rows), k > 0,
         NEW L, LoadedFrom(L, k)
  PROVE  Loading(L, k, FlattenSeq([i \in DOMAIN L |-> L[i].msgs]), RunOf(L))
<1>1. PICK n \in Nat : n = Len(rows) /\ DOMAIN rows = 1..n
  BY LenProperties
<1>2. PICK s \in Results : s = summary /\ summary # NoResult /\ Position(summary.upTo) = k /\ k < n
  BY <1>1 DEF LoadedFrom
<1>3. PICK b \in Heads : b = s.message /\ b \in Bundles
  BY PlainLists DEF Results
<1>4. s.id \in Int /\ s.id < 0 /\ b.id \in Int /\ b.id <= 0
  BY <1>3 DEF Results, Heads
<1>5. PICK msgs \in Seq(Bundles) : msgs = <<b>> /\ IdSet(msgs) = {b.id}
  <2>1. <<b>> \in Seq(Bundles)
    BY <1>3
  <2> QED
    BY <1>3, <2>1, IdSetOne
<1>6. PICK h : h = [run |-> s.id, msgs |-> msgs]
  OBVIOUS
<1>7. h.run = s.id /\ h.msgs = msgs
  BY <1>6
<1>8. L = <<h>> \o SubSeq(rows, k + 1, Len(rows))
  BY <1>1, <1>2, <1>3, <1>5, <1>6 DEF LoadedFrom
<1>9. k \in Nat /\ k > 0 /\ k < Len(rows)
  BY <1>1, <1>2
<1>10. /\ Len(L) = (n - k) + 1 /\ DOMAIN L = 1..((n - k) + 1) /\ L[1] = h
       /\ \A i \in 1..(n - k) : L[i + 1] = rows[k + i] /\ k + i \in DOMAIN rows
  BY <1>1, <1>8, <1>9, LoadedRows
<1>11. ASSUME NEW i \in DOMAIN L
       PROVE  \/ i = 1 /\ L[i] = h
              \/ i # 1 /\ (k + i) - 1 \in (k + 1)..n /\ L[i] = rows[(k + i) - 1] /\ (k + i) - 1 \in DOMAIN rows
  <2>1. CASE i = 1
    BY <1>10, <2>1
  <2>2. CASE i # 1
    <3>1. i - 1 \in 1..(n - k) /\ (i - 1) + 1 = i /\ k + (i - 1) = (k + i) - 1
      BY <1>1, <1>9, <1>10, <2>2
    <3>2. L[i] = rows[(k + i) - 1] /\ (k + i) - 1 \in DOMAIN rows
      BY <1>10, <3>1
    <3>3. (k + i) - 1 \in (k + 1)..n
      BY <1>1, <1>9, <3>1
    <3> QED
      BY <2>2, <3>2, <3>3
  <2> QED
    BY <2>1, <2>2
<1>12. ASSUME NEW i \in DOMAIN rows
       PROVE  /\ rows[i].msgs \in Seq(Bundles) /\ IdSet(rows[i].msgs) \subseteq Nat \ {0} /\ rows[i].run \in Nat
  <2>1. rows[i].msgs \in Seq(Plain) /\ rows[i].msgs \in Seq(Bundles) /\ rows[i].run \in Nat
    BY <1>1, <1>12, RowType
  <2> QED
    BY <2>1, PlainIds
<1>13. \A i \in DOMAIN L : IdSet(L[i].msgs) \subseteq Int /\ L[i].run \in Int /\ L[i].msgs \in Seq(Bundles)
  <2> TAKE i \in DOMAIN L
  <2>1. CASE i = 1
    BY <1>4, <1>5, <1>7, <1>11, <2>1
  <2>2. CASE i # 1
    <3>1. PICK j \in DOMAIN rows : L[i] = rows[j]
      BY <1>11, <2>2
    <3> QED
      BY <1>12, <3>1
  <2> QED
    BY <2>1, <2>2
<1>14. ASSUME NEW i \in DOMAIN L, NEW j \in DOMAIN L, i # j
       PROVE  IdSet(L[i].msgs) \cap IdSet(L[j].msgs) = {}
  <2>1. \A l \in DOMAIN rows : b.id \notin IdSet(rows[l].msgs)
    BY <1>4, <1>12
  <2>2. CASE i = 1
    <3>1. j # 1 /\ IdSet(L[i].msgs) = {b.id}
      BY <1>5, <1>7, <1>11, <1>14, <2>2
    <3>2. PICK y \in DOMAIN rows : L[j] = rows[y]
      BY <1>11, <3>1
    <3> QED
      BY <2>1, <3>1, <3>2
  <2>3. CASE j = 1
    <3>1. i # 1 /\ IdSet(L[j].msgs) = {b.id}
      BY <1>5, <1>7, <1>11, <1>14, <2>3
    <3>2. PICK y \in DOMAIN rows : L[i] = rows[y]
      BY <1>11, <3>1
    <3> QED
      BY <2>1, <3>1, <3>2
  <2>4. CASE i # 1 /\ j # 1
    <3>1. (k + i) - 1 \in DOMAIN rows /\ (k + j) - 1 \in DOMAIN rows /\ L[i] = rows[(k + i) - 1] /\ L[j] = rows[(k + j) - 1]
      BY <1>11, <2>4
    <3>2. (k + i) - 1 # (k + j) - 1
      BY <1>9, <1>10, <1>14
    <3>3. \A x, y \in DOMAIN rows : x # y => IdSet(rows[x].msgs) \cap IdSet(rows[y].msgs) = {}
      BY DEF RowsInv
    <3> QED
      BY <3>1, <3>2, <3>3
  <2> QED
    BY <2>2, <2>3, <2>4
<1>15. PICK F : F = RunOf(L)
  OBVIOUS
<1>16. /\ F \in Maps /\ DOMAIN F = UNION {IdSet(L[i].msgs) : i \in DOMAIN L}
       /\ \A i \in DOMAIN L : \A x \in IdSet(L[i].msgs) : F[x] = L[i].run
  BY <1>13, <1>14, <1>15, RunOfLoaded
<1>17. \A i \in (k + 1)..Len(rows) : \A x \in IdSet(rows[i].msgs) : x \in DOMAIN F /\ F[x] = rows[i].run
  <2> TAKE i \in (k + 1)..Len(rows)
  <2>1. i - k \in 1..(n - k) /\ k + (i - k) = i /\ (i - k) + 1 \in DOMAIN L
    BY <1>1, <1>9, <1>10
  <2>2. PICK j \in DOMAIN L : L[j] = rows[i]
    BY <1>10, <2>1
  <2> QED
    BY <1>16, <2>2
<1>18. ASSUME NEW x \in DOMAIN F
       PROVE  \/ \E i \in (k + 1)..Len(rows) : x \in IdSet(rows[i].msgs)
              \/ k > 0 /\ x = summary.message.id /\ F[x] = summary.id
  <2>1. PICK i \in DOMAIN L : x \in IdSet(L[i].msgs) /\ F[x] = L[i].run
    BY <1>16
  <2>2. CASE i = 1
    BY <1>2, <1>3, <1>5, <1>7, <1>9, <1>11, <2>1, <2>2
  <2>3. CASE i # 1
    BY <1>1, <1>11, <2>1, <2>3
  <2> QED
    BY <2>2, <2>3
<1>19. FlattenSeq([i \in DOMAIN L |-> L[i].msgs]) = <<summary.message>> \o Rest(k)
  <2>1. PICK w : w = <<msgs>>
    OBVIOUS
  <2>2. w \in Seq(Seq(Bundles)) /\ Len(w) = 1 /\ w[1] = msgs
    BY <2>1
  <2>3. PICK t : t = [i \in 1..(n - k) |-> rows[k + i].msgs]
    OBVIOUS
  <2>4. t \in Seq(Seq(Bundles)) /\ Len(t) = n - k /\ \A i \in 1..(n - k) : t[i] = rows[k + i].msgs
    <3>1. \A i \in 1..(n - k) : rows[k + i].msgs \in Seq(Bundles)
      BY <1>10, <1>12
    <3>2. n - k \in Nat
      BY <1>1, <1>9
    <3> QED
      BY <2>3, <3>1, <3>2
  <2>5. PICK u : u = [i \in DOMAIN L |-> L[i].msgs]
    OBVIOUS
  <2>6. u \in Seq(Seq(Bundles)) /\ Len(u) = (n - k) + 1 /\ \A i \in DOMAIN L : u[i] = L[i].msgs
    <3>1. PICK c \in Nat : c = (n - k) + 1
      BY <1>1, <1>9
    <3>2. u = [i \in 1..c |-> L[i].msgs] /\ \A i \in 1..c : L[i].msgs \in Seq(Bundles)
      BY <1>10, <1>13, <2>5, <3>1
    <3>3. u \in Seq(Seq(Bundles)) /\ Len(u) = c /\ \A i \in 1..c : u[i] = L[i].msgs
      BY <3>2
    <3> QED
      BY <1>10, <3>1, <3>3
  <2>7. PICK v : /\ v = w \o t /\ v \in Seq(Seq(Bundles)) /\ Len(v) = 1 + Len(t)
                 /\ \A i \in 1..(1 + Len(t)) : v[i] = IF i <= 1 THEN w[i] ELSE t[i - 1]
    <3>1. PICK Q, v : Q = Seq(Bundles) /\ v = w \o t
      OBVIOUS
    <3>2. w \in Seq(Q) /\ t \in Seq(Q) /\ Len(w) = 1
      BY <2>2, <2>4, <3>1
    <3>3. /\ v \in Seq(Q) /\ Len(v) = Len(w) + Len(t)
          /\ \A i \in 1..(Len(w) + Len(t)) : v[i] = IF i <= Len(w) THEN w[i] ELSE t[i - Len(w)]
      BY <3>1, <3>2, ConcatProperties
    <3> QED
      BY <3>1, <3>2, <3>3
  <2>8. v[1] = msgs
    <3>1. 1 \in 1..(1 + Len(t)) /\ 1 <= 1
      BY <1>1, <1>9, <2>4
    <3> QED
      BY <2>2, <2>7, <3>1
  <2>9. ASSUME NEW i \in 1..((n - k) + 1) PROVE u[i] = v[i]
    <3>1. i \in DOMAIN L /\ i \in 1..(1 + Len(t))
      BY <1>1, <1>9, <1>10, <2>4
    <3>2. CASE i = 1
      <4>1. u[i] = msgs
        BY <1>7, <1>11, <2>6, <3>1, <3>2
      <4> QED
        BY <2>8, <3>2, <4>1
    <3>3. CASE i # 1
      <4>1. i - 1 \in 1..(n - k) /\ ~(i <= 1) /\ k + (i - 1) = (k + i) - 1
        BY <1>1, <1>9, <3>3
      <4>2. t[i - 1] = rows[(k + i) - 1].msgs
        BY <2>4, <4>1
      <4>3. u[i] = rows[(k + i) - 1].msgs
        BY <1>11, <2>6, <3>1, <3>3
      <4> QED
        BY <2>7, <3>1, <4>1, <4>2, <4>3
    <3> QED
      BY <3>2, <3>3
  <2>10. u = v
    <3>1. Len(v) = Len(u)
      BY <1>1, <1>9, <2>4, <2>6, <2>7
    <3> QED
      BY <2>6, <2>7, <2>9, <3>1, SeqEqual
  <2>11. FlattenSeq(w \o t) = FlattenSeq(w) \o FlattenSeq(t)
    BY <2>2, <2>4, FlattenConcat
  <2>12. FlattenSeq(w) = msgs
    BY <2>1, FlattenOne
  <2>13. FlattenSeq(t) = Rest(k)
    BY <1>1, <2>3 DEF Rest
  <2>14. msgs = <<summary.message>>
    BY <1>2, <1>3, <1>5
  <2> QED
    BY <2>5, <2>7, <2>10, <2>11, <2>12, <2>13, <2>14
<1>20. <<summary.message>> \o Rest(k) \in Seq(Bundles)
  <2>1. Rest(k) \in Seq(Bundles)
    BY RestSteps, PlainLists
  <2> QED
    BY <1>2, <1>3, <1>5, <2>1, ConcatProperties
<1>21. LastState(L) = IF rows = <<>> THEN Fresh ELSE rows[Len(rows)]
  <2>1. (n - k) \in 1..(n - k) /\ k + (n - k) = n
    BY <1>1, <1>9
  <2>2. L[Len(L)] = rows[n]
    BY <1>10, <2>1
  <2>3. L # <<>>
    <3>1. Len(L) # 0
      BY <1>1, <1>9, <1>10
    <3> QED
      BY <3>1
  <2>4. rows # <<>>
    BY <1>1, <1>9, EmptySeq
  <2> QED
    BY <1>1, <2>2, <2>3, <2>4 DEF LastState, Last
<1>22. PICK old : old = FlattenSeq([i \in DOMAIN L |-> L[i].msgs])
  OBVIOUS
<1>23. F \in Maps /\ k # 0
  BY <1>9, <1>16
<1>24. old = <<summary.message>> \o Rest(k) /\ old \in Seq(Bundles)
  <2>1. PICK o : o = <<summary.message>> \o Rest(k) /\ o \in Seq(Bundles)
    BY <1>20
  <2>2. old = o
    BY <1>19, <1>22, <2>1
  <2> QED
    BY <2>1, <2>2
<1>25. k < Len(rows) /\ summary # NoResult /\ Position(summary.upTo) = k
  BY <1>2, <1>9
<1>26. Loading(L, k, old, F)
  BY <1>17, <1>18, <1>21, <1>23, <1>24, <1>25 DEF Loading
<1> QED
  BY <1>15, <1>22, <1>26

\* A manager that starts on what was loaded.
StartedBy(m, old, F) ==
  /\ m \in Managers /\ m.old = old /\ m.new = <<>> /\ m.runOf = F /\ m.summaries = NoResult
  /\ m.run = IF Resumes(m) THEN rows[Len(rows)].run ELSE runs + 1
  /\ m.queue = IF Resumes(m) THEN rows[Len(rows)].queue ELSE <<>>

\* Such a manager fits the thread.
LEMMA StartedFits ==
  ASSUME rows \in Seq(Rows), RowsInv, RowsCount, summary \in Results \cup {NoResult}, ResultInv(summary),
         runs \in Nat, bundles \in Nat, NEW L, NEW k \in 0..Len(rows), NEW old, NEW F, Loading(L, k, old, F),
         NEW m, StartedBy(m, old, F)
  PROVE  ManagerInv(m) /\ \A x \in IdSet(m.new) \cup IdSet(m.queue) \cup DOMAIN m.runOf : x <= bundles
<1>1. PICK n \in Nat : n = Len(rows) /\ DOMAIN rows = 1..n
  BY LenProperties
<1>2. /\ m \in Managers /\ m.old = old /\ m.new = <<>> /\ m.runOf = F /\ m.summaries = NoResult
      /\ m.run = IF Resumes(m) THEN rows[n].run ELSE runs + 1
      /\ m.queue = IF Resumes(m) THEN rows[n].queue ELSE <<>>
  BY <1>1 DEF StartedBy
<1>3. /\ \A i \in (k + 1)..n : \A x \in IdSet(rows[i].msgs) : x \in DOMAIN F /\ F[x] = rows[i].run
      /\ \A x \in DOMAIN F : \/ \E i \in (k + 1)..n : x \in IdSet(rows[i].msgs)
                             \/ k > 0 /\ x = summary.message.id /\ F[x] = summary.id
      /\ k = 0 => old = Rest(0)
      /\ k > 0 => /\ old = <<summary.message>> \o Rest(k) /\ k < n
                  /\ summary # NoResult /\ Position(summary.upTo) = k
  BY <1>1 DEF Loading
<1>4. Resumes(m) => n \in DOMAIN rows /\ ~rows[n].complete
  <2> SUFFICES ASSUME Resumes(m) PROVE n \in DOMAIN rows /\ ~rows[n].complete
    OBVIOUS
  <2>1. rows # <<>> /\ ~rows[n].complete
    BY <1>1 DEF Resumes
  <2>2. n # 0
    BY <1>1, <2>1, EmptySeq
  <2> QED
    BY <1>1, <2>1, <2>2
<1>5. \A i \in (k + 1)..n : i \in DOMAIN rows
  BY <1>1
<1>6. \A i \in DOMAIN rows : /\ rows[i].run \in Nat /\ rows[i].run > 0 /\ rows[i].run <= runs
                             /\ IdSet(rows[i].msgs) \subseteq Nat \ {0} /\ IdSet(rows[i].queue) \subseteq Nat \ {0}
                             /\ \A x \in IdSet(rows[i].msgs) \cup IdSet(rows[i].queue) : x <= bundles
  <2> TAKE i \in DOMAIN rows
  <2>1. rows[i].run \in Nat \ {0} /\ rows[i].msgs \in Seq(Plain) /\ rows[i].queue \in Seq(Plain)
    BY <1>1, RowType
  <2>2. IdSet(rows[i].msgs) \subseteq Nat \ {0} /\ IdSet(rows[i].queue) \subseteq Nat \ {0}
    BY <2>1, PlainIds
  <2>3. rows[i].run <= runs /\ \A x \in IdSet(rows[i].msgs) \cup IdSet(rows[i].queue) : x <= bundles
    BY DEF RowsCount
  <2> QED
    BY <2>1, <2>2, <2>3
<1>7. k > 0 => summary \in Results /\ summary.id \in Int /\ summary.id < 0 /\ summary.message \in Heads
               /\ summary.message.id \in Int /\ summary.message.id <= 0
  BY <1>3 DEF Results, Heads
<1>8. IdSet(m.new) = {}
  BY <1>2, IdSetNothing
<1>9. IdSet(m.queue) = IF Resumes(m) THEN IdSet(rows[n].queue) ELSE {}
  BY <1>2, IdSetNothing
<1>10. ASSUME NEW i \in DOMAIN rows PROVE IdSet(rows[i].msgs) \cap IdSet(m.queue) = {}
  <2>1. IdSet(rows[i].msgs) \cap IdSet(rows[n].queue) = {}
    BY <1>1 DEF RowsInv
  <2> QED
    BY <1>9, <2>1
<1>11. RunInv(m)
  <2>1. ~Resumes(m) => Placed(m)
    BY <1>8, <1>9 DEF Placed
  <2>2. ~Resumes(m) => \A i \in DOMAIN rows : rows[i].run < m.run
    BY <1>2, <1>6
  <2> QED
    BY <1>1, <1>2, <2>1, <2>2 DEF RunInv
<1>12. FlightInv(m)
  BY <1>8, <1>10 DEF FlightInv
<1>13. \A x \in IdSet(m.queue) : x \notin DOMAIN F
  <2> TAKE x \in IdSet(m.queue)
  <2>1. x \in Nat /\ x # 0
    BY <1>4, <1>6, <1>9
  <2>2. \A i \in (k + 1)..n : x \notin IdSet(rows[i].msgs)
    BY <1>5, <1>10
  <2>3. k > 0 => x # summary.message.id
    BY <1>7, <2>1
  <2> QED
    BY <1>3, <2>2, <2>3
<1>14. MapInv(m)
  <2>1. \A x \in IdSet(m.new) \cup IdSet(m.queue) : x \notin DOMAIN m.runOf
    BY <1>2, <1>8, <1>13
  <2>2. ASSUME NEW x \in DOMAIN F, F[x] = m.run
        PROVE  Resumes(m) /\ x \in IdSet(rows[n].msgs)
    <3>1. m.run \in Nat
      BY <1>2, ManagerType
    <3>2. ~(k > 0 /\ x = summary.message.id /\ F[x] = summary.id)
      BY <1>7, <2>2, <3>1
    <3>3. PICK i \in (k + 1)..n : x \in IdSet(rows[i].msgs)
      BY <1>3, <3>2
    <3>4. i \in DOMAIN rows /\ rows[i].run = m.run
      BY <1>3, <1>5, <2>2, <3>3
    <3>5. Resumes(m)
      <4>1. rows[i].run <= runs /\ rows[i].run \in Nat
        BY <1>6, <3>4
      <4>2. m.run # runs + 1
        BY <3>4, <4>1
      <4> QED
        BY <1>2, <4>2
    <3>6. m.run = rows[n].run /\ n \in DOMAIN rows
      BY <1>2, <1>4, <3>5
    <3>7. ~(i < n)
      <4>1. i < n => rows[i].run < rows[n].run
        BY <3>4, <3>6 DEF RowsInv
      <4>2. rows[i].run \in Nat
        BY <1>6, <3>4
      <4>3. ~(rows[i].run < rows[n].run)
        BY <3>4, <3>6, <4>2
      <4> QED
        BY <4>1, <4>3
    <3>8. i = n
      BY <1>1, <3>4, <3>7
    <3> QED
      BY <3>3, <3>5, <3>8
  <2> QED
    BY <1>1, <1>2, <2>1, <2>2 DEF MapInv
<1>15. Holds(m, k)
  <2>1. CASE k = 0
    <3>1. m.old = Rest(k)
      BY <1>2, <1>3, <2>1
    <3>2. Resumes(m) => k < Len(rows)
      BY <1>1, <1>4, <2>1
    <3> QED
      BY <1>1, <1>2, <1>3, <2>1, <3>1, <3>2 DEF Holds
  <2>2. CASE k > 0
    <3>1. PICK b \in Heads : b = summary.message
      BY <1>7, <2>2
    <3>2. Rest(k) \in Seq(Bundles) /\ b \in Bundles
      BY RestSteps, PlainLists
    <3>3. m.old = <<b>> \o Rest(k) /\ summary # NoResult
      BY <1>2, <1>3, <2>2, <3>1
    <3>4. m.old # <<>> /\ m.old[1] = b
      <4>1. PICK r : r = Rest(k)
        OBVIOUS
      <4>2. r \in Seq(Bundles)
        BY <3>2, <4>1
      <4>3. <<b>> \o r # <<>> /\ (<<b>> \o r)[1] = b
        BY <3>2, <4>2
      <4> QED
        BY <3>3, <4>1, <4>3
    <3>5. /\ b.kind = IF settings.kind = "llm" THEN "summary" ELSE "empty"
          /\ settings.kind = "llm" => b.of = Upto(k)
      BY <1>3, <2>2, <3>1, <3>3 DEF ResultInv
    <3>6. RunAt(m.runOf, b) <= 0
      <4>1. CASE b.id \in DOMAIN F
        <5>1. \A i \in (k + 1)..n : b.id \notin IdSet(rows[i].msgs)
          <6>1. b.id \in Int /\ b.id <= 0
            BY <1>7, <2>2, <3>1
          <6> QED
            BY <1>5, <1>6, <6>1
        <5>2. F[b.id] = summary.id
          BY <1>3, <4>1, <5>1
        <5>3. RunAt(m.runOf, b) = F[b.id]
          BY <1>2, <4>1 DEF RunAt
        <5> QED
          BY <1>7, <2>2, <5>2, <5>3
      <4>2. CASE b.id \notin DOMAIN F
        <5>1. RunAt(m.runOf, b) = 0
          BY <1>2, <4>2 DEF RunAt, NoRun
        <5> QED
          BY <5>1
      <4> QED
        BY <4>1, <4>2
    <3>7. HeadInv(m, b, k)
      BY <3>5, <3>6 DEF HeadInv
    <3>8. k < Len(rows)
      BY <1>1, <1>3, <2>2
    <3>9. \A i \in (k + 1)..Len(rows) : \A x \in IdSet(rows[i].msgs) : x \in DOMAIN m.runOf /\ m.runOf[x] = rows[i].run
      BY <1>1, <1>2, <1>3
    <3> QED
      BY <3>3, <3>4, <3>7, <3>8, <3>9 DEF Holds
  <2>3. k = 0 \/ k > 0
    BY <1>1
  <2> QED
    BY <2>1, <2>2, <2>3
<1>16. ResultInv(m.summaries)
  BY <1>2 DEF ResultInv
<1>17. \A x \in IdSet(m.new) \cup IdSet(m.queue) \cup DOMAIN m.runOf : x <= bundles
  <2>1. \A x \in IdSet(m.queue) : x <= bundles
    BY <1>4, <1>6, <1>9
  <2>2. ASSUME NEW x \in DOMAIN F PROVE x <= bundles
    <3>1. CASE \E i \in (k + 1)..n : x \in IdSet(rows[i].msgs)
      BY <1>5, <1>6, <3>1
    <3>2. CASE k > 0 /\ x = summary.message.id
      BY <1>7, <3>2
    <3> QED
      BY <1>3, <3>1, <3>2
  <2> QED
    BY <1>2, <1>8, <2>1, <2>2
<1> QED
  BY <1>11, <1>12, <1>14, <1>15, <1>16, <1>17 DEF ManagerInv

\* The run state that a turn continues from.
LEMMA LastType ==
  ASSUME rows \in Seq(Rows), RowsDue(summaries, bundles), NEW last, last = IF rows = <<>> THEN Fresh ELSE rows[Len(rows)]
  PROVE  /\ last.complete \in BOOLEAN /\ last.context \in Nat /\ last.pending \in Nat /\ last.usage \in Nat
         /\ last.queue \in Seq(Plain) /\ last.measured \in Measures /\ last.known \in BOOLEAN /\ last.due \in Nat
         /\ Weighed(last.measured, summaries, bundles)
         /\ last.known => last.context + last.pending >= last.due
         /\ ~last.complete => last = rows[Len(rows)] /\ last.run \in Nat \ {0}
         /\ \A m : Resumes(m) <=> ~last.complete
<1>1. CASE rows = <<>>
  <2>1. last.queue = <<>>
    BY <1>1 DEF Fresh
  <2>2. \A m : ~Resumes(m)
    BY <1>1 DEF Resumes
  <2>3. <<>> \in Seq(Plain)
    BY EmptySeq
  <2>4. last.context \in Nat /\ last.pending \in Nat /\ last.usage \in Nat /\ last.queue \in Seq(Plain)
    <3>1. last.context \in Nat /\ last.pending \in Nat /\ last.usage \in Nat
      BY <1>1 DEF Fresh
    <3>2. last.queue \in Seq(Plain)
      BY <2>1, <2>3, Zenon
    <3> QED
      BY <3>1, <3>2
  <2>5. last.complete \in BOOLEAN /\ last.complete
    BY <1>1 DEF Fresh
  <2>6. \A m : Resumes(m) <=> ~last.complete
    BY <2>2, <2>5
  <2>7. ~last.complete => last = rows[Len(rows)] /\ last.run \in Nat \ {0}
    BY <2>5
  <2>8. PICK w : w = <<>>
    OBVIOUS
  <2>9. w \in Measures /\ DOMAIN w = {}
    <3>1. DOMAIN w = {} /\ w \in [{} -> Nat \ {0}]
      BY <2>8
    <3>2. {} \in SUBSET Int
      OBVIOUS
    <3> QED
      BY <3>1, <3>2 DEF Measures
  <2>10. last.measured \in Measures /\ Weighed(last.measured, summaries, bundles)
    <3>1. last.measured = w
      BY <1>1, <2>8 DEF Fresh
    <3> QED
      BY <2>9, <3>1 DEF Weighed
  <2>11. last.known \in BOOLEAN /\ last.due \in Nat /\ last.context + last.pending >= last.due
    BY <1>1 DEF Fresh
  <2> QED
    BY <2>4, <2>5, <2>6, <2>7, <2>10, <2>11
<1>2. CASE rows # <<>>
  <2>1. Len(rows) \in DOMAIN rows
    <3>1. Len(rows) # 0
      BY <1>2, EmptySeq
    <3> QED
      BY <3>1, RowType
  <2>2. last = rows[Len(rows)]
    BY <1>2
  <2>3. last \in Rows
    BY <2>1, <2>2, RowType
  <2>4. \A m : Resumes(m) <=> ~last.complete
    BY <1>2, <2>2 DEF Resumes
  <2>5. /\ Weighed(last.measured, summaries, bundles)
        /\ last.known => last.context + last.pending >= last.due
    BY <2>1, <2>2 DEF RowsDue
  <2> QED
    BY <2>2, <2>3, <2>4, <2>5 DEF Rows
<1> QED
  BY <1>1, <1>2

\* How a turn starts: with what it loads, and a manager for it.
TurnTo(m, kind, last) ==
  /\ IF kind = "decision" THEN ~last.complete /\ mgr' = m /\ bundles' = bundles
     ELSE mgr' = AddMessages(m, NewBundle(kind, Human)) /\ bundles' = bundles + 1
  /\ runs' = IF last.complete THEN runs + 1 ELSE runs
  /\ rows' = rows /\ settings' = settings /\ summary' = summary /\ sent' = sent
  /\ summaries' = summaries /\ failures' = failures

TurnFrom(kind, m, last, L, k, old, F) ==
  /\ Loading(L, k, old, F) /\ StartedBy(m, old, F) /\ TurnTo(m, kind, last)
  /\ m.pc # "asked" /\ (Resumes(m) <=> ~last.complete)
  /\ m.known => m.context + m.pending >= Total(m.measured, old \o m.queue)
  /\ Weighed(m.measured, summaries, bundles)

\* A turn starts like this.
LEMMA TurnStarts ==
  ASSUME Inv, NEW asked \in Asked, NEW kind, Turn(asked, kind)
  PROVE  \E k \in 0..Len(rows) : \E m, last, L, old, F : TurnFrom(kind, m, last, L, k, old, F)
<1>1. /\ rows \in Seq(Rows) /\ RowsInv /\ RowsCount /\ summary \in Results \cup {NoResult} /\ ResultInv(summary)
      /\ bundles \in Nat /\ runs \in Nat /\ RowsDue(summaries, bundles)
  BY DEF Inv, TypeOK
<1>2. PICK L, old, last, F : /\ L = Load(asked) /\ old = FlattenSeq([i \in DOMAIN L |-> L[i].msgs])
                             /\ last = LastState(L) /\ F = RunOf(L)
  OBVIOUS
<1>3. PICK k \in 0..Len(rows) : LoadedFrom(L, k)
  BY <1>1, <1>2, LoadIs
<1>4. Loading(L, k, old, F)
  <2>1. k = 0 \/ k > 0
    BY <1>1, LenProperties
  <2>2. CASE k = 0
    <3>1. L = rows
      BY <1>3, <2>2 DEF LoadedFrom
    <3> QED
      BY <1>1, <1>2, <2>2, <3>1, ThreadLoaded
  <2>3. CASE k > 0
    BY <1>1, <1>2, <1>3, <2>3, SummaryLoaded
  <2> QED
    BY <2>1, <2>2, <2>3
<1>5. old \in Seq(Bundles) /\ F \in Maps /\ last = IF rows = <<>> THEN Fresh ELSE rows[Len(rows)]
  BY <1>2, <1>4 DEF Loading
<1>6. /\ last.complete \in BOOLEAN /\ last.context \in Nat /\ last.pending \in Nat /\ last.usage \in Nat
      /\ last.queue \in Seq(Plain) /\ last.measured \in Measures /\ last.known \in BOOLEAN /\ last.due \in Nat
      /\ Weighed(last.measured, summaries, bundles)
      /\ last.known => last.context + last.pending >= last.due
      /\ ~last.complete => last = rows[Len(rows)] /\ last.run \in Nat \ {0}
      /\ \A m : Resumes(m) <=> ~last.complete
  BY <1>1, <1>5, LastType
<1>7. PICK pc \in PCs, run \in Nat \ {0}, queue \in Seq(Plain), c \in Nat, p \in Nat, u \in Nat, known \in BOOLEAN,
           w \in Measures :
        /\ pc = (IF last.complete THEN "call" ELSE IF kind = "decision" THEN "tools" ELSE "pause")
        /\ run = (IF last.complete THEN runs + 1 ELSE last.run)
        /\ queue = (IF last.complete THEN <<>> ELSE last.queue)
        /\ c = last.context /\ p = last.pending /\ u = (IF last.complete THEN 0 ELSE last.usage)
        /\ w = last.measured /\ known = (last.known /\ Total(last.measured, old \o queue) <= last.due)
  <2>1. PICK pc \in PCs : pc = (IF last.complete THEN "call" ELSE IF kind = "decision" THEN "tools" ELSE "pause")
    BY DEF PCs
  <2>2. PICK run \in Nat \ {0} : run = (IF last.complete THEN runs + 1 ELSE last.run)
    BY <1>1, <1>6
  <2>3. PICK queue \in Seq(Plain) : queue = (IF last.complete THEN <<>> ELSE last.queue)
    BY <1>6, EmptySeq
  <2>4. PICK u \in Nat : u = (IF last.complete THEN 0 ELSE last.usage)
    BY <1>6
  <2>5. PICK known \in BOOLEAN : known = (last.known /\ Total(last.measured, old \o queue) <= last.due)
    <3>1. (last.known /\ Total(last.measured, old \o queue) <= last.due) \in BOOLEAN
      OBVIOUS
    <3> QED
      BY Zenon, <3>1
  <2> QED
    BY <1>6, <2>1, <2>2, <2>3, <2>4, <2>5
<1>8. PICK none \in Seq(Plain), empty \in SUBSET Int, nothing \in Results \cup {NoResult} :
        none = <<>> /\ empty = {} /\ nothing = NoResult
  BY EmptySeq
<1>9. PICK m : m = [pc |-> pc, run |-> run, old |-> old, new |-> none, queue |-> queue, runOf |-> F, steered |-> empty,
                    summaries |-> nothing, context |-> c, pending |-> p, usage |-> u, measured |-> w, known |-> known]
  OBVIOUS
<1>10. /\ m \in Managers /\ m.pc = pc /\ m.run = run /\ m.old = old /\ m.new = none /\ m.queue = queue /\ m.runOf = F
       /\ m.summaries = nothing /\ m.context = c /\ m.pending = p /\ m.known = known /\ m.measured = w
  BY <1>5, <1>9 DEF Managers, PCs
<1>11. StartedBy(m, old, F)
  <2>1. Resumes(m) <=> ~last.complete
    BY <1>6
  <2>2. m.run = IF Resumes(m) THEN rows[Len(rows)].run ELSE runs + 1
    BY <1>6, <1>7, <1>10, <2>1
  <2>3. m.queue = IF Resumes(m) THEN rows[Len(rows)].queue ELSE <<>>
    BY <1>6, <1>7, <1>10, <2>1
  <2> QED
    BY <1>8, <1>10, <2>2, <2>3 DEF StartedBy
<1>12. TurnTo(m, kind, last)
  <2>1. m = [pc |-> IF last.complete THEN "call" ELSE IF kind = "decision" THEN "tools" ELSE "pause",
             run |-> IF last.complete THEN runs + 1 ELSE last.run,
             old |-> old, new |-> <<>>, queue |-> queue,
             runOf |-> RunOf(L), steered |-> {}, summaries |-> NoResult,
             context |-> last.context, pending |-> last.pending,
             usage |-> IF last.complete THEN 0 ELSE last.usage,
             measured |-> last.measured,
             known |-> last.known /\ Total(last.measured, old \o queue) <= last.due]
    BY Zenon, <1>2, <1>7, <1>8, <1>9
  <2> QED
    BY <1>2, <1>7, <2>1 DEF Turn, TurnTo
<1>13. m.pc # "asked" /\ (Resumes(m) <=> ~last.complete)
  BY <1>6, <1>7, <1>10
<1>14. m.known => m.context + m.pending >= Total(m.measured, old \o m.queue)
  <2>1. old \o queue \in Seq(Bundles)
    BY <1>5, PlainLists, ConcatProperties
  <2>2. PICK t \in Nat, due \in Nat : t = Total(w, old \o queue) /\ due = last.due
    BY <1>6, <2>1, TotalType
  <2>3. known => t <= due /\ c + p >= due
    BY <1>6, <1>7, <2>2
  <2>4. known => c + p >= t
    BY <2>3
  <2> QED
    BY <1>10, <2>2, <2>4
<1>15. TurnFrom(kind, m, last, L, k, old, F)
  BY <1>4, <1>6, <1>7, <1>10, <1>11, <1>12, <1>13, <1>14 DEF TurnFrom
<1> QED
  BY <1>15

\* What a turn loads is numbered like what is stored.
LEMMA LoadedNumbers ==
  ASSUME rows \in Seq(Rows), summaries \in Nat, summary \in Results \cup {NoResult}, Headed(summary, summaries),
         NEW L, NEW k \in 0..Len(rows), NEW old, NEW F, Loading(L, k, old, F)
  PROVE  \A x \in IdSet(old) : 0 <= x + summaries
<1>1. k \in Nat
  BY LenProperties
<1>2. Rest(k) \in Seq(Plain)
  BY <1>1, RestSteps
<1>3. \A x \in IdSet(Rest(k)) : 0 <= x + summaries
  <2>1. IdSet(Rest(k)) \subseteq Nat \ {0}
    BY <1>2, PlainIds
  <2> QED
    BY <2>1
<1>4. CASE k = 0
  BY <1>3, <1>4 DEF Loading
<1>5. CASE k # 0
  <2>1. k > 0
    BY <1>1, <1>5
  <2>2. old = <<summary.message>> \o Rest(k) /\ summary # NoResult
    BY <2>1 DEF Loading
  <2>3. PICK h \in Heads : h = summary.message /\ 0 <= h.id + summaries
    BY <2>2 DEF Results, Headed
  <2>4. PICK H \in Seq(Bundles) : H = <<h>> /\ IdSet(H) = {h.id}
    <3>1. h \in Bundles
      BY DEF Bundles
    <3>2. <<h>> \in Seq(Bundles)
      BY <3>1
    <3> QED
      BY <3>2, IdSetOne
  <2>5. PICK R \in Seq(Bundles) : R = Rest(k)
    BY <1>2, PlainLists
  <2>6. IdSet(old) = {h.id} \cup IdSet(Rest(k))
    <3>1. old = H \o R
      BY <2>2, <2>3, <2>4, <2>5
    <3>2. IdSet(H \o R) = IdSet(H) \cup IdSet(R)
      BY IdSetConcat
    <3> QED
      BY <2>4, <2>5, <3>1, <3>2
  <2> QED
    BY <1>3, <2>3, <2>6
<1> QED
  BY <1>4, <1>5

\* A turn starts.
LEMMA TurnStep ==
  ASSUME Inv, NEW asked \in Asked, NEW kind \in {"user", "image", "decision"}, Turn(asked, kind)
  PROVE  Inv'
<1>1. /\ rows \in Seq(Rows) /\ RowsInv /\ RowsCount /\ summary \in Results \cup {NoResult} /\ ResultInv(summary)
      /\ bundles \in Nat /\ runs \in Nat /\ summaries \in Nat /\ failures \in Nat /\ Headed(summary, summaries)
  BY DEF Inv, TypeOK
<1>2. PICK k \in 0..Len(rows) : \E m, last, L, old, F : TurnFrom(kind, m, last, L, k, old, F)
  BY TurnStarts
<1>3. PICK m, last, L, old, F : TurnFrom(kind, m, last, L, k, old, F)
  BY <1>2
<1>4. /\ Loading(L, k, old, F) /\ StartedBy(m, old, F) /\ m.pc # "asked" /\ (Resumes(m) <=> ~last.complete)
  BY <1>3 DEF TurnFrom
<1>5. /\ m \in Managers /\ m.old = old /\ m.new = <<>>
      /\ m.run = IF Resumes(m) THEN rows[Len(rows)].run ELSE runs + 1
  BY <1>4 DEF StartedBy
<1>6. ManagerInv(m) /\ \A x \in IdSet(m.new) \cup IdSet(m.queue) \cup DOMAIN m.runOf : x <= bundles
  BY <1>1, <1>4, StartedFits
<1>7. /\ rows' = rows /\ settings' = settings /\ summary' = summary /\ summaries' = summaries /\ failures' = failures
      /\ runs' = IF Resumes(m) THEN runs ELSE runs + 1
  BY <1>3, <1>4 DEF TurnFrom, TurnTo
<1>8. runs' \in Nat /\ runs <= runs'
  BY <1>1, <1>7
<1>9. m.run <= runs'
  <2>1. CASE Resumes(m)
    <3>1. Len(rows) \in DOMAIN rows
      <4>1. rows # <<>>
        BY <2>1 DEF Resumes
      <4>2. Len(rows) # 0
        BY <1>1, <4>1, EmptySeq
      <4> QED
        BY <1>1, <4>2, RowType
    <3>2. rows[Len(rows)].run <= runs
      BY <1>1, <3>1 DEF RowsCount
    <3> QED
      BY <1>5, <1>7, <2>1, <3>2
  <2>2. CASE ~Resumes(m)
    BY <1>1, <1>5, <1>7, <2>2
  <2> QED
    BY <2>1, <2>2
<1>10. Counts(m)
  <2>1. old \o <<>> = old
    BY <1>5, ManagerType, ConcatEmptySeq
  <2>2. m.old \o m.new \o m.queue = old \o m.queue
    BY <1>5, <2>1
  <2>3. m.known => m.context + m.pending >= Total(m.measured, old \o m.queue)
    BY <1>3 DEF TurnFrom
  <2> QED
    BY <2>2, <2>3 DEF Counts
<1>n. NumberInv(m, summaries, bundles)
  <2>1. Weighed(m.measured, summaries, bundles) /\ Headed(m.summaries, summaries)
    BY <1>3, <1>4 DEF TurnFrom, StartedBy, Headed
  <2>2. \A x \in IdSet(old) : 0 <= x + summaries
    BY <1>1, <1>4, LoadedNumbers
  <2> QED
    BY <1>5, <2>1, <2>2 DEF NumberInv
<1>11. CASE kind = "decision"
  <2>1. ~last.complete /\ mgr' = m /\ bundles' = bundles
    BY <1>3, <1>11 DEF TurnFrom, TurnTo
  <2>2. Begun(m)
    BY <1>4, <2>1 DEF Begun
  <2>3. CountInv(m)
    BY <1>4, <1>10 DEF CountInv
  <2>4. /\ bundles' \in Nat /\ bundles <= bundles' /\ summaries' \in Nat /\ summaries <= summaries' /\ failures' \in Nat
        /\ NumberInv(m, summaries', bundles')
    BY <1>1, <1>7, <1>n, <2>1
  <2>5. \A x \in IdSet(m.new) \cup IdSet(m.queue) \cup DOMAIN m.runOf : x <= bundles'
    BY <1>6, <2>1
  <2> QED
    BY <1>5, <1>6, <1>7, <1>8, <1>9, <2>1, <2>2, <2>3, <2>4, <2>5, StepOf
<1>12. CASE kind # "decision"
  <2>1. kind \in PlainKinds /\ Human \in Agents \cup {Human}
    BY <1>12 DEF PlainKinds
  <2>2. PICK b \in Plain : b = NewBundle(kind, Human) /\ b.id = bundles + 1
    BY <1>1, <2>1, NewBundleType
  <2>3. PICK queue, m2 : queue \in BOOLEAN /\ ~queue /\ m2 = processIncoming(m, b, queue, TRUE)
    <3>1. PICK queue \in BOOLEAN : queue = FALSE
      OBVIOUS
    <3> QED
      BY <3>1
  <2>4. mgr' = m2 /\ bundles' = bundles + 1
    <3>1. processIncoming(m, b, FALSE, TRUE) = m2
      <4>1. queue = FALSE
        BY <2>3
      <4> QED
        BY <2>3, <4>1
    <3> QED
      BY <1>3, <1>12, <2>2, <3>1 DEF TurnFrom, TurnTo, AddMessages
  <2>5. /\ m2 \in Managers /\ m2.pc = m.pc /\ m2.run = m.run /\ m2.old = m.old /\ m2.summaries = m.summaries
        /\ m2.runOf = Extended(m.runOf, b.id, m.run)
        /\ m2.new = IF queue THEN m.new ELSE Append(m.new, b)
        /\ m2.queue = IF queue THEN Append(m.queue, b) ELSE m.queue
    BY <1>5, <2>3, ArrivedType
  <2>n. b.id \notin DOMAIN m.measured
    BY <1>1, <1>n, <2>2 DEF NumberInv, Weighed
  <2>6. CountInv(m2)
    <3>1. Counts(m2)
      BY <1>5, <1>10, <2>3, <2>n, EstimateCounts
    <3> QED
      BY <1>4, <2>5, <3>1 DEF CountInv
  <2>7. queue => Begun(m)
    BY <2>3
  <2>8. Weighed(m2.measured, summaries', bundles')
    <3>1. m2.measured = m.measured /\ m.measured \in Measures
      BY <1>5, <2>3, ArrivedType, ManagerType
    <3>2. /\ summaries' \in Nat /\ summaries <= summaries' /\ bundles' \in Nat /\ bundles <= bundles'
          /\ Weighed(m.measured, summaries, bundles)
      BY <1>1, <1>7, <1>n, <2>4 DEF NumberInv
    <3> QED
      BY <1>1, <3>1, <3>2, NumbersGrow
  <2> QED
    BY <1>5, <1>6, <1>7, <1>8, <1>9, <1>n, <2>2, <2>4, <2>5, <2>6, <2>7, <2>8, ArrivalAt
<1> QED
  BY <1>11, <1>12

-----------------------------------------------------------------------------
(* The theorems.                                                           *)

\* The empty thread, with nothing asked yet.
LEMMA InitInv ==
  ASSUME Init
  PROVE  Inv /\ ContextComplete
<1>1. TypeOK
  <2>1. settings \in [kind : {"llm", "window"}, keep : Nat \ {0}]
    <3>1. PICK kind \in Summarizers, keep \in Keeps : settings = [kind |-> kind, keep |-> keep]
      BY DEF Init
    <3>2. kind \in {"llm", "window"} /\ keep \in Nat \ {0}
      BY SummariesAssumption
    <3> QED
      BY <3>1, <3>2
  <2>2. rows \in Seq(Rows)
    <3>1. rows = <<>>
      BY DEF Init
    <3> QED
      BY <3>1, EmptySeq
  <2>3. summary \in Results \cup {NoResult} /\ mgr = Idle /\ bundles = 0 /\ runs = 0 /\ summaries = 0 /\ failures = 0
    <3>1. summary = NoResult
      BY Zenon DEF Init
    <3>2. mgr = Idle /\ bundles = 0 /\ runs = 0 /\ summaries = 0 /\ failures = 0
      BY Zenon DEF Init
    <3> QED
      BY <3>1, <3>2
  <2> QED
    BY <2>1, <2>2, <2>3 DEF TypeOK
<1>2. DOMAIN rows = {}
  <2>1. rows = <<>>
    BY Zenon DEF Init
  <2> QED
    BY <2>1
<1>3. RowsInv /\ RowsCount
  BY <1>2 DEF RowsInv, RowsCount
<1>4. ResultInv(summary)
  BY DEF Init, ResultInv
<1>5. mgr = Idle
  BY DEF Init
<1>d. RowsDue(summaries, bundles) /\ Headed(summary, summaries)
  BY <1>2 DEF Init, RowsDue, Headed
<1>6. Inv
  BY <1>1, <1>3, <1>4, <1>5, <1>d DEF Inv
<1>7. ContextComplete
  <2>1. PICK none : none = <<>>
    OBVIOUS
  <2>2. sent.prompt = none /\ sent.due = none /\ sent.mine = {}
    BY <2>1 DEF Init
  <2>3. [i \in DOMAIN none |-> none[i].bundle] = <<>>
    BY <2>1
  <2>4. Shown = none
    <3>1. Shown = Covers([i \in DOMAIN none |-> none[i].bundle])
      BY <2>2 DEF Shown
    <3> QED
      BY <2>1, <2>3, <3>1, CoversNothing
  <2>5. IsSuffix(none, none)
    BY <2>1 DEF IsSuffix, IsPrefix, Reverse
  <2> QED
    BY <2>2, <2>4, <2>5 DEF ContextComplete
<1> QED
  BY <1>6, <1>7

\* A step that hands over no prompt leaves the last one as complete as it was.
LEMMA SentBefore ==
  ASSUME ContextComplete, sent' = sent, settings' = settings
  PROVE  ContextComplete'
<1>1. Shown' = Shown
  BY DEF Shown
<1> QED
  BY <1>1 DEF ContextComplete

\* Every step preserves the invariant, and hands over a complete prompt if any.
LEMMA NextInv ==
  ASSUME Inv, ContextComplete, [Next]_vars
  PROVE  Inv' /\ ContextComplete'
<1>1. ASSUME NEW asked \in Asked, NEW kind \in {"user", "image", "decision"}, Turn(asked, kind)
      PROVE  Inv' /\ ContextComplete'
  <2>1. Inv'
    BY <1>1, TurnStep
  <2>2. sent' = sent /\ settings' = settings
    BY <1>1 DEF Turn
  <2> QED
    BY <2>1, <2>2, SentBefore
<1>2. CASE AddMessagesToQueue
  BY <1>2, QueueStep, SentBefore DEF AddMessagesToQueue
<1>3. ASSUME NEW agent \in Agents, CallModel(agent) PROVE Inv' /\ ContextComplete'
  BY <1>3, CallStep
<1>4. ASSUME NEW agent \in Agents, SummarizeAndCall(agent) PROVE Inv' /\ ContextComplete'
  BY <1>4, SummarizeStep
<1>5. ASSUME NEW agent \in Agents, NEW reported \in BOOLEAN, Reply(agent, reported) PROVE Inv' /\ ContextComplete'
  <2>1. Inv'
    BY <1>5, ReplyStep
  <2>2. sent' = sent /\ settings' = settings
    BY <1>5 DEF Reply
  <2> QED
    BY <2>1, <2>2, SentBefore
<1>6. CASE Tools
  BY <1>6, ToolsStep, SentBefore DEF Tools
<1>7. CASE Stop
  BY <1>7, StopStep, SentBefore DEF Stop
<1>8. CASE SaveSummary
  BY <1>8, SaveSummaryStep, SentBefore DEF SaveSummary
<1>9. CASE SaveMessages
  BY <1>9, SaveMessagesStep, SentBefore DEF SaveMessages
<1>10. CASE Fail
  BY <1>10, FailStep, SentBefore DEF Fail
<1>11. CASE UNCHANGED vars
  <2>1. /\ rows' = rows /\ settings' = settings /\ summary' = summary /\ mgr' = mgr /\ sent' = sent
        /\ bundles' = bundles /\ runs' = runs /\ summaries' = summaries /\ failures' = failures
    BY <1>11 DEF vars
  <2>2. failures' \in Nat
    BY <2>1 DEF Inv, TypeOK
  <2> QED
    BY <2>1, <2>2, NothingSaved, SentBefore
<1> QED
  BY <1>1, <1>2, <1>3, <1>4, <1>5, <1>6, <1>7, <1>8, <1>9, <1>10, <1>11 DEF Next

\* The invariant holds in every state, and the last prompt is complete.
THEOREM Invariance == Spec => [](Inv /\ ContextComplete)
<1>1. Init => Inv /\ ContextComplete
  BY InitInv
<1>2. Inv /\ ContextComplete /\ [Next]_vars => Inv' /\ ContextComplete'
  BY NextInv
<1> QED
  BY <1>1, <1>2, PTL DEF Spec

\* Every variable has its type in every state.
THEOREM TypeCorrect == Spec => []TypeOK
<1>1. Inv => TypeOK
  BY DEF Inv
<1> QED
  BY <1>1, Invariance, PTL

\* The token count that decides about summaries leaves out no bundle of the next
\* prompt: each is in it as the last usage report weighed it, for any weights a
\* provider may give, or as estimated if it came since (TrackUsage,
\* TrackAuxiliaryUsage, processIncoming and NewRun), while the report is known.
THEOREM CountLeavesNothingOut == Spec => []ContextMeasured
<1>1. Inv => ContextMeasured
  <2> SUFFICES ASSUME Inv, mgr # Idle, mgr.known
               PROVE  contextTokens(mgr) >= Total(mgr.measured, mgr.old \o mgr.new \o mgr.queue)
    BY DEF ContextMeasured
  <2>1. CountInv(mgr)
    BY DEF Inv
  <2> QED
    BY <2>1 DEF CountInv, Counts, contextTokens
<1> QED
  BY <1>1, Invariance, PTL

\* A stored summary whose boundary is a run of the thread stands for exactly the
\* thread up to and including that run (SaveSummary and LoadMessages).
THEOREM StoredSummaryStands == Spec => []SummaryCoversRun
<1>1. Inv => SummaryCoversRun
  <2> SUFFICES ASSUME Inv, settings.kind = "llm", summary # NoResult, Position(summary.upTo) > 0
               PROVE  summary.message.of = FlattenSeq([i \in 1..Position(summary.upTo) |-> Ids(rows[i].msgs)])
    BY DEF SummaryCoversRun
  <2>1. summary.message.of = Upto(Position(summary.upTo))
    BY DEF Inv, ResultInv
  <2> QED
    BY <2>1 DEF Upto
<1> QED
  BY <1>1, Invariance, PTL

\* What the model is shown stands for the whole thread: with the LLM summariser every
\* bundle once and in order, itself or in a summary of summaries; with the window a
\* tail that holds all of the run in flight.  Over any number of turns, summaries,
\* pauses, stops, failures and reloads, while the manager can place what is in flight
\* (GetMessages, LoadMessages and the two summarisers).
THEOREM PromptComplete == Spec => []ContextComplete
<1> QED
  BY Invariance, PTL
=============================================================================
