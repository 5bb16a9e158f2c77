------------------------ MODULE WriterPipelineProofs ------------------------
(***************************************************************************)
(* The invariants of WriterPipeline hold for every batch size, concurrency *)
(* and flush delay.  The argument is about pump(): PumpLemma says what it  *)
(* does to a queue and a set of running batches, FlushLemma lifts it to    *)
(* flushCurrentBatch(), and each action is one of the two.                 *)
(***************************************************************************)
EXTENDS WriterPipeline, TLAPS, FiniteSetTheorems, SequenceTheorems, FunctionTheorems

\* What a queue and a set of running batches satisfy around a call of pump().
QueueOK(q, first, last) ==
  /\ q \in Seq(Batches)
  /\ QueueHolds(q, first, last)
  /\ \A i \in DOMAIN q : Len(q[i]) <= BatchSize

RunningOK(running, first) ==
  /\ running \subseteq Batches
  /\ IsFiniteSet(running)
  /\ Cardinality(running) <= Concurrency
  /\ \A b \in running : b # <<>> /\ \A x \in Elements(b) : x <= first

LEMMA EmptyBatch ==
  /\ <<>> \in Batches /\ Len(<<>>) = 0
  /\ \A x, y : \A i \in DOMAIN <<>> : x = y
  BY DEF Batches

\* The messages of a queue are those of its batches.
LEMMA QueueContents ==
  \A q, x : x \in Contents(Elements(q)) <=> \E i \in DOMAIN q : x \in Elements(q[i])
  <1> SUFFICES ASSUME NEW q, NEW x
               PROVE  x \in Contents(Elements(q)) <=> \E i \in DOMAIN q : x \in Elements(q[i])
    OBVIOUS
  <1>1. \A b : b \in Elements(q) <=> \E i \in DOMAIN q : b = q[i]
    BY DEF Elements
  <1>2. x \in Contents(Elements(q)) <=> \E b \in Elements(q) : x \in Elements(b)
    BY DEF Contents
  <1> QED
    BY <1>1, <1>2

\* The batches pump() takes off the queue.
FirstBatches(q, n) == {q[i] : i \in 1..n}

\* Starting the first n batches of the queue adds exactly n to those running:
\* they differ from each other and from what runs.
LEMMA StartedBatchesCount ==
  ASSUME NEW q, NEW running, NEW first \in Nat, NEW last \in Nat,
         QueueOK(q, first, last), RunningOK(running, first),
         NEW n \in 0..Len(q)
  PROVE  /\ FirstBatches(q, n) \subseteq Batches
         /\ IsFiniteSet(running \cup FirstBatches(q, n))
         /\ Cardinality(running \cup FirstBatches(q, n)) = Cardinality(running) + n
  <1> DEFINE new == {q[i] : i \in 1..n}
             f == [i \in 1..n |-> q[i]]
  <1>1. Len(q) \in Nat /\ DOMAIN q = 1..Len(q) /\ \A i \in 1..n : i \in DOMAIN q /\ q[i] \in Batches
    BY DEF QueueOK
  <1>2. \A i \in 1..n : q[i][1] \in Elements(q[i]) /\ q[i][1] \in Nat
    <2> SUFFICES ASSUME NEW i \in 1..n
                 PROVE  q[i][1] \in Elements(q[i]) /\ q[i][1] \in Nat
      OBVIOUS
    <2>1. q[i] \in Seq(Nat) /\ q[i] # <<>>
      BY <1>1 DEF QueueOK, QueueHolds, Batches
    <2>2. 1 \in DOMAIN q[i] /\ q[i][1] \in Nat
      BY <2>1
    <2> QED
      BY <2>2 DEF Elements
  <1>3. \A i, j \in 1..n : i < j => q[i] # q[j]
    <2> SUFFICES ASSUME NEW i \in 1..n, NEW j \in 1..n, i < j, q[i] = q[j]
                 PROVE  FALSE
      OBVIOUS
    <2>1. q[i][1] < q[j][1]
      BY <1>1, <1>2 DEF QueueOK, QueueHolds
    <2> QED
      BY <1>2, <2>1
  <1>4. f \in Bijection(1..n, new)
    <2>1. f \in [1..n -> new]
      OBVIOUS
    <2>2. \A i, j \in 1..n : f[i] = f[j] => i = j
      BY <1>3
    <2>3. \A y \in new : \E i \in 1..n : f[i] = y
      OBVIOUS
    <2> QED
      BY <2>1, <2>2, <2>3 DEF Bijection, Injection, Surjection, IsInjective
  <1>5. IsFiniteSet(new) /\ Cardinality(new) = n
    <2>1. IsFiniteSet(1..n) /\ Cardinality(1..n) = n
      BY <1>1, FS_Interval
    <2>2. ExistsBijection(1..n, new)
      BY <1>4 DEF ExistsBijection
    <2> QED
      BY <2>1, <2>2, FS_Bijection
  <1>6. running \cap new = {}
    <2> SUFFICES ASSUME NEW i \in 1..n, q[i] \in running
                 PROVE  FALSE
      OBVIOUS
    <2>1. q[i][1] <= first
      BY <1>2 DEF RunningOK
    <2>2. q[i][1] \in (first + 1)..last
      BY <1>1, <1>2, QueueContents DEF QueueOK, QueueHolds
    <2> QED
      BY <2>1, <2>2
  <1>7. Cardinality(running) \in Nat /\ IsFiniteSet(running)
    BY FS_CardinalityType DEF RunningOK
  <1>8. Cardinality(running \cap new) = 0
    BY <1>6, FS_EmptySet
  <1>9. /\ IsFiniteSet(running \cup new)
        /\ Cardinality(running \cup new) = Cardinality(running) + n
    <2>1. /\ IsFiniteSet(running \cup new)
          /\ Cardinality(running \cup new) =
               Cardinality(running) + Cardinality(new) - Cardinality(running \cap new)
      BY <1>5, <1>7, FS_Union
    <2> HIDE DEF new
    <2> QED
      BY <1>5, <1>7, <1>8, <2>1
  <1> QED
    BY <1>1, <1>9 DEF FirstBatches

\* What is left of the queue continues what has been started.
LEMMA RestOfQueue ==
  ASSUME NEW q, NEW first \in Nat, NEW last \in Nat, QueueOK(q, first, last),
         NEW n \in 1..Len(q)
  PROVE  /\ q[n][Len(q[n])] \in first..last
         /\ QueueOK(SubSeq(q, n + 1, Len(q)), q[n][Len(q[n])], last)
         /\ Len(SubSeq(q, n + 1, Len(q))) = Len(q) - n
         /\ Contents(FirstBatches(q, n)) = (first + 1)..q[n][Len(q[n])]
  <1> DEFINE rest == SubSeq(q, n + 1, Len(q))
             mark == q[n][Len(q[n])]
  <1>1. /\ Len(q) \in Nat /\ DOMAIN q = 1..Len(q)
        /\ \A i \in DOMAIN q : q[i] \in Seq(Nat) /\ q[i] # <<>> /\ Increasing(q[i])
    BY DEF QueueOK, QueueHolds, Batches
  <1>2. /\ rest \in Seq(Batches)
        /\ Len(rest) = Len(q) - n
        /\ DOMAIN rest = 1..(Len(q) - n)
        /\ \A i \in DOMAIN rest : rest[i] = q[n + i] /\ n + i \in DOMAIN q
    <2>1. \A i \in (n + 1)..Len(q) : q[i] \in Batches
      BY <1>1 DEF Batches
    <2>2. /\ rest \in Seq(Batches)
          /\ Len(rest) = IF n + 1 <= Len(q) THEN Len(q) - (n + 1) + 1 ELSE 0
          /\ \A i \in 1..(Len(q) - (n + 1) + 1) : rest[i] = q[(n + 1) + i - 1]
      BY <1>1, <2>1, SubSeqProperties
    <2>0. n \in Int /\ 1 <= n /\ n <= Len(q) /\ Len(q) \in Nat
      BY <1>1
    <2> HIDE DEF rest
    <2>3. Len(rest) = Len(q) - n /\ DOMAIN rest = 1..(Len(q) - n)
      <3>1. Len(rest) = Len(q) - n
        <4>1. Len(rest) = IF n + 1 <= Len(q) THEN Len(q) - (n + 1) + 1 ELSE 0
          BY <2>2
        <4> QED
          BY <2>0, <4>1
      <3> QED
        BY <2>2, <3>1, LenProperties
    <2>4. \A i \in DOMAIN rest : rest[i] = q[n + i] /\ n + i \in DOMAIN q
      <3> SUFFICES ASSUME NEW i \in DOMAIN rest
                   PROVE  rest[i] = q[n + i] /\ n + i \in DOMAIN q
        OBVIOUS
      <3>1. i \in Int /\ i \in 1..(Len(q) - (n + 1) + 1) /\ (n + 1) + i - 1 = n + i
        BY <1>1, <2>0, <2>3
      <3> QED
        <4>1. rest[i] = q[(n + 1) + i - 1]
          BY <2>2, <3>1
        <4>2. n + i \in 1..Len(q)
          BY <2>0, <2>3, <3>1
        <4> QED
          BY <1>1, <3>1, <4>1, <4>2
    <2> QED
      BY <2>2, <2>3, <2>4
  <1>3. \A i \in DOMAIN q : \A x \in Elements(q[i]) : x \in (first + 1)..last
    BY QueueContents DEF QueueOK, QueueHolds
  <1>4. mark \in Elements(q[n]) /\ mark \in (first + 1)..last
    <2>1. Len(q[n]) \in DOMAIN q[n]
      BY <1>1
    <2> QED
      BY <1>1, <1>3, <2>1 DEF Elements
  <1>5. \A x \in Elements(q[n]) : x <= mark
    <2> SUFFICES ASSUME NEW k \in DOMAIN q[n]
                 PROVE  q[n][k] <= mark
      BY DEF Elements
    <2>1. /\ Len(q[n]) \in Nat /\ k \in 1..Len(q[n]) /\ Len(q[n]) \in DOMAIN q[n]
          /\ q[n][k] \in Nat /\ mark \in Nat
      BY <1>1
    <2>2. CASE k = Len(q[n])
      BY <2>1, <2>2
    <2>3. CASE k < Len(q[n])
      BY <1>1, <2>1, <2>3 DEF Increasing
    <2> QED
      BY <2>1, <2>2, <2>3
  <1>6. \A i \in DOMAIN q : \A x \in Elements(q[i]) :
          /\ i <= n => x \in (first + 1)..mark
          /\ i > n => x \in (mark + 1)..last
    <2> SUFFICES ASSUME NEW i \in DOMAIN q, NEW x \in Elements(q[i])
                 PROVE  /\ i <= n => x \in (first + 1)..mark
                        /\ i > n => x \in (mark + 1)..last
      OBVIOUS
    <2>1. x \in (first + 1)..last
      BY <1>3
    <2>2. i < n => x < mark
      BY <1>1, <1>4 DEF QueueOK, QueueHolds
    <2>3. i > n => mark < x
      BY <1>1, <1>4 DEF QueueOK, QueueHolds
    <2>4. i = n => x <= mark
      BY <1>5
    <2> QED
      BY <1>1, <1>4, <2>1, <2>2, <2>3, <2>4
  <1>7. \A x \in (first + 1)..last : \E i \in DOMAIN q : x \in Elements(q[i])
    BY QueueContents DEF QueueOK, QueueHolds
  <1>8. Contents({q[i] : i \in 1..n}) = (first + 1)..mark
    <2>1. ASSUME NEW x \in Contents({q[i] : i \in 1..n})
          PROVE  x \in (first + 1)..mark
      <3>1. PICK i \in 1..n : x \in Elements(q[i])
        BY DEF Contents
      <3> QED
        BY <1>1, <1>6, <3>1
    <2>2. ASSUME NEW x \in (first + 1)..mark
          PROVE  x \in Contents({q[i] : i \in 1..n})
      <3>1. x \in (first + 1)..last
        BY <1>4
      <3>2. PICK i \in DOMAIN q : x \in Elements(q[i])
        BY <1>7, <3>1
      <3>3. i <= n
        BY <1>1, <1>4, <1>6, <3>2
      <3> QED
        BY <1>1, <3>2, <3>3 DEF Contents
    <2> QED
      BY <2>1, <2>2
  <1>9. Contents(Elements(rest)) = (mark + 1)..last
    <2>1. ASSUME NEW x \in Contents(Elements(rest))
          PROVE  x \in (mark + 1)..last
      <3>1. PICK i \in DOMAIN rest : x \in Elements(rest[i])
        BY QueueContents
      <3>2. n + i \in DOMAIN q /\ x \in Elements(q[n + i])
        BY <1>2, <3>1
      <3>3. n + i > n
        <4>1. i \in 1..(Len(q) - n) /\ n \in Int
          BY <1>2
        <4> QED
          BY <4>1
      <3> QED
        BY <1>6, <3>2, <3>3
    <2>2. ASSUME NEW x \in (mark + 1)..last
          PROVE  x \in Contents(Elements(rest))
      <3>1. x \in (first + 1)..last
        BY <1>4
      <3>2. PICK i \in DOMAIN q : x \in Elements(q[i])
        BY <1>7, <3>1
      <3>3. i > n
        BY <1>1, <1>4, <1>6, <3>2
      <3>4. i - n \in DOMAIN rest /\ rest[i - n] = q[i]
        <4>1. i - n \in 1..(Len(q) - n) /\ n + (i - n) = i
          BY <1>1, <3>3
        <4>2. i - n \in DOMAIN rest /\ rest[i - n] = q[n + (i - n)]
          BY <1>2, <4>1
        <4> QED
          BY <4>1, <4>2
      <3>5. x \in Elements(rest[i - n])
        BY <3>2, <3>4
      <3> QED
        BY <3>4, <3>5, QueueContents
    <2> QED
      BY <2>1, <2>2
  <1>10. QueueHolds(rest, mark, last)
    <2>1. \A i \in DOMAIN rest : rest[i] # <<>> /\ Increasing(rest[i])
      BY <1>1, <1>2
    <2>2. ASSUME NEW i \in DOMAIN rest, NEW j \in DOMAIN rest, i < j,
                 NEW x \in Elements(rest[i]), NEW y \in Elements(rest[j])
          PROVE  x < y
      <3>1. /\ n + i \in DOMAIN q /\ n + j \in DOMAIN q /\ n + i < n + j
            /\ x \in Elements(q[n + i]) /\ y \in Elements(q[n + j])
        <4>1. n \in Int /\ i \in 1..(Len(q) - n) /\ j \in 1..(Len(q) - n)
          BY <1>2
        <4>2. n + i < n + j
          BY <2>2, <4>1
        <4>3. /\ n + i \in DOMAIN q /\ rest[i] = q[n + i]
              /\ n + j \in DOMAIN q /\ rest[j] = q[n + j]
          BY <1>2
        <4> HIDE DEF rest
        <4> QED
          BY <2>2, <4>2, <4>3
      <3> QED
        BY <3>1 DEF QueueOK, QueueHolds
    <2> QED
      BY <2>1, <2>2, <1>9 DEF QueueHolds
  <1>11. \A i \in DOMAIN rest : Len(rest[i]) <= BatchSize
    BY <1>2 DEF QueueOK
  <1> QED
    BY <1>2, <1>4, <1>8, <1>10, <1>11 DEF QueueOK, FirstBatches

\* Appending the next messages to a queue.
LEMMA AppendedQueue ==
  ASSUME NEW q, NEW first \in Nat, NEW last \in Nat, first <= last,
         QueueOK(q, first, last),
         NEW batch \in Batches, batch # <<>>, Len(batch) <= BatchSize,
         \A i \in DOMAIN batch : batch[i] = last + i
  PROVE  QueueOK(Append(q, batch), first, last + Len(batch))
  <1> DEFINE longer == Append(q, batch)
             n == Len(q)
             m == Len(batch)
  <1>1. /\ n \in Nat /\ m \in Nat /\ DOMAIN q = 1..n /\ DOMAIN batch = 1..m
        /\ q \in Seq(Batches)
    BY DEF QueueOK, Batches
  <1>2. /\ longer \in Seq(Batches) /\ DOMAIN longer = 1..(n + 1)
        /\ longer[n + 1] = batch
        /\ \A i \in 1..n : longer[i] = q[i]
    BY <1>1
  <1>3. Increasing(batch)
    BY <1>1 DEF Increasing
  <1>4. \A x : x \in Elements(batch) <=> x \in (last + 1)..(last + m)
    <2> SUFFICES ASSUME NEW x
                 PROVE  x \in Elements(batch) <=> x \in (last + 1)..(last + m)
      OBVIOUS
    <2>1. x \in Elements(batch) <=> \E i \in 1..m : x = last + i
      BY <1>1 DEF Elements
    <2>2. x \in (last + 1)..(last + m) => x - last \in 1..m /\ x = last + (x - last)
      BY <1>1
    <2>3. \A i \in 1..m : last + i \in (last + 1)..(last + m)
      BY <1>1
    <2> QED
      BY <2>1, <2>2, <2>3
  <1>5. \A i \in 1..n : \A x \in Elements(q[i]) : x \in (first + 1)..last
    BY <1>1, QueueContents DEF QueueOK, QueueHolds
  <1> HIDE DEF longer, n, m
  <1>6. \A i \in DOMAIN longer : longer[i] # <<>> /\ Increasing(longer[i]) /\ Len(longer[i]) <= BatchSize
    <2> SUFFICES ASSUME NEW i \in DOMAIN longer
                 PROVE  longer[i] # <<>> /\ Increasing(longer[i]) /\ Len(longer[i]) <= BatchSize
      OBVIOUS
    <2>1. CASE i \in 1..n
      BY <1>1, <1>2, <2>1 DEF QueueOK, QueueHolds
    <2>2. CASE i = n + 1
      BY <1>2, <1>3, <2>2
    <2> QED
      BY <1>1, <1>2, <2>1, <2>2
  <1>7. ASSUME NEW i \in DOMAIN longer, NEW j \in DOMAIN longer, i < j,
               NEW x \in Elements(longer[i]), NEW y \in Elements(longer[j])
        PROVE  x < y
    <2>1. i \in 1..n
      BY <1>1, <1>2, <1>7
    <2>2. x \in Elements(q[i])
      BY <1>2, <2>1
    <2>3. CASE j \in 1..n
      <3>1. y \in Elements(q[j])
        BY <1>2, <2>3
      <3> QED
        BY <1>1, <1>7, <2>1, <2>2, <2>3, <3>1 DEF QueueOK, QueueHolds
    <2>4. CASE j = n + 1
      <3>1. y \in (last + 1)..(last + m)
        BY <1>2, <1>4, <2>4
      <3>2. x \in (first + 1)..last
        BY <1>5, <2>1, <2>2
      <3> QED
        BY <3>1, <3>2
    <2> QED
      BY <1>1, <1>2, <2>3, <2>4
  <1>8. Contents(Elements(longer)) = (first + 1)..(last + m)
    <2>1. ASSUME NEW x \in Contents(Elements(longer))
          PROVE  x \in (first + 1)..(last + m)
      <3>1. PICK i \in DOMAIN longer : x \in Elements(longer[i])
        BY QueueContents
      <3>2. CASE i \in 1..n
        BY <1>1, <1>2, <1>5, <3>1, <3>2
      <3>3. CASE i = n + 1
        BY <1>1, <1>2, <1>4, <3>1, <3>3
      <3> QED
        BY <1>1, <1>2, <3>2, <3>3
    <2>2. ASSUME NEW x \in (first + 1)..(last + m)
          PROVE  x \in Contents(Elements(longer))
      <3>1. CASE x \in (first + 1)..last
        <4>1. PICK i \in DOMAIN q : x \in Elements(q[i])
          BY <3>1, QueueContents DEF QueueOK, QueueHolds
        <4>2. i \in DOMAIN longer /\ longer[i] = q[i]
          BY <1>1, <1>2, <4>1
        <4> QED
          BY <4>1, <4>2, QueueContents
      <3>2. CASE x \in (last + 1)..(last + m)
        <4>1. x \in Elements(longer[n + 1]) /\ n + 1 \in DOMAIN longer
          BY <1>1, <1>2, <1>4, <3>2
        <4> QED
          BY <4>1, QueueContents
      <3> QED
        BY <1>1, <3>1, <3>2
    <2> QED
      BY <2>1, <2>2
  <1> QED
    BY <1>2, <1>6, <1>7, <1>8 DEF QueueOK, QueueHolds, longer, m

\* A queue, the running batches, the counter of what was started, the end of the
\* queue and the set of what is done fit together, and no slot is left idle.
Consistent(q, running, first, last, done) ==
  /\ first \in Nat /\ last \in Nat /\ first <= last
  /\ QueueOK(q, first, last)
  /\ RunningOK(running, first)
  /\ q # <<>> => Cardinality(running) = Concurrency
  /\ 1..first = done \cup Contents(running)
  /\ Len(q) <= 2 * Concurrency

\* pump() makes a queue and a set of running batches consistent.
LEMMA PumpLemma ==
  ASSUME NEW queued, NEW running, NEW last \in Nat, NEW done,
         started \in Nat, started <= last,
         QueueOK(queued, started, last), RunningOK(running, started),
         1..started = done \cup Contents(running),
         Len(queued) <= 2 * Concurrency,
         Pump(queued, running)
  PROVE  /\ Consistent(pendingBatches', inFlight', started', last, done)
         /\ Len(pendingBatches') <= Len(queued)
  <1> DEFINE n == Startable(queued, running)
             new == FirstBatches(queued, n)
  <1> USE PipelineAssumption
  <1>1. /\ Len(queued) \in Nat /\ queued \in Seq(Batches) /\ DOMAIN queued = 1..Len(queued)
        /\ Cardinality(running) \in Nat /\ Cardinality(running) <= Concurrency
    BY FS_CardinalityType DEF QueueOK, RunningOK
  <1>2. /\ n \in 0..Len(queued)
        /\ Cardinality(running) + n <= Concurrency
        /\ n < Len(queued) => Cardinality(running) + n = Concurrency
    BY <1>1 DEF Startable
  <1>3. /\ pendingBatches' = SubSeq(queued, n + 1, Len(queued))
        /\ inFlight' = running \cup new
        /\ started' = IF n = 0 THEN started ELSE queued[n][Len(queued[n])]
    BY DEF Pump, FirstBatches
  <1> HIDE DEF n
  <1>4. /\ new \subseteq Batches
        /\ IsFiniteSet(running \cup new)
        /\ Cardinality(running \cup new) = Cardinality(running) + n
    BY <1>2, StartedBatchesCount
  <1>5. /\ started' \in Nat /\ started <= started' /\ started' <= last
        /\ QueueOK(pendingBatches', started', last)
        /\ Len(pendingBatches') = Len(queued) - n
        /\ 1..started' = 1..started \cup Contents(new)
    <2>1. CASE n = 0
      <3>1. pendingBatches' = queued /\ started' = started
        BY <1>1, <1>3, <2>1, SubSeqFull
      <3>2. Contents(new) = {}
        BY <2>1 DEF Contents, FirstBatches
      <3> QED
        BY <1>1, <2>1, <3>1, <3>2
    <2>2. CASE n \in 1..Len(queued)
      <3>1. /\ started' \in started..last
            /\ QueueOK(pendingBatches', started', last)
            /\ Len(pendingBatches') = Len(queued) - n
            /\ Contents(new) = (started + 1)..started'
        <4> DEFINE mark == queued[n][Len(queued[n])]
        <4>1. /\ mark \in started..last
              /\ QueueOK(SubSeq(queued, n + 1, Len(queued)), mark, last)
              /\ Len(SubSeq(queued, n + 1, Len(queued))) = Len(queued) - n
              /\ Contents(FirstBatches(queued, n)) = (started + 1)..mark
          BY <2>2, RestOfQueue
        <4>2. started' = mark
          BY <1>3, <2>2
        <4> HIDE DEF mark
        <4> QED
          BY <1>3, <4>1, <4>2
      <3>2. 1..started' = 1..started \cup (started + 1)..started'
        <4>1. started' \in Nat /\ started <= started'
          BY <3>1
        <4> QED
          BY <4>1
      <3> QED
        BY <3>1, <3>2
    <2> QED
      <3>1. n = 0 \/ n \in 1..Len(queued)
        BY <1>1, <1>2
      <3> QED
        BY <2>1, <2>2, <3>1
  <1>6. Contents(inFlight') = Contents(running) \cup Contents(new)
    BY <1>3 DEF Contents
  <1>7. 1..started' = done \cup Contents(inFlight')
    BY <1>5, <1>6
  <1>8. RunningOK(inFlight', started')
    <2>1. \A b \in new : b # <<>>
      BY <1>1, <1>2 DEF QueueOK, QueueHolds, FirstBatches
    <2>2. \A b \in inFlight' : b # <<>>
      BY <1>3, <2>1 DEF RunningOK
    <2>3. \A b \in inFlight' : \A x \in Elements(b) : x <= started'
      <3>1. \A b \in inFlight' : \A x \in Elements(b) : x \in 1..started'
        BY <1>7 DEF Contents
      <3> QED
        BY <1>5, <3>1
    <2>4. inFlight' \subseteq Batches /\ IsFiniteSet(inFlight')
      BY <1>3, <1>4 DEF RunningOK
    <2>5. Cardinality(inFlight') <= Concurrency
      BY <1>2, <1>3, <1>4
    <2> QED
      BY <2>2, <2>3, <2>4, <2>5 DEF RunningOK
  <1>9. pendingBatches' # <<>> => Cardinality(inFlight') = Concurrency
    <2> SUFFICES ASSUME pendingBatches' # <<>>
                 PROVE  Cardinality(inFlight') = Concurrency
      OBVIOUS
    <2>1. pendingBatches' \in Seq(Batches)
      BY <1>5 DEF QueueOK
    <2>2. Len(pendingBatches') \in Nat \ {0}
      BY <2>1, EmptySeq
    <2>3. n < Len(queued)
      <3>1. Len(queued) - n > 0
        BY <1>5, <2>2
      <3> QED
        BY <1>1, <1>2, <3>1
    <2> QED
      BY <1>2, <1>3, <1>4, <2>3
  <1>10. Len(pendingBatches') <= Len(queued) /\ Len(pendingBatches') <= 2 * Concurrency
    BY <1>1, <1>2, <1>5
  <1> QED
    BY <1>5, <1>7, <1>8, <1>9, <1>10 DEF Consistent

\* flushCurrentBatch() on the next messages of the order of acceptance.
LEMMA FlushLemma ==
  ASSUME NEW last \in Nat, NEW done, NEW batch \in Batches,
         Consistent(pendingBatches, inFlight, started, last, done),
         Len(batch) <= BatchSize,
         \A i \in DOMAIN batch : batch[i] = last + i,
         batch # <<>> => Len(pendingBatches) < 2 * Concurrency,
         Flush(batch)
  PROVE  /\ flushTimer' = FALSE
         /\ currentBatch' = <<>>
         /\ Consistent(pendingBatches', inFlight', started', last + Len(batch), done)
  <1> USE PipelineAssumption
  <1>1. flushTimer' = FALSE /\ currentBatch' = <<>>
    BY DEF Flush
  <1>2. CASE batch = <<>>
    <2>1. last + Len(batch) = last
      BY <1>2
    <2>2. UNCHANGED <<pendingBatches, inFlight, started>>
      BY <1>2 DEF Flush
    <2> QED
      BY <1>1, <2>1, <2>2
  <1>3. CASE batch # <<>>
    <2> DEFINE longer == Append(pendingBatches, batch)
    <2>1. Pump(longer, inFlight)
      BY <1>3 DEF Flush
    <2>2. Len(batch) \in Nat /\ started \in Nat /\ started <= last
      BY DEF Batches, Consistent
    <2>3. QueueOK(longer, started, last + Len(batch))
      BY <1>3, <2>2, AppendedQueue DEF Consistent
    <2>4. Len(longer) <= 2 * Concurrency
      <3>1. pendingBatches \in Seq(Batches)
        BY DEF Consistent, QueueOK
      <3>2. Len(pendingBatches) \in Nat /\ Len(longer) = Len(pendingBatches) + 1
        BY <3>1
      <3> QED
        BY <1>3, <3>2
    <2>5. RunningOK(inFlight, started) /\ 1..started = done \cup Contents(inFlight)
      BY DEF Consistent
    <2>6. last + Len(batch) \in Nat /\ started <= last + Len(batch)
      BY <2>2
    <2> HIDE DEF longer
    <2> QED
      BY <1>1, <2>1, <2>2, <2>3, <2>4, <2>5, <2>6, PumpLemma
  <1> QED
    BY <1>2, <1>3

\* The part of the inductive invariant that is not about the queue.
Rest ==
  /\ loop \in {"next", "held", "done"}
  /\ race \subseteq Batches
  /\ accepted \in Nat
  /\ handled \subseteq Nat
  /\ currentBatch \in Batches
  /\ Len(currentBatch) < BatchSize
  /\ \A i \in DOMAIN currentBatch : currentBatch[i] = Flushed + i
  /\ flushTimer \in BOOLEAN
  /\ closing \in {"no", "awaitLoop", "awaitIdle", "closed"}
  /\ idleResolver \in BOOLEAN
  /\ NoStrandedBatch
  /\ CloseHasAWaker
  /\ RoomForCurrent
  /\ ClosePhases

Queue == Consistent(pendingBatches, inFlight, started, Flushed, handled)

LEMMA Split == IInv <=> Queue /\ Rest
  <1>1. IInv => Queue /\ Rest
    <2> SUFFICES ASSUME IInv
                 PROVE  Queue /\ Rest
      OBVIOUS
    <2>1. Rest
      BY DEF IInv, TypeOK, BoundedBuffers, InOrder, Rest
    <2>2. started \in Nat /\ Flushed \in Nat /\ started <= Flushed
      BY DEF IInv, TypeOK, InOrder, Flushed, Batches
    <2>3. QueueOK(pendingBatches, started, Flushed)
      BY DEF IInv, TypeOK, BoundedBuffers, InOrder, QueueOK
    <2>4. RunningOK(inFlight, started)
      <3>1. \A b \in inFlight : \A x \in Elements(b) : x \in 1..started
        BY DEF IInv, StartedIsAccountedFor, Contents
      <3> QED
        BY <2>2, <3>1 DEF IInv, TypeOK, BoundedBuffers, NoEmptyTask, RunningOK
    <2> QED
      BY <2>1, <2>2, <2>3, <2>4
      DEF IInv, BoundedBuffers, NoIdleSlot, StartedIsAccountedFor, Queue, Consistent
  <1>2. Queue /\ Rest => IInv
    BY DEF IInv, TypeOK, BoundedBuffers, NoIdleSlot, InOrder, StartedIsAccountedFor,
           NoEmptyTask, Queue, Rest, Consistent, QueueOK, RunningOK
  <1> QED
    BY <1>1, <1>2

LEMMA InitIInv == Init => IInv
  <1> SUFFICES ASSUME Init
               PROVE  IInv
    OBVIOUS
  <1> USE PipelineAssumption
  <1>1. accepted = 0 /\ currentBatch = <<>>
    BY DEF Init
  <1>2. Len(currentBatch) = 0 /\ DOMAIN currentBatch = {} /\ currentBatch \in Batches
    BY <1>1, EmptyBatch
  <1>3. Flushed = 0
    <2>1. accepted = 0
      BY <1>1
    <2>2. Len(currentBatch) = 0
      BY <1>2
    <2> QED
      BY <2>1, <2>2 DEF Flushed
  <1>4. QueueOK(<<>>, 0, 0)
    BY DEF QueueOK, QueueHolds, Contents, Elements
  <1>5. RunningOK({}, 0)
    BY FS_EmptySet DEF RunningOK
  <1>6. Queue
    BY <1>3, <1>4, <1>5 DEF Init, Queue, Consistent, Contents
  <1>7. \A i \in DOMAIN currentBatch : currentBatch[i] = Flushed + i
    BY <1>2
  <1>8. Rest
    <2>1. Len(currentBatch) < BatchSize
      BY <1>2
    <2>2. NoStrandedBatch /\ CloseHasAWaker /\ RoomForCurrent /\ ClosePhases
      BY DEF Init, NoStrandedBatch, CloseHasAWaker, RoomForCurrent, ClosePhases
    <2>3. /\ loop = "next" /\ race = {} /\ handled = {} /\ flushTimer = FALSE
          /\ closing = "no" /\ idleResolver = FALSE
      BY DEF Init
    <2> QED
      BY <1>1, <1>2, <1>7, <2>1, <2>2, <2>3 DEF Rest
  <1> QED
    BY <1>6, <1>8, Split

\* An iteration that may go on finds room for one more batch.
LEMMA ProceedLemma ==
  ASSUME IInv, Proceed, loop \in {"next", "held"}, closing \in {"no", "awaitLoop"}
  PROVE  IInv'
  <1> USE PipelineAssumption
  <1>1. Queue /\ Rest
    BY Split
  <1>2. closing' = closing /\ idleResolver' = idleResolver /\ handled' = handled /\ ~idleResolver
    BY <1>1 DEF Proceed, Rest, ClosePhases
  <1>3. Len(pendingBatches) < 2 * Concurrency
    <2>1. Len(pendingBatches) \in Nat /\ pendingBatches \in Seq(Batches)
      BY <1>1 DEF Queue, Consistent, QueueOK
    <2>2. CASE pendingBatches = <<>>
      BY <2>2
    <2>3. CASE pendingBatches # <<>>
      <3>1. Cardinality(inFlight) = Concurrency /\ Concurrency # 0
        BY <1>1, <2>3 DEF Queue, Consistent
      <3>2. inFlight # {}
        BY <3>1, FS_EmptySet
      <3> QED
        BY <2>1, <3>2 DEF Proceed, Congested
    <2> QED
      BY <2>2, <2>3
  <1>4. race' \subseteq Batches /\ loop' = "next"
    BY DEF Proceed
  <1>5. CASE Accept
    <2> DEFINE batch == Append(currentBatch, accepted + 1)
    <2>1. /\ accepted \in Nat /\ accepted' = accepted + 1
          /\ currentBatch \in Seq(Nat) /\ Len(currentBatch) \in Nat
          /\ Len(currentBatch) < BatchSize
      BY <1>1, <1>5 DEF Accept, Rest, Batches
    <2>2. /\ batch \in Batches /\ batch # <<>> /\ Len(batch) = Len(currentBatch) + 1
          /\ Len(batch) <= BatchSize
      BY <2>1 DEF Batches
    <2>3. Flushed \in Nat /\ Flushed + Len(batch) = accepted'
      BY <1>1, <2>1, <2>2 DEF Queue, Consistent, Flushed
    <2>4. \A i \in DOMAIN batch : batch[i] = Flushed + i
      BY <1>1, <2>1 DEF Rest, Flushed
    <2>5. \/ Flush(batch)
          \/ /\ ~(Len(batch) >= BatchSize)
             /\ currentBatch' = batch /\ flushTimer' = TRUE
             /\ UNCHANGED <<pendingBatches, inFlight, started>>
      BY <1>5 DEF Accept, Push
    <2>6. CASE Flush(batch)
      <3>1. /\ flushTimer' = FALSE /\ currentBatch' = <<>>
            /\ Consistent(pendingBatches', inFlight', started', Flushed + Len(batch), handled)
        <4> HIDE DEF batch
        <4> QED
          BY <1>1, <1>3, <2>2, <2>3, <2>4, <2>6, FlushLemma DEF Queue
      <3>2. Flushed' = Flushed + Len(batch)
        BY <2>1, <2>3, <3>1 DEF Flushed
      <3>3. Queue'
        BY <1>2, <3>1, <3>2 DEF Queue
      <3>4. /\ \A i \in DOMAIN currentBatch' : currentBatch'[i] = Flushed' + i
            /\ Len(currentBatch') < BatchSize /\ currentBatch' \in Batches
        <4>1. Len(currentBatch') = 0 /\ DOMAIN currentBatch' = {} /\ currentBatch' \in Batches
          BY <3>1, EmptyBatch
        <4> QED
          BY <4>1
      <3>5. (NoStrandedBatch /\ CloseHasAWaker /\ RoomForCurrent /\ ClosePhases)'
        BY <1>1, <1>2, <3>1
        DEF Rest, NoStrandedBatch, CloseHasAWaker, RoomForCurrent, ClosePhases
      <3>6. accepted' \in Nat /\ handled' \subseteq Nat /\ flushTimer' \in BOOLEAN
        <4>1. accepted' \in Nat
          BY <2>1
        <4>2. handled' \subseteq Nat
          BY <1>1, <1>2 DEF Rest
        <4> QED
          BY <3>1, <4>1, <4>2
      <3>7. Rest'
        BY <1>1, <1>2, <1>4, <3>4, <3>5, <3>6 DEF Rest
      <3> QED
        BY <3>3, <3>7, Split, PTL
    <2>7. CASE /\ currentBatch' = batch /\ flushTimer' = TRUE
               /\ Len(batch) < BatchSize
               /\ UNCHANGED <<pendingBatches, inFlight, started>>
      <3>1. Flushed' = Flushed
        BY <2>1, <2>2, <2>3, <2>7 DEF Flushed
      <3>2. Queue'
        BY <1>1, <1>2, <2>7, <3>1 DEF Queue
      <3>3. Rest'
        BY <1>1, <1>2, <1>3, <1>4, <2>1, <2>2, <2>4, <2>7, <3>1
        DEF Rest, NoStrandedBatch, CloseHasAWaker, RoomForCurrent, ClosePhases
      <3> QED
        BY <3>2, <3>3, Split, PTL
    <2>8. ~(Len(batch) >= BatchSize) => Len(batch) < BatchSize
      BY <2>1, <2>2
    <2> HIDE DEF batch
    <2> QED
      BY <2>5, <2>6, <2>7, <2>8
  <1>6. CASE Undecodable
    <2>1. UNCHANGED <<accepted, started, currentBatch, pendingBatches, inFlight, flushTimer>>
      BY <1>6 DEF Undecodable
    <2>2. Flushed' = Flushed
      BY <2>1 DEF Flushed
    <2>3. Queue'
      BY <1>1, <1>2, <2>1, <2>2 DEF Queue
    <2>4. Rest'
      BY <1>1, <1>2, <1>4, <2>1, <2>2
      DEF Rest, NoStrandedBatch, CloseHasAWaker, RoomForCurrent, ClosePhases
    <2> QED
      BY <2>3, <2>4, Split, PTL
  <1> QED
    BY <1>5, <1>6 DEF Proceed

LEMMA HoldLemma ==
  ASSUME IInv, Hold, loop \in {"next", "held"}, closing \in {"no", "awaitLoop"}
  PROVE  IInv'
  <1>1. Queue /\ Rest
    BY Split
  <1>2. /\ loop' = "held" /\ race' = inFlight
        /\ UNCHANGED <<accepted, started, handled, currentBatch, pendingBatches, inFlight,
                       flushTimer, closing, idleResolver>>
    BY DEF Hold
  <1>3. Flushed' = Flushed
    BY <1>2 DEF Flushed
  <1>4. Queue'
    BY <1>1, <1>2, <1>3 DEF Queue
  <1>5. race' \subseteq Batches
    BY <1>1, <1>2 DEF Queue, Consistent, RunningOK
  <1>6. Rest'
    BY <1>1, <1>2, <1>3, <1>5
    DEF Rest, NoStrandedBatch, CloseHasAWaker, RoomForCurrent, ClosePhases
  <1> QED
    BY <1>4, <1>6, Split, PTL

\* The timer and close() flush the batch being built.
LEMMA FlushCurrent ==
  ASSUME IInv, Flush(currentBatch), UNCHANGED <<accepted, handled>>
  PROVE  /\ Queue'
         /\ flushTimer' = FALSE /\ currentBatch' = <<>> /\ Flushed' = accepted
         /\ accepted \in Nat
  <1>1. Queue /\ Rest
    BY Split
  <1>2. /\ currentBatch \in Batches /\ Len(currentBatch) \in Nat
        /\ Len(currentBatch) <= BatchSize /\ accepted \in Nat
    BY <1>1, PipelineAssumption DEF Rest, Batches
  <1>3. Flushed \in Nat /\ Flushed + Len(currentBatch) = accepted
    BY <1>1, <1>2 DEF Queue, Consistent, Flushed
  <1>4. /\ flushTimer' = FALSE /\ currentBatch' = <<>>
        /\ Consistent(pendingBatches', inFlight', started', Flushed + Len(currentBatch), handled)
    BY <1>1, <1>2, <1>3, FlushLemma DEF Queue, Rest, RoomForCurrent
  <1>5. Flushed' = accepted
    BY <1>2, <1>4 DEF Flushed
  <1> QED
    BY <1>2, <1>3, <1>4, <1>5 DEF Queue

\* What the flush of currentBatch by the timer or by close() leaves of Rest,
\* whatever happens to the other variables.
LEMMA FlushedCurrent ==
  ASSUME IInv, Flush(currentBatch), UNCHANGED <<race, accepted, handled, loop>>
  PROVE  /\ Queue'
         /\ loop' \in {"next", "held", "done"} /\ race' \subseteq Batches
         /\ accepted' \in Nat /\ handled' \subseteq Nat
         /\ currentBatch' = <<>> /\ currentBatch' \in Batches
         /\ Len(currentBatch') < BatchSize
         /\ \A i \in DOMAIN currentBatch' : currentBatch'[i] = Flushed' + i
         /\ flushTimer' = FALSE
  <1>1. Queue /\ Rest
    BY Split
  <1>2. Queue' /\ flushTimer' = FALSE /\ currentBatch' = <<>>
    BY FlushCurrent
  <1>3. Len(currentBatch') = 0 /\ DOMAIN currentBatch' = {} /\ currentBatch' \in Batches
    BY <1>2, EmptyBatch
  <1>4. Len(currentBatch') < BatchSize
    BY <1>3, PipelineAssumption
  <1>5. loop' \in {"next", "held", "done"} /\ race' \subseteq Batches /\ accepted' \in Nat
    BY <1>1 DEF Rest
  <1>6. handled' \subseteq Nat
    BY <1>1 DEF Rest
  <1> QED
    BY <1>2, <1>3, <1>4, <1>5, <1>6

LEMMA TimerLemma == IInv /\ TimerFires => IInv'
  <1> SUFFICES ASSUME IInv, TimerFires
               PROVE  IInv'
    OBVIOUS
  <1>1. Rest
    BY Split
  <1>2. Flush(currentBatch) /\ UNCHANGED <<loop, race, accepted, handled, closing, idleResolver>>
    BY DEF TimerFires
  <1>3. closing = "awaitIdle" => inFlight' # {}
    \* In these phases currentBatch is empty and the flush changes nothing.
    <2> SUFFICES ASSUME closing = "awaitIdle"
                 PROVE  inFlight' # {}
      OBVIOUS
    <2>1. currentBatch = <<>> /\ inFlight # {}
      BY <1>1 DEF Rest, ClosePhases, CloseHasAWaker
    <2> QED
      BY <1>2, <2>1 DEF Flush
  <1>4. closing = "closed" => pendingBatches' = <<>> /\ inFlight' = {}
    <2> SUFFICES ASSUME closing = "closed"
                 PROVE  pendingBatches' = <<>> /\ inFlight' = {}
      OBVIOUS
    <2>1. currentBatch = <<>> /\ pendingBatches = <<>> /\ inFlight = {}
      BY <1>1 DEF Rest, ClosePhases
    <2> QED
      BY <1>2, <2>1 DEF Flush
  <1>5. (NoStrandedBatch /\ CloseHasAWaker /\ RoomForCurrent /\ ClosePhases)'
    BY <1>1, <1>2, <1>3, <1>4, FlushedCurrent
    DEF Rest, NoStrandedBatch, CloseHasAWaker, RoomForCurrent, ClosePhases
  <1>6. /\ closing' \in {"no", "awaitLoop", "awaitIdle", "closed"}
        /\ idleResolver' \in BOOLEAN
    BY <1>1, <1>2 DEF Rest
  <1>7. Queue' /\ Rest'
    BY <1>2, <1>5, <1>6, FlushedCurrent DEF Rest
  <1> QED
    BY <1>7, Split, PTL

LEMMA CloseFlushesLemma == IInv /\ CloseFlushes => IInv'
  <1> SUFFICES ASSUME IInv, CloseFlushes
               PROVE  IInv'
    OBVIOUS
  <1>1. Rest
    BY Split
  <1>2. Flush(currentBatch) /\ UNCHANGED <<loop, race, accepted, handled>> /\ loop = "done"
    BY DEF CloseFlushes
  <1>3. Queue' /\ currentBatch' = <<>> /\ flushTimer' = FALSE
    BY <1>2, FlushedCurrent
  <1>4. ~Idle => inFlight' # {}
    \* Batches wait only behind a full house, which is not empty.
    <2> SUFFICES ASSUME pendingBatches' # <<>>, inFlight' = {}
                 PROVE  FALSE
      BY <1>3 DEF Idle
    <2>1. Cardinality(inFlight') = Concurrency
      BY <1>3 DEF Queue, Consistent
    <2>2. Cardinality(inFlight') = 0
      BY FS_EmptySet
    <2> QED
      BY <2>1, <2>2, PipelineAssumption
  <1>5. ~idleResolver
    BY <1>1 DEF CloseFlushes, Rest, ClosePhases
  <1>6. \/ closing' = "closed" /\ ~idleResolver' /\ pendingBatches' = <<>> /\ inFlight' = {}
        \/ closing' = "awaitIdle" /\ idleResolver' = TRUE /\ inFlight' # {}
    BY <1>4, <1>5 DEF CloseFlushes, Idle
  <1>7. (NoStrandedBatch /\ CloseHasAWaker /\ RoomForCurrent /\ ClosePhases)'
    BY <1>2, <1>3, <1>6 DEF NoStrandedBatch, CloseHasAWaker, RoomForCurrent, ClosePhases
  <1>8. /\ closing' \in {"no", "awaitLoop", "awaitIdle", "closed"}
        /\ idleResolver' \in BOOLEAN
    BY <1>5, <1>6, <1>1 DEF CloseFlushes, Rest
  <1>9. Queue' /\ Rest'
    BY <1>2, <1>7, <1>8, FlushedCurrent DEF Rest
  <1> QED
    BY <1>9, Split, PTL

LEMMA BatchFinishesLemma ==
  ASSUME IInv, NEW b \in inFlight, BatchFinishes(b)
  PROVE  IInv'
  <1> DEFINE running == inFlight \ {b}
             done == handled \cup Elements(b)
  <1>1. Queue /\ Rest
    BY Split
  <1>2. /\ Pump(pendingBatches, running)
        /\ handled' = done
        /\ UNCHANGED <<loop, race, accepted, currentBatch, flushTimer>>
    BY DEF BatchFinishes
  <1>3. Flushed' = Flushed
    BY <1>2 DEF Flushed
  <1>4. RunningOK(running, started)
    <2>1. IsFiniteSet(running) /\ Cardinality(running) <= Cardinality(inFlight)
      BY <1>1, FS_Subset DEF Queue, Consistent, RunningOK
    <2>2. /\ Cardinality(running) \in Nat /\ Cardinality(inFlight) \in Nat
          /\ Cardinality(inFlight) <= Concurrency
      BY <1>1, <2>1, FS_CardinalityType DEF Queue, Consistent, RunningOK
    <2>3. Cardinality(running) <= Concurrency
      BY <2>1, <2>2, PipelineAssumption
    <2> QED
      BY <1>1, <2>1, <2>3 DEF Queue, Consistent, RunningOK
  <1>5. 1..started = done \cup Contents(running)
    <2>1. Contents(inFlight) = Elements(b) \cup Contents(running)
      BY DEF Contents
    <2> QED
      BY <1>1, <2>1 DEF Queue, Consistent
  <1>6. /\ started \in Nat /\ Flushed \in Nat /\ started <= Flushed
        /\ QueueOK(pendingBatches, started, Flushed)
        /\ Len(pendingBatches) <= 2 * Concurrency /\ Len(pendingBatches) \in Nat
    BY <1>1 DEF Queue, Consistent, QueueOK
  <1>7. /\ Consistent(pendingBatches', inFlight', started', Flushed, done)
        /\ Len(pendingBatches') <= Len(pendingBatches)
    <2> HIDE DEF running, done
    <2> QED
      BY <1>2, <1>4, <1>5, <1>6, PumpLemma
  <1>8. Queue'
    BY <1>2, <1>3, <1>7 DEF Queue
  <1>9. handled' \subseteq Nat
    <2>1. Elements(b) \subseteq 1..started
      BY <1>1 DEF Queue, Consistent, Contents
    <2>2. Elements(b) \subseteq Nat
      BY <1>6, <2>1
    <2>3. handled \subseteq Nat
      BY <1>1 DEF Rest
    <2> HIDE DEF running
    <2> QED
      BY <1>2, <2>2, <2>3
  <1>10. RoomForCurrent' /\ NoStrandedBatch'
    <2>1. Len(pendingBatches') \in Nat
      BY <1>7 DEF Consistent, QueueOK
    <2>2. Len(pendingBatches) < 2 * Concurrency => Len(pendingBatches') < 2 * Concurrency
      BY <1>6, <1>7, <2>1, PipelineAssumption
    <2> QED
      BY <1>1, <1>2, <2>2 DEF Rest, RoomForCurrent, NoStrandedBatch
  <1>11. closing # "closed" /\ (idleResolver <=> closing = "awaitIdle")
    BY <1>1 DEF Rest, ClosePhases, CloseHasAWaker
  <1>12. \/ /\ idleResolver /\ closing' = "closed" /\ ~idleResolver'
            /\ pendingBatches' = <<>> /\ inFlight' = {}
         \/ /\ UNCHANGED <<closing, idleResolver>>
            /\ ~(Idle /\ idleResolver)
    BY DEF BatchFinishes, Idle
  <1>13. pendingBatches' # <<>> => inFlight' # {}
    <2> SUFFICES ASSUME pendingBatches' # <<>>, inFlight' = {}
                 PROVE  FALSE
      OBVIOUS
    <2>1. Cardinality(inFlight') = Concurrency
      BY <1>7 DEF Consistent
    <2>2. Cardinality(inFlight') = 0
      BY FS_EmptySet
    <2> QED
      BY <2>1, <2>2, PipelineAssumption
  <1>14. CloseHasAWaker' /\ ClosePhases'
    <2>1. CASE /\ idleResolver /\ closing' = "closed" /\ ~idleResolver'
               /\ pendingBatches' = <<>> /\ inFlight' = {}
      BY <1>1, <1>2, <1>11, <2>1 DEF Rest, CloseHasAWaker, ClosePhases
    <2>2. CASE UNCHANGED <<closing, idleResolver>> /\ ~(Idle /\ idleResolver)
      <3>1. closing = "awaitIdle" => idleResolver' /\ inFlight' # {}
        BY <1>1, <1>2, <1>11, <1>13, <2>2 DEF Idle, Rest, ClosePhases
      <3> QED
        BY <1>1, <1>2, <1>11, <2>2, <3>1 DEF Rest, CloseHasAWaker, ClosePhases
    <2> QED
      BY <1>12, <2>1, <2>2
  <1>15. /\ closing' \in {"no", "awaitLoop", "awaitIdle", "closed"}
         /\ idleResolver' \in BOOLEAN
    <2>1. idleResolver' \in BOOLEAN
      BY <1>1 DEF BatchFinishes, Rest
    <2> QED
      BY <1>1, <1>12, <2>1 DEF Rest
  <1>16. Rest'
    BY <1>1, <1>2, <1>3, <1>9, <1>10, <1>14, <1>15 DEF Rest
  <1> QED
    BY <1>8, <1>16, Split, PTL

LEMMA LoopLemma == IInv /\ (LoopEnds \/ CloseRequested \/ UNCHANGED vars) => IInv'
  <1> SUFFICES ASSUME IInv, LoopEnds \/ CloseRequested \/ UNCHANGED vars
               PROVE  IInv'
    OBVIOUS
  <1>1. Queue /\ Rest
    BY Split
  <1>2. UNCHANGED <<race, accepted, started, handled, currentBatch, pendingBatches,
                    inFlight, flushTimer, idleResolver>>
    BY DEF LoopEnds, CloseRequested, vars
  <1>3. \/ loop' = "done" /\ loop = "next" /\ closing' = closing
        \/ loop' = loop /\ closing = "no" /\ closing' = "awaitLoop"
        \/ loop' = loop /\ closing' = closing
    BY DEF LoopEnds, CloseRequested, vars
  <1>4. Flushed' = Flushed
    BY <1>2 DEF Flushed
  <1>5. Queue'
    BY <1>1, <1>2, <1>4 DEF Queue
  <1>6. (NoStrandedBatch /\ CloseHasAWaker /\ RoomForCurrent /\ ClosePhases)'
    BY <1>1, <1>2, <1>3
    DEF Rest, NoStrandedBatch, CloseHasAWaker, RoomForCurrent, ClosePhases
  <1>7. Rest'
    BY <1>1, <1>2, <1>3, <1>4, <1>6 DEF Rest
  <1> QED
    BY <1>5, <1>7, Split, PTL

LEMMA StepIInv == IInv /\ [Next]_vars => IInv'
  <1> SUFFICES ASSUME IInv, [Next]_vars
               PROVE  IInv'
    OBVIOUS
  <1>1. CASE Receive
    BY <1>1, ProceedLemma, HoldLemma DEF Receive
  <1>2. CASE Wake
    <2>1. closing \in {"no", "awaitLoop"}
      \* close() is past the loop only when the loop is done.
      BY <1>2, Split DEF Wake, Rest, ClosePhases
    <2> QED
      BY <1>2, <2>1, ProceedLemma, HoldLemma DEF Wake
  <1>3. CASE TimerFires
    BY <1>3, TimerLemma
  <1>4. CASE \E b \in inFlight : BatchFinishes(b)
    BY <1>4, BatchFinishesLemma
  <1>5. CASE CloseFlushes
    BY <1>5, CloseFlushesLemma
  <1>6. CASE LoopEnds \/ CloseRequested \/ UNCHANGED vars
    BY <1>6, LoopLemma
  <1> QED
    BY <1>1, <1>2, <1>3, <1>4, <1>5, <1>6 DEF Next

\* A closed pipeline has nothing queued, running or unflushed, so what was
\* started, all of it handled, is what was accepted.
LEMMA ClosedIsDrained == IInv => CloseDrains
  <1> SUFFICES ASSUME IInv, closing = "closed"
               PROVE  handled = 1..accepted /\ loop = "done"
    BY DEF CloseDrains
  <1>1. Queue /\ Rest
    BY Split
  <1>2. /\ loop = "done" /\ currentBatch = <<>> /\ pendingBatches = <<>> /\ inFlight = {}
    BY <1>1 DEF Rest, ClosePhases
  <1>3. Flushed = accepted /\ accepted \in Nat
    <2>1. Len(currentBatch) = 0
      BY <1>2
    <2>2. accepted \in Nat
      BY <1>1 DEF Rest
    <2> QED
      BY <2>1, <2>2 DEF Flushed
  <1>4. started \in Nat /\ started <= accepted
    BY <1>1, <1>3 DEF Queue, Consistent
  <1>5. (started + 1)..accepted = {}
    <2>1. Contents(Elements(pendingBatches)) = (started + 1)..accepted
      BY <1>1, <1>3 DEF Queue, Consistent, QueueOK, QueueHolds
    <2>2. Contents(Elements(<<>>)) = {}
      BY DEF Contents, Elements
    <2> QED
      BY <1>2, <2>1, <2>2
  <1>6. started = accepted
    BY <1>3, <1>4, <1>5
  <1>7. 1..started = handled
    BY <1>1, <1>2 DEF Queue, Consistent, Contents
  <1> QED
    BY <1>2, <1>6, <1>7

\* The inductive invariant holds in every reachable state.
THEOREM Invariance == Spec => []IInv
  <1> QED
    BY InitIInv, StepIInv, PTL DEF Spec

\* The variables of the consume loop keep their types.
THEOREM TypeCorrect == Spec => []TypeOK
  <1>1. IInv => TypeOK
    BY DEF IInv
  <1> QED
    BY <1>1, Invariance, PTL

\* No more than Concurrency batches are ever handled at once and no more than
\* 2 * Concurrency wait, whoever pushes them: the loop, the timer or close().
THEOREM BuffersAreBounded == Spec => []BoundedBuffers
  <1>1. IInv => BoundedBuffers
    BY DEF IInv
  <1> QED
    BY <1>1, Invariance, PTL

\* Whatever waits has something that will wake it: a queued batch a running one,
\* a batch being built its timer, close() the last running batch.
THEOREM NothingIsForgotten == Spec => []NoLostWakeups
  <1>1. IInv => NoLostWakeups
    BY DEF IInv, NoLostWakeups
  <1> QED
    BY <1>1, Invariance, PTL

\* Messages are handed to the handlers in order, each exactly once.
THEOREM Ordered == Spec => []HandledInOrder
  <1>1. IInv => HandledInOrder
    BY DEF IInv, HandledInOrder
  <1> QED
    BY <1>1, Invariance, PTL

\* close() resolves only over a drained pipeline.
THEOREM CloseIsSafe == Spec => []CloseDrains
  <1> QED
    BY ClosedIsDrained, Invariance, PTL

=============================================================================
