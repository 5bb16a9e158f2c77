------------------------ MODULE MessageWriterProofs ------------------------
(***************************************************************************)
(* What MessageWriter keeps, for any commands, workers and bounds.         *)
(*                                                                         *)
(* Three facts about a state carry the proofs.  Control: a worker's steps  *)
(* fit the batch it has in hand.  Tables: no write is pending between two  *)
(* transactions, and the tables agree, so the candidates of a batch have   *)
(* no row at all (CommitRows).  DrainsArePersisted: a drain only touches   *)
(* rows of messages.  With them every step comes down to one of the eight  *)
(* things that can happen to the tables (TableStep), and each property is  *)
(* a matter of those.                                                      *)
(***************************************************************************)
EXTENDS MessageWriter, FiniteSetTheorems, SequenceTheorems, WellFoundedInduction, TLAPS

(* A set of natural numbers that is not empty has a least element.           *)
LEMMA Least ==
  ASSUME NEW S, S \subseteq Nat, S # {}
  PROVE  \E n \in S : \A m \in S : n <= m
<1> DEFINE T == {0..n : n \in S}
<1>1. T \subseteq FiniteSubsetsOf(Nat) /\ T # {}
  <2>1. \A n \in S : 0..n \in SUBSET Nat /\ IsFiniteSet(0..n)
    BY FS_Interval
  <2>2. QED
    BY <2>1 DEF FiniteSubsetsOf
<1>2. PICK x \in T : \A y \in T : ~ (<<y, x>> \in StrictSubsetOrdering(Nat))
  BY <1>1, FS_StrictSubsetOrderingWellFounded, WFMin
<1>3. PICK n \in S : x = 0..n
  BY <1>2
<1>4. ASSUME NEW m \in S, m < n PROVE FALSE
  <2>1. 0..m \subseteq 0..n /\ n \in 0..n /\ n \notin 0..m
    BY <1>4
  <2>2. 0..m \in T /\ 0..n \in SUBSET Nat /\ 0..m \in SUBSET Nat
    BY <1>4
  <2>3. <<0..m, 0..n>> \in StrictSubsetOrdering(Nat)
    BY <2>1, <2>2 DEF StrictSubsetOrdering
  <2>4. QED
    BY <1>2, <1>3, <2>2, <2>3
<1>5. QED
  BY <1>4

(* A finite set of natural numbers that is not empty has a greatest element. *)
LEMMA Greatest ==
  ASSUME NEW S, S \subseteq Nat, S # {}, IsFiniteSet(S)
  PROVE  \E n \in S : \A m \in S : m <= n
<1> DEFINE Above(n) == {m \in S : m > n}
<1> DEFINE T == {Above(n) : n \in S}
<1>1. T \subseteq FiniteSubsetsOf(S) /\ T # {}
  <2>1. \A n \in S : Above(n) \in SUBSET S /\ IsFiniteSet(Above(n))
    BY FS_Subset
  <2>2. QED
    BY <2>1 DEF FiniteSubsetsOf
<1>2. PICK x \in T : \A y \in T : ~ (<<y, x>> \in StrictSubsetOrdering(S))
  BY <1>1, FS_StrictSubsetOrderingWellFounded, WFMin
<1>3. PICK n \in S : x = Above(n)
  BY <1>2
<1>4. ASSUME NEW m \in S, m > n PROVE FALSE
  <2>1. Above(m) \subseteq Above(n) /\ m \in Above(n) /\ m \notin Above(m)
    <3>1. m \in Nat /\ n \in Nat /\ \A k \in S : k \in Nat
      BY <1>4
    <3>2. \A k \in S : k > m => k > n
      BY <1>4, <3>1
    <3>3. ~ (m > m)
      BY <3>1
    <3>4. QED
      BY <1>4, <3>2, <3>3
  <2>2. Above(m) \in T /\ Above(n) \in SUBSET S /\ Above(m) \in SUBSET S
    BY <1>4
  <2>3. <<Above(m), Above(n)>> \in StrictSubsetOrdering(S)
    BY <2>1, <2>2 DEF StrictSubsetOrdering
  <2>4. QED
    BY <1>2, <1>3, <2>2, <2>3
<1>5. QED
  BY <1>4

-----------------------------------------------------------------------------
(* The batches of a worker are never empty, and a delivery is one of those   *)
(* JetStream has counted.                                                    *)
GoodBatches(t) ==
  /\ t \in Seq(Seq(Delivery))
  /\ \A i \in 1..Len(t) :
       /\ t[i] # << >>
       /\ \A j \in 1..Len(t[i]) : t[i][j].attempt <= attempts[t[i][j].msg]

DeadSteps == {"findDead", "markDead", "createDead"}

(* A worker has a batch until it is idle; only the one message of a batch is *)
(* handled singly, and dead-lettered on its last delivery.                   *)
WorkersAreInStep ==
  \A w \in Workers :
    /\ GoodBatches(todo[w])
    /\ pc[w] = "idle" <=> todo[w] = << >>
    /\ mode[w] = "single" => pc[w] # "idle" /\ Len(Batch(w)) = 1
    /\ pc[w] \in DeadSteps => mode[w] = "single" /\ Batch(w)[1].attempt >= MaxDeliver

(* Without its first batch, a worker's list is still one.                    *)
LEMMA RestIsGood ==
  ASSUME NEW t, GoodBatches(t), t # << >>
  PROVE  /\ GoodBatches(Tail(t)) /\ Head(t) \in Seq(Delivery) /\ Head(t) # << >>
         /\ Tail(t) = << >> <=> Len(t) = 1
         /\ Len(Head(t)) \in Nat \ {0}
         /\ \A j \in 1..Len(Head(t)) : Head(t)[j].attempt <= attempts[Head(t)[j].msg]
<1>1. t \in Seq(Seq(Delivery)) /\ Len(t) \in Nat \ {0} /\ Head(t) = t[1]
  BY EmptySeq DEF GoodBatches
<1>2. /\ Head(t) \in Seq(Delivery) /\ Tail(t) \in Seq(Seq(Delivery))
      /\ Len(Tail(t)) = Len(t) - 1 /\ \A i \in 1..Len(Tail(t)) : Tail(t)[i] = t[i+1]
  BY <1>1, HeadTailProperties
<1>3. 1 \in 1..Len(t) /\ \A i \in 1..Len(Tail(t)) : i + 1 \in 1..Len(t)
  BY <1>1, <1>2
<1>4. Tail(t) = << >> <=> Len(t) = 1
  <2>1. Len(<< >>) = 0 /\ (Tail(t) # << >> => Len(Tail(t)) \in Nat \ {0})
    BY <1>2, EmptySeq
  <2>2. Tail(t) = << >> => Len(Tail(t)) = 0
    BY <2>1, Zenon
  <2>3. Len(t) \in Nat /\ Len(Tail(t)) = Len(t) - 1
    BY <1>1, <1>2
  <2>4. Len(Tail(t)) = 0 <=> Len(t) = 1
    BY <2>3
  <2>5. QED
    BY <2>1, <2>2, <2>4, Zenon
<1>5. GoodBatches(Tail(t))
  BY <1>2, <1>3 DEF GoodBatches
<1>6. Len(Head(t)) \in Nat \ {0}
  BY <1>1, <1>2, <1>3, EmptySeq DEF GoodBatches
<1>7. QED
  BY <1>1, <1>2, <1>3, <1>4, <1>5, <1>6 DEF GoodBatches

(* Both halves of a batch have messages, and none that it did not have.      *)
LEMMA HalvesAreGood ==
  ASSUME NEW b \in Seq(Delivery), Len(b) > 1
  PROVE  /\ Halves(b) \in Seq(Seq(Delivery)) /\ Len(Halves(b)) = 2
         /\ \A i \in 1..2 :
              /\ Halves(b)[i] # << >>
              /\ \A j \in 1..Len(Halves(b)[i]) : \E l \in 1..Len(b) : Halves(b)[i][j] = b[l]
<1> DEFINE mid == (Len(b) + 1) \div 2
<1> DEFINE front == SubSeq(b, 1, mid)
<1> DEFINE back == SubSeq(b, mid + 1, Len(b))
<1>1. Len(b) \in Nat /\ mid \in Nat /\ 1 <= mid /\ mid < Len(b)
  BY Z3, LenProperties
<1> HIDE DEF mid
<1>2. \A i \in 1..Len(b) : b[i] \in Delivery
  BY ElementOfSeq
<1>3. /\ front \in Seq(Delivery) /\ Len(front) = mid
      /\ \A i \in 1..mid : front[i] = b[i]
  <2>1. \A i \in 1..mid : b[i] \in Delivery
    BY <1>1, <1>2
  <2>2. /\ front \in Seq(Delivery) /\ Len(front) = IF 1 <= mid THEN mid - 1 + 1 ELSE 0
        /\ \A i \in 1..(mid - 1 + 1) : front[i] = b[1 + i - 1]
    BY <1>1, <2>1, SubSeqProperties
  <2>3. QED
    BY <1>1, <2>2
<1>4. /\ back \in Seq(Delivery) /\ Len(back) = Len(b) - mid
      /\ \A i \in 1..(Len(b) - mid) : back[i] = b[mid + i]
  <2>1. \A i \in (mid + 1)..Len(b) : b[i] \in Delivery
    BY <1>1, <1>2
  <2>2. /\ back \in Seq(Delivery)
        /\ Len(back) = IF mid + 1 <= Len(b) THEN Len(b) - (mid + 1) + 1 ELSE 0
        /\ \A i \in 1..(Len(b) - (mid + 1) + 1) : back[i] = b[(mid + 1) + i - 1]
    BY <1>1, <2>1, SubSeqProperties
  <2>3. QED
    BY <1>1, <2>2
<1>5. Halves(b) = <<front, back>>
  BY DEF Halves, mid
<1> HIDE DEF front, back
<1>6. front # << >> /\ back # << >>
  BY <1>1, <1>3, <1>4, EmptySeq
<1>7. \A j \in 1..Len(front) : j \in 1..Len(b) /\ front[j] = b[j]
  BY <1>1, <1>3
<1>8. \A j \in 1..Len(back) : mid + j \in 1..Len(b) /\ back[j] = b[mid + j]
  BY <1>1, <1>4
<1>9. <<front, back>> \in Seq(Seq(Delivery)) /\ Len(<<front, back>>) = 2
  BY <1>3, <1>4
<1>10. QED
  BY <1>5, <1>6, <1>7, <1>8, <1>9

(* Splitting the first batch of a worker's list gives a list again.          *)
LEMMA SplitIsGood ==
  ASSUME NEW t, GoodBatches(t), t # << >>, Len(Head(t)) > 1
  PROVE  GoodBatches(Halves(Head(t)) \o Tail(t)) /\ Halves(Head(t)) \o Tail(t) # << >>
<1> DEFINE h == Halves(Head(t))
<1>1. GoodBatches(Tail(t)) /\ Head(t) \in Seq(Delivery)
  BY RestIsGood
<1>2. /\ h \in Seq(Seq(Delivery)) /\ Len(h) = 2
      /\ \A i \in 1..2 :
           /\ h[i] # << >>
           /\ \A j \in 1..Len(h[i]) : \E l \in 1..Len(Head(t)) : h[i][j] = Head(t)[l]
  BY <1>1, HalvesAreGood
<1> HIDE DEF h
<1>3. Tail(t) \in Seq(Seq(Delivery)) /\ Len(Tail(t)) \in Nat
  BY <1>1, LenProperties DEF GoodBatches
<1>4. /\ h \o Tail(t) \in Seq(Seq(Delivery)) /\ Len(h \o Tail(t)) = 2 + Len(Tail(t))
      /\ \A i \in 1..(2 + Len(Tail(t))) :
           (h \o Tail(t))[i] = IF i <= 2 THEN h[i] ELSE Tail(t)[i - 2]
  <2>1. /\ h \o Tail(t) \in Seq(Seq(Delivery))
        /\ Len(h \o Tail(t)) = Len(h) + Len(Tail(t))
        /\ \A i \in 1..(Len(h) + Len(Tail(t))) :
             (h \o Tail(t))[i] = IF i <= Len(h) THEN h[i] ELSE Tail(t)[i - Len(h)]
    BY <1>2, <1>3, ConcatProperties
  <2>2. QED
    BY <1>2, <2>1
<1>5. \A i \in 1..2 : \A j \in 1..Len(h[i]) : h[i][j].attempt <= attempts[h[i][j].msg]
  <2>1. \A l \in 1..Len(Head(t)) : Head(t)[l].attempt <= attempts[Head(t)[l].msg]
    BY RestIsGood
  <2>2. QED
    BY <1>2, <2>1
<1>6. \A i \in 1..(2 + Len(Tail(t))) : i <= 2 \/ i - 2 \in 1..Len(Tail(t))
  BY <1>3
<1>7. GoodBatches(h \o Tail(t))
  <2>1. SUFFICES ASSUME NEW i \in 1..(2 + Len(Tail(t)))
                 PROVE  /\ (h \o Tail(t))[i] # << >>
                        /\ \A j \in 1..Len((h \o Tail(t))[i]) :
                             (h \o Tail(t))[i][j].attempt <= attempts[(h \o Tail(t))[i][j].msg]
    BY <1>4 DEF GoodBatches
  <2>2. CASE i <= 2
    BY <1>2, <1>4, <1>5, <2>2, i \in 1..2
  <2>3. CASE ~ (i <= 2)
    BY <1>1, <1>4, <1>6, <2>3 DEF GoodBatches
  <2>4. QED
    BY <2>2, <2>3
<1>8. h \o Tail(t) # << >>
  BY <1>3, <1>4
<1>9. QED
  BY <1>7, <1>8 DEF h

-----------------------------------------------------------------------------
ControlTyped ==
  /\ pc \in [Workers -> PCs]
  /\ mode \in [Workers -> {"batch", "single"}]
  /\ todo \in [Workers -> Seq(Seq(Delivery))]

Control == ControlTyped /\ WorkersAreInStep

(* What a busy worker has in hand.                                           *)
LEMMA InHand ==
  ASSUME Control, NEW w \in Workers, pc[w] # "idle"
  PROVE  /\ Batch(w) \in Seq(Delivery) /\ Len(Batch(w)) \in Nat \ {0}
         /\ \A j \in 1..Len(Batch(w)) :
              /\ Batch(w)[j] \in Delivery
              /\ Batch(w)[j].attempt <= attempts[Batch(w)[j].msg]
         /\ MsgsOf(Batch(w)) = {Batch(w)[j].msg : j \in 1..Len(Batch(w))}
         /\ MsgsOf(Batch(w)) \subseteq Msgs
<1>1. GoodBatches(todo[w]) /\ todo[w] # << >>
  BY DEF Control, WorkersAreInStep
<1>2. /\ Batch(w) \in Seq(Delivery) /\ Len(Batch(w)) \in Nat \ {0}
      /\ \A j \in 1..Len(Batch(w)) : Batch(w)[j].attempt <= attempts[Batch(w)[j].msg]
  BY <1>1, RestIsGood DEF Batch
<1>3. /\ DOMAIN Batch(w) = 1..Len(Batch(w))
      /\ \A j \in 1..Len(Batch(w)) : Batch(w)[j] \in Delivery
  BY <1>2, LenProperties, ElementOfSeq
<1>4. MsgsOf(Batch(w)) = {Batch(w)[j].msg : j \in 1..Len(Batch(w))}
  BY <1>3 DEF MsgsOf
<1>5. MsgsOf(Batch(w)) \subseteq Msgs
  BY <1>3, <1>4 DEF Delivery
<1>6. QED
  BY <1>2, <1>3, <1>4, <1>5

(* A worker goes to another step of the same call.                           *)
LEMMA GotoKeeps ==
  ASSUME Control, NEW w \in Workers, NEW s \in PCs \ {"idle"}, pc[w] # "idle",
         s \in DeadSteps => mode[w] = "single" /\ Batch(w)[1].attempt >= MaxDeliver,
         Goto(w, s), UNCHANGED <<mode, todo, attempts>>
  PROVE  Control'
BY DEF Control, ControlTyped, WorkersAreInStep, GoodBatches, Goto, Batch

(* A call returns, and the worker goes on with the rest.                     *)
LEMMA ReturnKeeps ==
  ASSUME Control, NEW w \in Workers, pc[w] # "idle", Return(w), UNCHANGED attempts
  PROVE  Control'
<1>1. GoodBatches(todo[w]) /\ todo[w] # << >>
  BY DEF Control, WorkersAreInStep
<1>2. GoodBatches(Tail(todo[w])) /\ (Tail(todo[w]) = << >> <=> Len(todo[w]) = 1)
  BY <1>1, RestIsGood
<1>3. /\ todo' = [todo EXCEPT ![w] = Tail(todo[w])]
      /\ mode' = [mode EXCEPT ![w] = "batch"]
      /\ pc' = [pc EXCEPT ![w] = IF Len(todo[w]) = 1 THEN "idle" ELSE "process"]
  BY DEF Return, Goto
<1>4. ControlTyped'
  BY <1>2, <1>3 DEF Control, ControlTyped, GoodBatches, PCs
<1>5. \A t : GoodBatches(t) => GoodBatches(t)'
  BY DEF GoodBatches
<1>6. ASSUME NEW v \in Workers
      PROVE  /\ GoodBatches(todo[v])'
             /\ (pc[v] = "idle")' <=> (todo[v] = << >>)'
             /\ (mode[v] = "single")' => (pc[v] # "idle" /\ Len(Batch(v)) = 1)'
             /\ (pc[v] \in DeadSteps)' => (mode[v] = "single" /\ Batch(v)[1].attempt >= MaxDeliver)'
  <2>1. CASE v = w
    <3>1. todo'[v] = Tail(todo[w]) /\ mode'[v] = "batch"
          /\ pc'[v] = IF Len(todo[w]) = 1 THEN "idle" ELSE "process"
      BY <1>3, <2>1 DEF Control, ControlTyped
    <3>2. QED
      BY <1>2, <3>1 DEF DeadSteps, GoodBatches
  <2>2. CASE v # w
    <3>1. todo'[v] = todo[v] /\ mode'[v] = mode[v] /\ pc'[v] = pc[v]
      BY <1>3, <2>2 DEF Control, ControlTyped
    <3>2. QED
      BY <3>1 DEF Control, WorkersAreInStep, GoodBatches, Batch
  <2>3. QED
    BY <2>1, <2>2
<1>7. QED
  BY <1>4, <1>6 DEF Control, WorkersAreInStep

(* A batch that failed is split, or tried singly.                            *)
LEMMA SplitKeeps ==
  ASSUME Control, NEW w \in Workers, pc[w] # "idle", mode[w] # "single",
         SplitOrSingle(w), UNCHANGED attempts
  PROVE  Control'
<1>1. GoodBatches(todo[w]) /\ todo[w] # << >> /\ Len(Batch(w)) \in Nat \ {0}
  BY InHand DEF Control, WorkersAreInStep
<1>2. pc' = [pc EXCEPT ![w] = "process"]
  BY DEF SplitOrSingle, Goto
<1>3. CASE Len(Batch(w)) > 1
  <2>1. todo' = [todo EXCEPT ![w] = Halves(Head(todo[w])) \o Tail(todo[w])] /\ mode' = mode
    BY <1>3 DEF SplitOrSingle
  <2>2. /\ GoodBatches(Halves(Head(todo[w])) \o Tail(todo[w]))
        /\ Halves(Head(todo[w])) \o Tail(todo[w]) # << >>
    BY <1>1, <1>3, SplitIsGood DEF Batch
  <2>3. ControlTyped'
    BY <1>2, <2>1, <2>2 DEF Control, ControlTyped, GoodBatches, PCs
  <2>4. ASSUME NEW v \in Workers
        PROVE  /\ GoodBatches(todo[v])'
               /\ (pc[v] = "idle")' <=> (todo[v] = << >>)'
               /\ (mode[v] = "single")' => (pc[v] # "idle" /\ Len(Batch(v)) = 1)'
               /\ (pc[v] \in DeadSteps)' => (mode[v] = "single" /\ Batch(v)[1].attempt >= MaxDeliver)'
    <3>1. CASE v = w
      <4>1. /\ todo'[v] = Halves(Head(todo[w])) \o Tail(todo[w]) /\ mode'[v] # "single"
            /\ pc'[v] = "process"
        BY <1>2, <2>1, <3>1 DEF Control, ControlTyped
      <4>2. QED
        BY <2>2, <4>1 DEF DeadSteps, GoodBatches
    <3>2. CASE v # w
      <4>1. todo'[v] = todo[v] /\ mode'[v] = mode[v] /\ pc'[v] = pc[v]
        BY <1>2, <2>1, <3>2 DEF Control, ControlTyped
      <4>2. QED
        BY <4>1 DEF Control, WorkersAreInStep, GoodBatches, Batch
    <3>3. QED
      BY <3>1, <3>2
  <2>5. QED
    BY <2>3, <2>4 DEF Control, WorkersAreInStep
<1>4. CASE ~ (Len(Batch(w)) > 1)
  <2>1. mode' = [mode EXCEPT ![w] = "single"] /\ todo' = todo
    BY <1>4 DEF SplitOrSingle
  <2>2. Len(Batch(w)) = 1
    <3>1. \A n \in Nat \ {0} : ~ (n > 1) => n = 1
      OBVIOUS
    <3>2. QED
      BY <1>1, <1>4, <3>1, Zenon
  <2>3. QED
    BY <1>2, <2>1, <2>2 DEF Control, ControlTyped, WorkersAreInStep, GoodBatches, Batch, PCs, DeadSteps
<1>5. QED
  BY <1>3, <1>4

(* Whatever throws, the worker goes on with what it has left.                *)
LEMMA DrainThrowsKeeps ==
  ASSUME Control, NEW w \in Workers, pc[w] # "idle", DrainThrows(w), UNCHANGED attempts
  PROVE  Control'
BY ReturnKeeps, SplitKeeps DEF DrainThrows, Nak

LEMMA ProcessThrowsKeeps ==
  ASSUME Control, NEW w \in Workers, pc[w] # "idle", ProcessThrows(w), UNCHANGED attempts
  PROVE  Control'
BY DrainThrowsKeeps, GotoKeeps DEF ProcessThrows, PCs, DeadSteps

(* The consumer hands a new batch to an idle worker, and counts it.          *)
LEMMA ReceiveKeeps ==
  ASSUME Control, attempts \in [Msgs -> 0..MaxDeliver], ready \subseteq Msgs,
         NEW w \in Workers, ReceiveBatch(w)
  PROVE  /\ Control' /\ (attempts \in [Msgs -> 0..MaxDeliver])' /\ (ready \subseteq Msgs)'
         /\ \A m \in Msgs : attempts[m] <= attempts'[m]
<1>1. PICK n \in 1..BatchSize : \E b \in [1..n -> Deliverable] :
        /\ attempts' = [m \in Msgs |-> attempts[m] + Cardinality({i \in 1..n : b[i] = m})]
        /\ \A m \in Msgs : attempts'[m] <= MaxDeliver
        /\ ready' = ready \ {b[i] : i \in 1..n}
        /\ todo' = [todo EXCEPT ![w] =
             <<[i \in 1..n |-> [msg |-> b[i], attempt |-> DeliveryAttempt(b, i)]]>>]
  BY DEF ReceiveBatch
<1>2. PICK b \in [1..n -> Deliverable] :
        /\ attempts' = [m \in Msgs |-> attempts[m] + Cardinality({i \in 1..n : b[i] = m})]
        /\ \A m \in Msgs : attempts'[m] <= MaxDeliver
        /\ ready' = ready \ {b[i] : i \in 1..n}
        /\ todo' = [todo EXCEPT ![w] =
             <<[i \in 1..n |-> [msg |-> b[i], attempt |-> DeliveryAttempt(b, i)]]>>]
  BY <1>1
<1>3. pc[w] = "idle" /\ pc' = [pc EXCEPT ![w] = "process"] /\ mode' = mode
  BY DEF ReceiveBatch, Goto
<1>4. MaxDeliver \in Nat /\ n \in Nat /\ n >= 1
  BY LimitAssumption
<1>5. \A i \in 1..n : b[i] \in Msgs
  BY DEF Deliverable
<1> DEFINE copies(m) == Cardinality({i \in 1..n : b[i] = m})
<1> DEFINE upTo(i) == Cardinality({j \in 1..i : b[j] = b[i]})
<1>6. \A m \in Msgs : IsFiniteSet({i \in 1..n : b[i] = m}) /\ copies(m) \in Nat
  <2>1. IsFiniteSet(1..n)
    BY <1>4, FS_Interval
  <2>2. QED
    BY <2>1, FS_Subset, FS_CardinalityType
<1>7. \A i \in 1..n : upTo(i) \in Nat /\ 1 <= upTo(i) /\ upTo(i) <= copies(b[i])
  <2>1. SUFFICES ASSUME NEW i \in 1..n
                 PROVE  upTo(i) \in Nat /\ 1 <= upTo(i) /\ upTo(i) <= copies(b[i])
    OBVIOUS
  <2> DEFINE part == {j \in 1..i : b[j] = b[i]}
  <2>2. part \subseteq {j \in 1..n : b[j] = b[i]} /\ i \in part
    BY <1>4
  <2>3. IsFiniteSet(part) /\ Cardinality(part) <= copies(b[i])
    BY <1>5, <1>6, <2>2, FS_Subset
  <2>4. Cardinality(part) \in Nat /\ Cardinality(part) # 0
    BY <2>2, <2>3, FS_CardinalityType, FS_EmptySet
  <2>5. upTo(i) = Cardinality(part)
    OBVIOUS
  <2> HIDE DEF part, upTo
  <2>6. QED
    BY <2>3, <2>4, <2>5
<1>8. /\ attempts' \in [Msgs -> 0..MaxDeliver]
      /\ \A m \in Msgs : attempts'[m] = attempts[m] + copies(m)
      /\ \A m \in Msgs : attempts[m] <= attempts'[m]
  <2>1. \A m \in Msgs : attempts'[m] = attempts[m] + copies(m)
    BY <1>2
  <2> HIDE DEF copies
  <2>2. \A m \in Msgs : attempts[m] \in Nat /\ attempts'[m] <= MaxDeliver
    BY <1>2, <1>4
  <2>3. ASSUME NEW m \in Msgs PROVE attempts'[m] \in 0..MaxDeliver /\ attempts[m] <= attempts'[m]
    <3>1. copies(m) \in Nat
      BY <1>6
    <3>2. /\ attempts[m] \in Nat /\ attempts'[m] = attempts[m] + copies(m)
          /\ attempts'[m] <= MaxDeliver
      BY <2>1, <2>2
    <3>3. QED
      BY <1>4, <3>1, <3>2
  <2>4. attempts' = [m \in Msgs |-> attempts'[m]]
    BY <1>2
  <2>5. QED
    BY <2>1, <2>3, <2>4
<1>9. PICK new \in Seq(Delivery) :
        /\ todo' = [todo EXCEPT ![w] = <<new>>]
        /\ Len(new) = n /\ new # << >>
        /\ \A j \in 1..n : new[j] \in Delivery /\ new[j].attempt <= attempts'[new[j].msg]
  <2> DEFINE d(i) == [msg |-> b[i], attempt |-> DeliveryAttempt(b, i)]
  <2>1. \A i \in 1..n : d(i) \in Delivery /\ d(i).attempt <= attempts'[d(i).msg]
    <3>1. SUFFICES ASSUME NEW i \in 1..n
                   PROVE  d(i) \in Delivery /\ d(i).attempt <= attempts'[d(i).msg]
      OBVIOUS
    <3>2. copies(b[i]) \in Nat /\ b[i] \in Msgs
      BY <1>5, <1>6
    <3>3. attempts'[b[i]] = attempts[b[i]] + copies(b[i])
      BY <1>8, <3>2
    <3>4. attempts[b[i]] \in Nat /\ attempts'[b[i]] \in 0..MaxDeliver
      BY <1>4, <1>8, <3>2
    <3>5. DeliveryAttempt(b, i) = attempts[b[i]] + upTo(i)
      BY DEF DeliveryAttempt
    <3>6. upTo(i) \in Nat /\ 1 <= upTo(i) /\ upTo(i) <= copies(b[i])
      BY <1>7
    <3> HIDE DEF upTo, copies
    <3>7. /\ DeliveryAttempt(b, i) \in 1..MaxDeliver
          /\ DeliveryAttempt(b, i) <= attempts'[b[i]]
      BY <1>4, <3>2, <3>3, <3>4, <3>5, <3>6
    <3>8. QED
      BY <1>5, <3>7 DEF Delivery
  <2>2. [i \in 1..n |-> d(i)] \in Seq(Delivery) /\ Len([i \in 1..n |-> d(i)]) = n
    BY <1>4, <2>1
  <2>3. [i \in 1..n |-> d(i)] # << >>
    BY <1>4, <2>2, EmptySeq
  <2>4. \A j \in 1..n : [i \in 1..n |-> d(i)][j] = d(j)
    OBVIOUS
  <2> HIDE DEF d
  <2>5. WITNESS [i \in 1..n |-> d(i)] \in Seq(Delivery)
  <2>6. QED
    BY <1>2, <2>1, <2>2, <2>3, <2>4 DEF d
<1> HIDE DEF copies, upTo
<1>10. GoodBatches(<<new>>)' /\ <<new>> # << >>
  <2>1. <<new>> \in Seq(Seq(Delivery)) /\ Len(<<new>>) = 1 /\ <<new>>[1] = new
    OBVIOUS
  <2>2. \A j \in 1..Len(new) : new[j].attempt <= attempts'[new[j].msg]
    BY <1>9 DEF Delivery
  <2>3. \A i \in 1..Len(<<new>>) : i = 1
    BY <2>1
  <2>4. QED
    BY <1>9, <2>1, <2>2, <2>3 DEF GoodBatches
<1>11. \A t : GoodBatches(t) => GoodBatches(t)'
  <2>1. SUFFICES ASSUME NEW t, GoodBatches(t), NEW i \in 1..Len(t), NEW j \in 1..Len(t[i])
                 PROVE  t[i][j].attempt <= attempts'[t[i][j].msg]
    BY DEF GoodBatches
  <2>2. t[i][j] \in Delivery
    BY <2>1, ElementOfSeq DEF GoodBatches
  <2>3. t[i][j].attempt \in Nat /\ t[i][j].msg \in Msgs
    BY <1>4, <2>2 DEF Delivery
  <2>4. \A m \in Msgs : attempts[m] \in Nat /\ attempts'[m] \in Nat
    BY <1>4, <1>8
  <2>5. t[i][j].attempt <= attempts[t[i][j].msg]
    BY <2>1 DEF GoodBatches
  <2>6. QED
    BY <1>8, <2>3, <2>4, <2>5
<1>12. ControlTyped'
  BY <1>3, <1>9, <1>10 DEF Control, ControlTyped, GoodBatches, PCs
<1>13. ASSUME NEW v \in Workers
       PROVE  /\ GoodBatches(todo[v])'
              /\ (pc[v] = "idle")' <=> (todo[v] = << >>)'
              /\ (mode[v] = "single")' => (pc[v] # "idle" /\ Len(Batch(v)) = 1)'
              /\ (pc[v] \in DeadSteps)' => (mode[v] = "single" /\ Batch(v)[1].attempt >= MaxDeliver)'
  <2>1. CASE v = w
    <3>1. todo'[v] = <<new>> /\ mode'[v] # "single" /\ pc'[v] = "process"
      BY <1>3, <1>9, <2>1 DEF Control, ControlTyped, WorkersAreInStep
    <3>2. QED
      BY <1>10, <3>1 DEF DeadSteps, GoodBatches
  <2>2. CASE v # w
    <3>1. todo'[v] = todo[v] /\ mode'[v] = mode[v] /\ pc'[v] = pc[v]
      BY <1>3, <1>9, <2>2 DEF Control, ControlTyped
    <3>2. GoodBatches(todo[v])'
      BY <1>11, <3>1 DEF Control, WorkersAreInStep, GoodBatches
    <3>3. QED
      BY <3>1, <3>2 DEF Control, WorkersAreInStep, Batch
  <2>3. QED
    BY <2>1, <2>2
<1>14. QED
  BY <1>2, <1>8, <1>12, <1>13 DEF Control, WorkersAreInStep

BrokerTyped ==
  /\ attempts \in [Msgs -> 0..MaxDeliver]
  /\ ready \subseteq Msgs
  /\ acked \subseteq Msgs

(* Deliveries are only ever added.                                           *)
CountsGrow == \A m \in Msgs : attempts[m] <= attempts'[m]

LEMMA SameCountsGrow ==
  ASSUME BrokerTyped, UNCHANGED attempts
  PROVE  CountsGrow
BY LimitAssumption DEF BrokerTyped, CountsGrow

(* Every step keeps workers and consumer in step.                            *)
LEMMA ControlKept ==
  ASSUME Control, BrokerTyped, [Next]_vars
  PROVE  Control' /\ BrokerTyped' /\ CountsGrow
<1> USE DEF broker, rows, worker
<1>1. ASSUME NEW m \in Msgs, AckWaitExpires(m) PROVE Control' /\ BrokerTyped' /\ CountsGrow
  <2>1. Control' /\ BrokerTyped'
    BY <1>1 DEF AckWaitExpires, Control, ControlTyped, WorkersAreInStep, GoodBatches, Batch,
      BrokerTyped
  <2>2. QED
    BY <1>1, <2>1, SameCountsGrow DEF AckWaitExpires
<1>2. ASSUME NEW k \in Keys, OutboxTimeElapses(k) PROVE Control' /\ BrokerTyped' /\ CountsGrow
  <2>1. Control' /\ BrokerTyped'
    BY <1>2 DEF OutboxTimeElapses, Control, ControlTyped, WorkersAreInStep, GoodBatches, Batch,
      BrokerTyped
  <2>2. QED
    BY <1>2, <2>1, SameCountsGrow DEF OutboxTimeElapses
<1>3. ASSUME Crash PROVE Control' /\ BrokerTyped' /\ CountsGrow
  <2>1. << >> \in Seq(Seq(Delivery)) /\ Len(<< >>) = 0
    BY EmptySeq
  <2>2. Control' /\ BrokerTyped'
    BY <1>3, <2>1 DEF Crash, Control, ControlTyped, WorkersAreInStep, GoodBatches, BrokerTyped,
      PCs, DeadSteps
  <2>3. QED
    BY <1>3, <2>2, SameCountsGrow DEF Crash
<1>4. ASSUME NEW w \in Workers, Work(w) PROVE Control' /\ BrokerTyped' /\ CountsGrow
  <2>1. CASE ReceiveBatch(w)
    <3>1. UNCHANGED acked
      BY <2>1 DEF ReceiveBatch
    <3>2. QED
      BY <2>1, <3>1, ReceiveKeeps DEF BrokerTyped, CountsGrow
  <2> SUFFICES ASSUME ~ ReceiveBatch(w)
               PROVE  Control' /\ BrokerTyped' /\ CountsGrow
    BY <2>1
  <2>2. pc[w] # "idle" /\ UNCHANGED attempts
    BY <1>4 DEF Work, Process, ProcessConflict, ProcessFails, FindDead, MarkDead, CreateDead,
      DeadLetterFails, ClaimOutbox, ClaimFails, PublishRow, PublishFails, SettleRow, SettleFails,
      MarkOutboxFailed, MarkOutboxFailedFails, AckBatch, AckLost, AckThrows
  <2>3. MsgsOf(Batch(w)) \subseteq Msgs
    BY <2>2, InHand
  <2>4. BrokerTyped'
    BY <1>4, <2>2, <2>3 DEF BrokerTyped, Work, Process, ProcessConflict, ProcessFails, FindDead,
      MarkDead, CreateDead, DeadLetterFails, ClaimOutbox, ClaimFails, PublishRow, PublishFails,
      SettleRow, SettleFails, MarkOutboxFailed, MarkOutboxFailedFails, AckBatch, AckLost, AckThrows,
      ProcessThrows, DrainThrows, Nak, SplitOrSingle
  <2>5. ASSUME ProcessConflict(w) \/ ProcessFails(w) PROVE Control'
    BY <2>2, <2>5, ProcessThrowsKeeps DEF ProcessConflict, ProcessFails
  <2>6. ASSUME ClaimFails(w) \/ MarkOutboxFailedFails(w) \/ AckThrows(w) PROVE Control'
    BY <2>2, <2>6, DrainThrowsKeeps DEF ClaimFails, MarkOutboxFailedFails, AckThrows
  <2>7. ASSUME AckBatch(w) \/ AckLost(w) PROVE Control'
    BY <2>2, <2>7, ReturnKeeps DEF AckBatch, AckLost
  <2>8. ASSUME FindDead(w) PROVE Control'
    <3>1. mode[w] = "single" /\ Batch(w)[1].attempt >= MaxDeliver
      BY <2>8 DEF FindDead, Control, WorkersAreInStep, DeadSteps
    <3>2. QED
      BY <2>2, <2>8, <3>1, GotoKeeps DEF FindDead, PCs, DeadSteps
  <2>9. ASSUME Process(w) \/ MarkDead(w) \/ CreateDead(w) \/ DeadLetterFails(w)
        PROVE  Control'
    BY <2>2, <2>9, GotoKeeps DEF Process, MarkDead, CreateDead, DeadLetterFails, AfterProcess,
      PCs, DeadSteps
  <2>10. ASSUME \/ ClaimOutbox(w) \/ PublishRow(w) \/ PublishFails(w) \/ SettleRow(w)
                \/ SettleFails(w) \/ MarkOutboxFailed(w)
         PROVE  Control'
    BY <2>2, <2>10, GotoKeeps DEF ClaimOutbox, PublishRow, PublishFails, SettleRow, SettleFails,
      MarkOutboxFailed, NextRow, PCs, DeadSteps
  <2>11. Control'
    BY <1>4, <2>5, <2>6, <2>7, <2>8, <2>9, <2>10 DEF Work
  <2>12. QED
    BY <2>2, <2>4, <2>11, SameCountsGrow
<1>5. ASSUME UNCHANGED vars PROVE Control' /\ BrokerTyped' /\ CountsGrow
  <2>1. Control' /\ BrokerTyped'
    BY <1>5 DEF vars, Control, ControlTyped, WorkersAreInStep, GoodBatches, Batch, BrokerTyped
  <2>2. QED
    BY <1>5, <2>1, SameCountsGrow DEF vars
<1>6. QED
  BY <1>1, <1>2, <1>3, <1>4, <1>5 DEF Next

-----------------------------------------------------------------------------
RowsTyped ==
  /\ write \in [Keys -> [status: WriteStatus, msg: Msgs \cup {NoMsg}]]
  /\ message \in [Keys -> [msg: Msgs \cup {NoMsg}, seq: Nat]]
  /\ nextSeq \in [Rooms -> Nat]
  /\ lastMessageAt \in [Rooms -> Nat]
  /\ outbox \in [Keys -> [status: OutboxStatus, due: BOOLEAN]]
  /\ fanned \subseteq Keys

(* A transaction leaves no write pending, and a row has its command.         *)
WritesAreSettled ==
  \A k \in Keys :
    /\ write[k].status # "PENDING"
    /\ write[k].status # "NONE" => write[k].msg \in Msgs
    /\ outbox[k].due => outbox[k].status # "NONE"

(* dedupeMessageWriteCommands: each key of a batch has a first command.      *)
LEMMA FirstIsThere ==
  ASSUME NEW b \in Seq(Delivery), NEW k \in KeysOf(b)
  PROVE  FirstOf(b, k) \in MsgsOf(b) /\ Cmd[FirstOf(b, k)].key = k /\ FirstOf(b, k) \in Msgs
<1> DEFINE S == {i \in 1..Len(b) : Cmd[b[i].msg].key = k}
<1>1. /\ Len(b) \in Nat /\ DOMAIN b = 1..Len(b)
      /\ \A i \in 1..Len(b) : b[i] \in Delivery
  BY LenProperties, ElementOfSeq
<1>2. S # {} /\ S \subseteq Nat
  BY <1>1 DEF KeysOf, MsgsOf
<1>3. PICK n \in S : \A i \in S : n <= i
  BY <1>2, Least
<1>4. n \in 1..Len(b) /\ \A j \in 1..(n - 1) : Cmd[b[j].msg].key # k
  <2>1. SUFFICES ASSUME NEW j \in 1..(n - 1), Cmd[b[j].msg].key = k PROVE FALSE
    OBVIOUS
  <2>2. n \in Nat /\ j \in 1..Len(b) /\ j < n
    BY <1>1, <1>3
  <2>3. QED
    BY <1>3, <2>1, <2>2
<1>5. /\ b[n].msg \in MsgsOf(b) /\ Cmd[b[n].msg].key = k
      /\ \E i \in DOMAIN b : b[i].msg = b[n].msg /\ \A j \in 1..(i-1) : Cmd[b[j].msg].key # k
  BY <1>1, <1>3, <1>4 DEF MsgsOf
<1>6. FirstOf(b, k) \in MsgsOf(b) /\ Cmd[FirstOf(b, k)].key = k
  BY <1>5 DEF FirstOf
<1>7. MsgsOf(b) \subseteq Msgs
  BY <1>1 DEF MsgsOf, Delivery
<1>8. QED
  BY <1>6, <1>7

(* What the transaction of a batch does to the rows of each request.         *)
LEMMA CommitRows ==
  ASSUME RowsTyped, WritesAreSettled, TablesAgree, NEW b \in Seq(Delivery), Commit(b),
         NEW k \in Keys
  PROVE  /\ k \notin Candidates(b) =>
              /\ write'[k] = write[k] /\ message'[k] = message[k] /\ outbox'[k] = outbox[k]
              /\ k \in KeysOf(b) => write[k].status # "NONE"
         /\ k \in Candidates(b) =>
              /\ write[k].status = "NONE" /\ ~ Persisted(k) /\ outbox[k].status = "NONE"
              /\ k \in KeysOf(b) /\ InsertedWrite(b, k).msg = FirstOf(b, k)
              /\ write'[k] = [status |-> "PERSISTED", msg |-> FirstOf(b, k)]
              /\ message'[k].msg = FirstOf(b, k)
              /\ outbox'[k] = [status |-> "PENDING", due |-> TRUE]
<1>1. /\ write' = [j \in Keys |->
            IF /\ j \in KeysOf(b)
               /\ j \in Candidates(b) \/ message[j].msg # NoMsg
               /\ InsertedWrite(b, j).status \notin {"DEAD", "FANOUTED"}
            THEN [InsertedWrite(b, j) EXCEPT !.status = "PERSISTED"]
            ELSE InsertedWrite(b, j)]
      /\ outbox' = [j \in Keys |->
            IF j \in Candidates(b) /\ outbox[j].status = "NONE"
            THEN [status |-> "PENDING", due |-> TRUE]
            ELSE outbox[j]]
  BY DEF Commit, UpdateWrites, InsertOutbox
<1>2. PICK offset \in RoomOffsets(b) :
        message' = [j \in Keys |->
          IF j \in Candidates(b)
          THEN [msg |-> InsertedWrite(b, j).msg,
                seq |-> nextSeq[Cmd[InsertedWrite(b, j).msg].room] + offset[j]]
          ELSE message[j]]
  BY DEF Commit, InsertMessages
<1>3. ASSUME k \notin Candidates(b)
      PROVE  /\ write'[k] = write[k] /\ message'[k] = message[k] /\ outbox'[k] = outbox[k]
             /\ k \in KeysOf(b) => write[k].status # "NONE"
  <2>1. message'[k] = message[k] /\ outbox'[k] = outbox[k]
    BY <1>1, <1>2, <1>3
  <2>2. k \in KeysOf(b) => write[k].status # "NONE"
    <3>1. SUFFICES ASSUME k \in KeysOf(b), write[k].status = "NONE" PROVE FALSE
      OBVIOUS
    <3>2. ~ Persisted(k) /\ InsertedWrite(b, k).status = "PENDING"
      BY <3>1 DEF TablesAgree, InsertedWrite
    <3>3. QED
      BY <1>3, <3>1, <3>2 DEF Candidates, Persisted
  <2>3. InsertedWrite(b, k) = write[k]
    BY <2>2 DEF InsertedWrite
  <2>4. message[k].msg # NoMsg /\ write[k].status \notin {"DEAD", "FANOUTED"}
          => [write[k] EXCEPT !.status = "PERSISTED"] = write[k]
    BY DEF TablesAgree, Persisted, RowsTyped
  <2>5. QED
    BY <1>1, <1>3, <2>1, <2>2, <2>3, <2>4
<1>4. ASSUME k \in Candidates(b)
      PROVE  /\ write[k].status = "NONE" /\ ~ Persisted(k) /\ outbox[k].status = "NONE"
             /\ k \in KeysOf(b) /\ InsertedWrite(b, k) = [status |-> "PENDING", msg |-> FirstOf(b, k)]
  <2>1. k \in KeysOf(b) /\ InsertedWrite(b, k).status # "DEAD" /\ ~ Persisted(k)
    BY <1>4 DEF Candidates, Persisted
  <2>2. write[k].status \notin {"PERSISTED", "FANOUTED", "PENDING"} /\ outbox[k].status = "NONE"
    BY <2>1 DEF TablesAgree, WritesAreSettled
  <2>3. write[k].status # "DEAD"
    BY <2>1 DEF InsertedWrite
  <2>4. write[k].status = "NONE"
    BY <2>2, <2>3 DEF RowsTyped, WriteStatus
  <2>5. QED
    BY <2>1, <2>2, <2>4 DEF InsertedWrite
<1>5. ASSUME k \in Candidates(b)
      PROVE  /\ write'[k] = [status |-> "PERSISTED", msg |-> FirstOf(b, k)]
             /\ message'[k].msg = FirstOf(b, k)
             /\ outbox'[k] = [status |-> "PENDING", due |-> TRUE]
  BY <1>1, <1>2, <1>4, <1>5
<1>6. QED
  BY <1>3, <1>4, <1>5

(* The rows a claimed drain works on are those of messages.                  *)
DrainsArePersisted ==
  \A w \in Workers :
    /\ claimed[w] \cup current[w] \subseteq {k \in Keys : Persisted(k)}
    /\ pc[w] = "settle" => current[w] \subseteq fanned

DrainsTyped ==
  /\ claimed \in [Workers -> SUBSET Keys]
  /\ current \in [Workers -> SUBSET Keys]

(* What a step may do to the tables and to the published events.             *)
Committing(w) ==
  /\ pc[w] = "process"
  /\ ~Conflicting(Batch(w))
  /\ Commit(Batch(w))
  /\ UNCHANGED fanned

GivingUp(w) ==
  /\ pc[w] = "createDead"
  /\ write[DeadKey(w)].status = "NONE"
  /\ write' = [write EXCEPT ![DeadKey(w)] = [status |-> "DEAD", msg |-> Batch(w)[1].msg]]
  /\ UNCHANGED <<message, nextSeq, lastMessageAt, outbox, fanned>>

Publishing(w) ==
  /\ pc[w] = "publish"
  /\ \E k \in claimed[w] : fanned' = fanned \cup {k}
  /\ UNCHANGED <<rows, outbox>>

Settling(w) ==
  /\ pc[w] = "settle"
  /\ Settled(w)
  /\ UNCHANGED <<message, nextSeq, lastMessageAt, fanned>>

TableStep ==
  \/ UNCHANGED <<rows, outbox, fanned>>
  \/ \E w \in Workers : Committing(w) \/ GivingUp(w) \/ Publishing(w) \/ Settling(w)
  \/ \E w \in Workers :
       /\ outbox' = [k \in Keys |-> IF k \in current[w]
                                    THEN [status |-> "FAILED", due |-> FALSE]
                                    ELSE outbox[k]]
       /\ UNCHANGED <<rows, fanned>>
  \/ Claimed /\ UNCHANGED <<rows, fanned>>
  \/ \E k \in Keys : outbox[k].status # "NONE" /\ outbox' = [outbox EXCEPT ![k].due = TRUE]
                     /\ UNCHANGED <<rows, fanned>>

LEMMA StepsOfTables ==
  ASSUME Control, WritesAreSettled, [Next]_vars
  PROVE  TableStep
<1> USE DEF broker, rows, worker
<1>1. ASSUME NEW m \in Msgs, AckWaitExpires(m) PROVE TableStep
  BY <1>1 DEF AckWaitExpires, TableStep
<1>2. ASSUME NEW k \in Keys, OutboxTimeElapses(k) PROVE TableStep
  BY <1>2 DEF OutboxTimeElapses, TableStep
<1>3. ASSUME Crash \/ UNCHANGED vars PROVE TableStep
  BY <1>3 DEF Crash, vars, TableStep
<1>4. ASSUME NEW w \in Workers, Work(w) PROVE TableStep
  <2>1. ASSUME \/ ReceiveBatch(w) \/ ProcessConflict(w) \/ FindDead(w) \/ DeadLetterFails(w)
               \/ MarkOutboxFailedFails(w) \/ AckBatch(w) \/ AckLost(w) \/ AckThrows(w)
        PROVE  UNCHANGED <<rows, outbox, fanned>>
    BY <2>1 DEF ReceiveBatch, ProcessConflict, FindDead, DeadLetterFails, MarkOutboxFailedFails,
      AckBatch, AckLost, AckThrows
  <2>2. ASSUME Process(w) \/ ProcessFails(w)
        PROVE  Committing(w) \/ UNCHANGED <<rows, outbox, fanned>>
    BY <2>2 DEF Process, ProcessFails, Committing
  <2>3. ASSUME MarkDead(w) PROVE UNCHANGED <<rows, outbox, fanned>>
    <3>1. pc[w] # "idle" /\ Batch(w)[1].msg \in Msgs
      BY <2>3, InHand DEF MarkDead, Delivery
    <3>2. DeadKey(w) \in Keys
      BY <3>1, CommandAssumption DEF DeadKey
    <3>3. QED
      BY <2>3, <3>2 DEF MarkDead, WritesAreSettled
  <2>4. ASSUME CreateDead(w) PROVE GivingUp(w) \/ UNCHANGED <<rows, outbox, fanned>>
    BY <2>4 DEF CreateDead, GivingUp
  <2>5. ASSUME ClaimOutbox(w) \/ ClaimFails(w)
        PROVE  (Claimed /\ UNCHANGED <<rows, fanned>>) \/ UNCHANGED <<rows, outbox, fanned>>
    BY <2>5 DEF ClaimOutbox, ClaimFails
  <2>6. ASSUME PublishRow(w) \/ PublishFails(w)
        PROVE  Publishing(w) \/ UNCHANGED <<rows, outbox, fanned>>
    BY <2>6 DEF PublishRow, PublishFails, Publishing
  <2>7. ASSUME SettleRow(w) \/ SettleFails(w)
        PROVE  Settling(w) \/ UNCHANGED <<rows, outbox, fanned>>
    BY <2>7 DEF SettleRow, SettleFails, Settling
  <2>8. ASSUME MarkOutboxFailed(w) PROVE TableStep
    BY <2>8 DEF MarkOutboxFailed, TableStep
  <2>9. QED
    BY <1>4, <2>1, <2>2, <2>3, <2>4, <2>5, <2>6, <2>7, <2>8 DEF Work, TableStep
<1>5. QED
  BY <1>1, <1>2, <1>3, <1>4 DEF Next

-----------------------------------------------------------------------------
(* A batch names messages of the stream and, so, known keys.                 *)
LEMMA BatchKeys ==
  ASSUME NEW b \in Seq(Delivery)
  PROVE  /\ MsgsOf(b) \subseteq Msgs /\ KeysOf(b) \subseteq Keys
         /\ Candidates(b) \subseteq Keys /\ Candidates(b) \subseteq KeysOf(b)
         /\ IsFiniteSet(Candidates(b)) /\ Cardinality(Candidates(b)) \in Nat
         /\ \A r : /\ CandidatesIn(b, r) \subseteq Candidates(b)
                   /\ IsFiniteSet(CandidatesIn(b, r)) /\ Cardinality(CandidatesIn(b, r)) \in Nat
<1>1. DOMAIN b = 1..Len(b) /\ \A i \in 1..Len(b) : b[i] \in Delivery
  BY LenProperties, ElementOfSeq
<1>2. MsgsOf(b) \subseteq Msgs
  BY <1>1 DEF MsgsOf, Delivery
<1>3. KeysOf(b) \subseteq Keys
  BY <1>2, CommandAssumption DEF KeysOf
<1>4. Candidates(b) \subseteq Keys /\ Candidates(b) \subseteq KeysOf(b)
  BY <1>3 DEF Candidates
<1>5. \A r : CandidatesIn(b, r) \subseteq Candidates(b)
  BY DEF CandidatesIn
<1>6. \A S : S \subseteq Keys => IsFiniteSet(S) /\ Cardinality(S) \in Nat
  BY CommandAssumption, FS_Subset, FS_CardinalityType
<1>7. \A r : CandidatesIn(b, r) \subseteq Keys
  BY <1>4, <1>5
<1>8. QED
  BY <1>2, <1>3, <1>4, <1>5, <1>6, <1>7

(* The newest acceptedAt of a room is one of the given, and none is newer.   *)
LEMMA LatestIsGreatest ==
  ASSUME NEW S, S \subseteq Nat, S # {}, IsFiniteSet(S)
  PROVE  Latest(S) \in S /\ \A u \in S : u <= Latest(S)
BY Greatest DEF Latest

(* What a function makes of a finite set is finite.                          *)
LEMMA FiniteImage ==
  ASSUME NEW S, IsFiniteSet(S), NEW T, NEW f \in [S -> T]
  PROVE  IsFiniteSet({f[x] : x \in S})
<1>1. f \in Surjection(S, {f[x] : x \in S})
  BY DEF Surjection
<1>2. QED
  BY <1>1, FS_Surjection

(* The candidates of a room that a batch persists, seen from the commands.   *)
LEMMA AcceptedOfBatch ==
  ASSUME RowsTyped, WritesAreSettled, TablesAgree, NEW b \in Seq(Delivery), Commit(b), NEW r \in Rooms
  PROVE  /\ CandidatesIn(b, r) = {k \in Candidates(b) : Cmd[FirstOf(b, k)].room = r}
         /\ AcceptedIn(b, r) = {Cmd[FirstOf(b, k)].acceptedAt : k \in CandidatesIn(b, r)}
         /\ AcceptedIn(b, r) \subseteq Nat /\ IsFiniteSet(AcceptedIn(b, r))
<1>1. \A k \in Candidates(b) :
        /\ InsertedWrite(b, k).msg = FirstOf(b, k) /\ FirstOf(b, k) \in Msgs
  BY BatchKeys, CommitRows, FirstIsThere
<1>2. CandidatesIn(b, r) = {k \in Candidates(b) : Cmd[FirstOf(b, k)].room = r}
  BY <1>1 DEF CandidatesIn
<1>3. AcceptedIn(b, r) = {Cmd[FirstOf(b, k)].acceptedAt : k \in CandidatesIn(b, r)}
  BY <1>1, <1>2 DEF AcceptedIn
<1>4. \A k \in CandidatesIn(b, r) : Cmd[FirstOf(b, k)].acceptedAt \in Nat
  BY <1>1, <1>2, CommandAssumption
<1>5. IsFiniteSet({Cmd[FirstOf(b, k)].acceptedAt : k \in CandidatesIn(b, r)})
  <2> DEFINE f == [k \in CandidatesIn(b, r) |-> Cmd[FirstOf(b, k)].acceptedAt]
  <2>1. f \in [CandidatesIn(b, r) -> Nat]
    BY <1>4
  <2> HIDE DEF f
  <2>2. IsFiniteSet({f[k] : k \in CandidatesIn(b, r)})
    <3>1. IsFiniteSet(CandidatesIn(b, r))
      BY BatchKeys
    <3>2. QED
      BY <2>1, <3>1, FiniteImage, Zenon
  <2>3. {f[k] : k \in CandidatesIn(b, r)} = {Cmd[FirstOf(b, k)].acceptedAt : k \in CandidatesIn(b, r)}
    BY DEF f
  <2>4. QED
    BY <2>2, <2>3
<1>6. QED
  BY <1>2, <1>3, <1>4, <1>5

Tables == RowsTyped /\ WritesAreSettled /\ TablesAgree

(* The transaction of a batch keeps the three tables in agreement.           *)
LEMMA CommitKeepsTables ==
  ASSUME Tables, NEW b \in Seq(Delivery), Commit(b), UNCHANGED fanned
  PROVE  Tables'
<1> USE DEF Tables
<1>1. PICK offset \in RoomOffsets(b) :
        message' = [j \in Keys |->
          IF j \in Candidates(b)
          THEN [msg |-> InsertedWrite(b, j).msg,
                seq |-> nextSeq[Cmd[InsertedWrite(b, j).msg].room] + offset[j]]
          ELSE message[j]]
  BY DEF Commit, InsertMessages
<1>2. \A k \in Candidates(b) : offset[k] \in Nat
  BY BatchKeys, <1>1 DEF RoomOffsets
<1>3. \A k \in Candidates(b) :
        /\ k \in Keys /\ InsertedWrite(b, k).msg = FirstOf(b, k) /\ FirstOf(b, k) \in Msgs
        /\ FirstOf(b, k) # NoMsg
  BY BatchKeys, CommitRows, FirstIsThere, CommandAssumption
<1>4. \A k \in Candidates(b) : nextSeq[Cmd[InsertedWrite(b, k).msg].room] \in Nat
  BY <1>3, CommandAssumption DEF RowsTyped
<1>5. message' \in [Keys -> [msg: Msgs \cup {NoMsg}, seq: Nat]]
  <2>1. \A k \in Keys : message'[k] \in [msg: Msgs \cup {NoMsg}, seq: Nat]
    BY <1>1, <1>2, <1>3, <1>4 DEF RowsTyped
  <2>2. QED
    BY <1>1, <2>1
<1>6. /\ write' = [k \in Keys |-> write'[k]]
      /\ outbox' = [k \in Keys |-> outbox'[k]]
  BY DEF Commit, UpdateWrites, InsertOutbox
<1>7. \A k \in Keys :
        /\ write'[k] \in [status: WriteStatus, msg: Msgs \cup {NoMsg}]
        /\ outbox'[k] \in [status: OutboxStatus, due: BOOLEAN]
        /\ write'[k].status # "PENDING"
        /\ write'[k].status # "NONE" => write'[k].msg \in Msgs
        /\ outbox'[k].due => outbox'[k].status # "NONE"
        /\ message'[k].msg # NoMsg <=> write'[k].status \in {"PERSISTED", "FANOUTED"}
        /\ message'[k].msg # NoMsg <=> outbox'[k].status # "NONE"
        /\ message'[k].msg # NoMsg => message'[k].msg = write'[k].msg
  <2> TAKE k \in Keys
  <2>1. CASE k \in Candidates(b)
    <3>1. /\ write'[k] = [status |-> "PERSISTED", msg |-> FirstOf(b, k)]
          /\ message'[k].msg = FirstOf(b, k)
          /\ outbox'[k] = [status |-> "PENDING", due |-> TRUE]
      BY <2>1, CommitRows
    <3>2. FirstOf(b, k) \in Msgs /\ FirstOf(b, k) # NoMsg
      BY <1>3, <2>1
    <3>3. QED
      BY <3>1, <3>2 DEF WriteStatus, OutboxStatus
  <2>2. CASE k \notin Candidates(b)
    <3>1. write'[k] = write[k] /\ message'[k] = message[k] /\ outbox'[k] = outbox[k]
      BY <2>2, CommitRows
    <3>2. QED
      BY <3>1 DEF RowsTyped, WritesAreSettled, TablesAgree, Persisted
  <2>3. QED
    BY <2>1, <2>2
<1>8. nextSeq' \in [Rooms -> Nat]
  BY BatchKeys DEF RowsTyped, Commit, AllocateSequences
<1>9. lastMessageAt' \in [Rooms -> Nat]
  <2>1. lastMessageAt' = [r \in Rooms |-> Latest({lastMessageAt[r]} \cup AcceptedIn(b, r))]
    BY DEF Commit, UpdateRooms
  <2>2. ASSUME NEW r \in Rooms PROVE Latest({lastMessageAt[r]} \cup AcceptedIn(b, r)) \in Nat
    <3>1. AcceptedIn(b, r) \subseteq Nat /\ IsFiniteSet(AcceptedIn(b, r))
      BY AcceptedOfBatch
    <3>2. IsFiniteSet(AcceptedIn(b, r) \cup {lastMessageAt[r]})
      BY <3>1, FS_AddElement
    <3>3. {lastMessageAt[r]} \cup AcceptedIn(b, r) = AcceptedIn(b, r) \cup {lastMessageAt[r]}
      OBVIOUS
    <3>4. {lastMessageAt[r]} \cup AcceptedIn(b, r) \subseteq Nat
      BY <3>1 DEF RowsTyped
    <3>5. QED
      BY <3>2, <3>3, <3>4, LatestIsGreatest
  <2>3. QED
    BY <2>1, <2>2
<1>10. RowsTyped'
  BY <1>5, <1>6, <1>7, <1>8, <1>9 DEF RowsTyped
<1>11. WritesAreSettled' /\ TablesAgree'
  BY <1>7 DEF WritesAreSettled, TablesAgree, Persisted
<1>12. QED
  BY <1>10, <1>11

(* Every step keeps the three tables in agreement.                           *)
LEMMA TablesKept ==
  ASSUME Control, BrokerTyped, Tables, DrainsTyped, DrainsArePersisted, TableStep
  PROVE  Tables'
<1> USE DEF Tables
<1>1. ASSUME UNCHANGED <<rows, outbox, fanned>> PROVE Tables'
  BY <1>1 DEF rows, RowsTyped, WritesAreSettled, TablesAgree, Persisted
<1>2. ASSUME NEW w \in Workers, Committing(w) PROVE Tables'
  <2>1. Batch(w) \in Seq(Delivery)
    BY <1>2, InHand DEF Committing
  <2>2. QED
    BY <1>2, <2>1, CommitKeepsTables DEF Committing
<1>3. ASSUME NEW w \in Workers, GivingUp(w) PROVE Tables'
  <2>1. Batch(w)[1].msg \in Msgs
    BY <1>3, InHand DEF GivingUp, Delivery
  <2>2. DeadKey(w) \in Keys
    BY <2>1, CommandAssumption DEF DeadKey
  <2>3. write' = [write EXCEPT ![DeadKey(w)] = [status |-> "DEAD", msg |-> Batch(w)[1].msg]]
        /\ UNCHANGED <<message, nextSeq, lastMessageAt, outbox, fanned>>
    BY <1>3 DEF GivingUp
  <2>4. RowsTyped'
    BY <2>1, <2>2, <2>3 DEF RowsTyped, WriteStatus
  <2>5. ASSUME NEW k \in Keys
        PROVE  /\ write'[k].status # "PENDING"
               /\ write'[k].status # "NONE" => write'[k].msg \in Msgs
               /\ message[k].msg # NoMsg <=> write'[k].status \in {"PERSISTED", "FANOUTED"}
               /\ message[k].msg # NoMsg => message[k].msg = write'[k].msg
    <3>1. CASE k = DeadKey(w)
      <4>1. write'[k] = [status |-> "DEAD", msg |-> Batch(w)[1].msg]
        BY <2>2, <2>3, <3>1 DEF RowsTyped
      <4>2. message[k].msg = NoMsg
        BY <1>3, <3>1 DEF GivingUp, TablesAgree, Persisted
      <4>3. QED
        BY <2>1, <4>1, <4>2
    <3>2. CASE k # DeadKey(w)
      BY <2>3, <3>2 DEF RowsTyped, WritesAreSettled, TablesAgree, Persisted
    <3>3. QED
      BY <3>1, <3>2
  <2>6. QED
    BY <2>3, <2>4, <2>5 DEF WritesAreSettled, TablesAgree, Persisted
<1>4. ASSUME NEW w \in Workers, Publishing(w) PROVE Tables'
  BY <1>4 DEF Publishing, rows, DrainsTyped, RowsTyped, WritesAreSettled, TablesAgree, Persisted
<1>5. ASSUME NEW w \in Workers, Settling(w) PROVE Tables'
  <2>1. /\ outbox' = [k \in Keys |-> IF k \in current[w]
                                    THEN [status |-> "PUBLISHED", due |-> FALSE]
                                    ELSE outbox[k]]
        /\ write' = [k \in Keys |-> IF k \in current[w] /\ write[k].status = "PERSISTED"
                              THEN [write[k] EXCEPT !.status = "FANOUTED"]
                              ELSE write[k]]
        /\ UNCHANGED <<message, nextSeq, lastMessageAt, fanned>>
    BY <1>5 DEF Settling, Settled
  <2>2. \A k \in Keys : k \in current[w] => Persisted(k)
    BY DEF DrainsArePersisted
  <2>3. RowsTyped'
    BY <2>1 DEF RowsTyped, WriteStatus, OutboxStatus
  <2>4. WritesAreSettled'
    BY <2>1 DEF WritesAreSettled, RowsTyped
  <2>5. TablesAgree'
    BY <2>1, <2>2 DEF TablesAgree, Persisted, RowsTyped
  <2>6. QED
    BY <2>3, <2>4, <2>5
<1>6. ASSUME NEW w \in Workers,
             outbox' = [k \in Keys |-> IF k \in current[w]
                                       THEN [status |-> "FAILED", due |-> FALSE]
                                       ELSE outbox[k]],
             UNCHANGED <<rows, fanned>>
      PROVE  Tables'
  <2>1. \A k \in Keys : k \in current[w] => Persisted(k)
    BY DEF DrainsArePersisted
  <2>2. RowsTyped'
    BY <1>6 DEF rows, RowsTyped, OutboxStatus
  <2>3. WritesAreSettled' /\ TablesAgree'
    BY <1>6, <2>1 DEF rows, WritesAreSettled, TablesAgree, Persisted, RowsTyped
  <2>4. QED
    BY <2>2, <2>3
<1>7. ASSUME Claimed, UNCHANGED <<rows, fanned>> PROVE Tables'
  <2>1. \A k \in Claimable : outbox[k].status # "NONE"
    BY DEF WritesAreSettled, Claimable
  <2>2. RowsTyped'
    BY <1>7 DEF Claimed, rows, RowsTyped, OutboxStatus
  <2>3. WritesAreSettled' /\ TablesAgree'
    BY <1>7, <2>1 DEF Claimed, rows, WritesAreSettled, TablesAgree, Persisted, RowsTyped
  <2>4. QED
    BY <2>2, <2>3
<1>8. ASSUME NEW k \in Keys, outbox[k].status # "NONE", outbox' = [outbox EXCEPT ![k].due = TRUE],
             UNCHANGED <<rows, fanned>>
      PROVE  Tables'
  <2>1. /\ outbox' \in [Keys -> [status: OutboxStatus, due: BOOLEAN]]
        /\ outbox'[k].status = outbox[k].status
        /\ \A j \in Keys : j # k => outbox'[j] = outbox[j]
    <3>1. \A x \in [status: OutboxStatus, due: BOOLEAN] :
            [x EXCEPT !.due = TRUE] \in [status: OutboxStatus, due: BOOLEAN]
      OBVIOUS
    <3>2. \A x \in [status: OutboxStatus, due: BOOLEAN] : [x EXCEPT !.due = TRUE].status = x.status
      OBVIOUS
    <3>3. /\ outbox \in [Keys -> [status: OutboxStatus, due: BOOLEAN]]
          /\ outbox' = [outbox EXCEPT ![k] = [outbox[k] EXCEPT !.due = TRUE]]
      BY <1>8, Zenon DEF RowsTyped
    <3>4. PICK x \in [status: OutboxStatus, due: BOOLEAN] : x = [outbox[k] EXCEPT !.due = TRUE]
      BY <3>1, <3>3, Zenon
    <3>5. x.status = outbox[k].status /\ outbox' = [outbox EXCEPT ![k] = x]
      BY <3>2, <3>3, <3>4, Zenon
    <3>6. QED
      BY <3>3, <3>5
  <2>2. RowsTyped'
    BY <1>8, <2>1 DEF rows, RowsTyped
  <2>3. ASSUME NEW j \in Keys
        PROVE  /\ outbox'[j].status # "NONE" <=> outbox[j].status # "NONE"
               /\ outbox'[j].due => outbox'[j].status # "NONE"
    BY <1>8, <2>1 DEF WritesAreSettled
  <2>4. WritesAreSettled' /\ TablesAgree'
    BY <1>8, <2>3 DEF rows, WritesAreSettled, TablesAgree, Persisted
  <2>5. QED
    BY <2>2, <2>4
<1>9. QED
  BY <1>1, <1>2, <1>3, <1>4, <1>5, <1>6, <1>7, <1>8 DEF TableStep

(* A write row only moves forward, and stays the command it was.             *)
WritesMoveForward ==
  \A k \in Keys :
    write[k].status # "NONE" =>
      /\ write'[k].msg = write[k].msg
      /\ \/ write'[k].status = write[k].status
         \/ write[k].status = "PERSISTED" /\ write'[k].status = "FANOUTED"

LEMMA RowsMoveForward ==
  ASSUME Control, Tables, TableStep
  PROVE  WritesMoveForward /\ fanned \subseteq fanned'
<1> USE DEF Tables
<1>1. ASSUME NEW w \in Workers, Committing(w) PROVE WritesMoveForward /\ fanned \subseteq fanned'
  <2>1. Batch(w) \in Seq(Delivery)
    BY <1>1, InHand DEF Committing
  <2>2. \A k \in Keys : write[k].status # "NONE" => write'[k] = write[k]
    BY <1>1, <2>1, CommitRows DEF Committing
  <2>3. QED
    BY <1>1, <2>2 DEF Committing, WritesMoveForward
<1>2. ASSUME NEW w \in Workers, GivingUp(w) PROVE WritesMoveForward /\ fanned \subseteq fanned'
  BY <1>2 DEF GivingUp, WritesMoveForward, RowsTyped
<1>3. ASSUME NEW w \in Workers, Settling(w) PROVE WritesMoveForward /\ fanned \subseteq fanned'
  BY <1>3 DEF Settling, Settled, WritesMoveForward, RowsTyped
<1>4. ASSUME NEW w \in Workers, Publishing(w) PROVE WritesMoveForward /\ fanned \subseteq fanned'
  BY <1>4 DEF Publishing, rows, WritesMoveForward
<1>5. ASSUME UNCHANGED <<rows, fanned>> PROVE WritesMoveForward /\ fanned \subseteq fanned'
  BY <1>5 DEF rows, WritesMoveForward
<1>6. QED
  BY <1>1, <1>2, <1>3, <1>4, <1>5 DEF TableStep

(* A message stays, as it was inserted.                                      *)
LEMMA MessagesStay ==
  ASSUME Control, Tables, TableStep
  PROVE  \A k \in Keys : Persisted(k) => message'[k] = message[k]
<1>1. ASSUME NEW w \in Workers, Committing(w)
      PROVE  \A k \in Keys : Persisted(k) => message'[k] = message[k]
  <2>1. Batch(w) \in Seq(Delivery)
    BY <1>1, InHand DEF Committing
  <2>2. QED
    BY <1>1, <2>1, CommitRows DEF Committing, Tables
<1>2. QED
  BY <1>1 DEF TableStep, GivingUp, Publishing, Settling, rows

(* Claims, publishes and settlements stay with rows of messages.             *)
LEMMA DrainsKept ==
  ASSUME Control, BrokerTyped, Tables, DrainsTyped, DrainsArePersisted, [Next]_vars
  PROVE  DrainsTyped' /\ DrainsArePersisted'
<1> DEFINE P == {k \in Keys : Persisted(k)}
<1>1. \A k \in Keys : Persisted(k) => Persisted(k)'
  BY StepsOfTables, MessagesStay DEF Tables, Persisted
<1>2. fanned \subseteq fanned'
  BY StepsOfTables, RowsMoveForward DEF Tables
<1>3. P \subseteq P'
  BY <1>1
<1>4. Claimable \subseteq P /\ Claimable \subseteq Keys
  BY DEF Claimable, Tables, WritesAreSettled, TablesAgree
<1> HIDE DEF P
<1>5. ASSUME NEW w \in Workers, NEW C \in SUBSET P, NEW D \in SUBSET P,
             claimed' = [claimed EXCEPT ![w] = C], current' = [current EXCEPT ![w] = D],
             NEW s, pc' = [pc EXCEPT ![w] = s], s = "settle" => D \subseteq fanned'
      PROVE  DrainsTyped' /\ DrainsArePersisted'
  <2>1. P \subseteq Keys
    BY DEF P
  <2>2. DrainsTyped'
    BY <1>5, <2>1 DEF DrainsTyped
  <2>3. \A v \in Workers : claimed[v] \cup current[v] \subseteq P
    BY DEF P, DrainsArePersisted
  <2>4. ASSUME NEW v \in Workers
        PROVE  /\ claimed'[v] \cup current'[v] \subseteq P'
               /\ pc'[v] = "settle" => current'[v] \subseteq fanned'
    <3>1. CASE v = w
      BY <1>3, <1>5, <3>1 DEF DrainsTyped, Control, ControlTyped
    <3>2. CASE v # w
      <4>1. claimed'[v] = claimed[v] /\ current'[v] = current[v] /\ pc'[v] = pc[v]
        BY <1>5, <3>2 DEF DrainsTyped, Control, ControlTyped
      <4>2. pc[v] = "settle" => current[v] \subseteq fanned
        BY DEF DrainsArePersisted
      <4>3. QED
        BY <1>2, <1>3, <2>3, <4>1, <4>2
    <3>3. QED
      BY <3>1, <3>2
  <2>5. QED
    BY <2>2, <2>4 DEF DrainsArePersisted, P
<1>6. ASSUME UNCHANGED <<claimed, current>>,
             \A v \in Workers : pc'[v] = "settle" => pc[v] = "settle"
      PROVE  DrainsTyped' /\ DrainsArePersisted'
  BY <1>1, <1>2, <1>6 DEF DrainsTyped, DrainsArePersisted
<1>7. ASSUME NEW w \in Workers, UNCHANGED <<claimed, current>>, NEW s, s # "settle",
             pc' = [pc EXCEPT ![w] = s]
      PROVE  DrainsTyped' /\ DrainsArePersisted'
  BY <1>6, <1>7 DEF Control, ControlTyped
<1>8. \A w \in Workers : claimed[w] \subseteq P /\ current[w] \subseteq P
  BY DEF P, DrainsArePersisted
<1>9. ASSUME NEW m \in Msgs, AckWaitExpires(m) PROVE DrainsTyped' /\ DrainsArePersisted'
  BY <1>6, <1>9 DEF AckWaitExpires, worker
<1>10. ASSUME NEW k \in Keys, OutboxTimeElapses(k) PROVE DrainsTyped' /\ DrainsArePersisted'
  BY <1>6, <1>10 DEF OutboxTimeElapses, worker
<1>11. ASSUME UNCHANGED vars PROVE DrainsTyped' /\ DrainsArePersisted'
  BY <1>6, <1>11 DEF vars, worker
<1>12. ASSUME Crash PROVE DrainsTyped' /\ DrainsArePersisted'
  BY <1>12 DEF Crash, DrainsTyped, DrainsArePersisted
<1>13. ASSUME NEW w \in Workers, Work(w) PROVE DrainsTyped' /\ DrainsArePersisted'
  <2>1. ASSUME \/ ReceiveBatch(w) \/ Process(w) \/ FindDead(w) \/ MarkDead(w) \/ CreateDead(w)
               \/ DeadLetterFails(w) \/ ProcessConflict(w) \/ ProcessFails(w) \/ ClaimFails(w)
               \/ AckBatch(w) \/ AckLost(w) \/ AckThrows(w)
        PROVE  UNCHANGED <<claimed, current>> /\ \E s : s # "settle" /\ pc' = [pc EXCEPT ![w] = s]
    <3>1. ASSUME \/ ReceiveBatch(w) \/ Process(w) \/ FindDead(w) \/ MarkDead(w) \/ CreateDead(w)
                 \/ DeadLetterFails(w)
          PROVE UNCHANGED <<claimed, current>> /\ \E s : s # "settle" /\ pc' = [pc EXCEPT ![w] = s]
      BY <3>1 DEF ReceiveBatch, Process, FindDead, MarkDead, CreateDead, DeadLetterFails, Goto,
        AfterProcess
    <3>2. ASSUME ProcessConflict(w) \/ ProcessFails(w) \/ ClaimFails(w) \/ AckThrows(w)
          PROVE UNCHANGED <<claimed, current>> /\ \E s : s # "settle" /\ pc' = [pc EXCEPT ![w] = s]
      BY <3>2 DEF ProcessConflict, ProcessFails, ClaimFails, AckThrows, ProcessThrows, DrainThrows,
        Nak, SplitOrSingle, Return, Goto
    <3>3. ASSUME AckBatch(w) \/ AckLost(w)
          PROVE UNCHANGED <<claimed, current>> /\ \E s : s # "settle" /\ pc' = [pc EXCEPT ![w] = s]
      BY <3>3 DEF AckBatch, AckLost, Return, Goto
    <3>4. QED
      BY <2>1, <3>1, <3>2, <3>3
  <2>2. ASSUME ClaimOutbox(w) PROVE DrainsTyped' /\ DrainsArePersisted'
    <3>1. current' = [current EXCEPT ![w] = current[w]]
      BY <2>2 DEF ClaimOutbox, DrainsTyped
    <3>2. PICK s : s # "settle" /\ pc' = [pc EXCEPT ![w] = s]
      BY <2>2 DEF ClaimOutbox, Goto
    <3>3. claimed' = [claimed EXCEPT ![w] = Claimable] /\ current[w] \in SUBSET P
      BY <1>8, <2>2 DEF ClaimOutbox
    <3>4. Claimable \in SUBSET P
      BY <1>4
    <3>5. QED
      BY <1>5, <3>1, <3>2, <3>3, <3>4
  <2>3. ASSUME PublishRow(w) \/ PublishFails(w) PROVE DrainsTyped' /\ DrainsArePersisted'
    <3>1. claimed' = [claimed EXCEPT ![w] = claimed[w]]
      BY <2>3 DEF PublishRow, PublishFails, DrainsTyped
    <3>2. PICK k \in claimed[w] : /\ current' = [current EXCEPT ![w] = {k}]
                                  /\ PublishRow(w) => fanned' = fanned \cup {k}
      BY <2>3 DEF PublishRow, PublishFails
    <3>3. PICK s : pc' = [pc EXCEPT ![w] = s] /\ (s = "settle" => PublishRow(w))
      BY <2>3 DEF PublishRow, PublishFails, Goto
    <3>4. {k} \in SUBSET P /\ claimed[w] \in SUBSET P
      BY <1>8
    <3>5. s = "settle" => {k} \subseteq fanned'
      BY <3>2, <3>3
    <3>6. QED
      BY <1>5, <3>1, <3>2, <3>3, <3>4, <3>5
  <2>4. ASSUME NextRow(w) PROVE DrainsTyped' /\ DrainsArePersisted'
    <3>1. /\ claimed' = [claimed EXCEPT ![w] = claimed[w] \ current[w]]
          /\ current' = [current EXCEPT ![w] = {}]
      BY <2>4 DEF NextRow
    <3>2. PICK s : s # "settle" /\ pc' = [pc EXCEPT ![w] = s]
      <4>1. pc' = [pc EXCEPT ![w] = "ack"] \/ pc' = [pc EXCEPT ![w] = "publish"]
        BY <2>4 DEF NextRow, Goto
      <4>2. QED
        BY <4>1, Zenon
    <3>3. claimed[w] \ current[w] \in SUBSET P /\ {} \in SUBSET P
      BY <1>8
    <3>4. QED
      BY <1>5, <3>1, <3>2, <3>3
  <2>5. ASSUME SettleRow(w) \/ MarkOutboxFailed(w) PROVE NextRow(w)
    BY <2>5 DEF SettleRow, MarkOutboxFailed
  <2>6. ASSUME SettleFails(w)
        PROVE  UNCHANGED <<claimed, current>> /\ \E s : s # "settle" /\ pc' = [pc EXCEPT ![w] = s]
    BY <2>6 DEF SettleFails, Goto
  <2>7. ASSUME MarkOutboxFailedFails(w) PROVE DrainsTyped' /\ DrainsArePersisted'
    <3>1. PICK s : s # "settle" /\ pc' = [pc EXCEPT ![w] = s]
      BY <2>7 DEF MarkOutboxFailedFails, DrainThrows, Nak, SplitOrSingle, Return, Goto
    <3>2. {} \in SUBSET P /\ claimed' = [claimed EXCEPT ![w] = {}] /\ current' = [current EXCEPT ![w] = {}]
      BY <2>7 DEF MarkOutboxFailedFails
    <3>3. QED
      BY <1>5, <3>1, <3>2
  <2>8. QED
    BY <1>7, <1>13, <2>1, <2>2, <2>3, <2>4, <2>5, <2>6, <2>7 DEF Work
<1>14. QED
  BY <1>9, <1>10, <1>11, <1>12, <1>13 DEF Next

-----------------------------------------------------------------------------
(* A row FANOUTED before the event went out, or lost to the drain, never     *)
(* comes about: settling follows publishing.                                 *)
LEMMA FanoutKept ==
  ASSUME Control, Tables, DrainsArePersisted, FanoutIsTruthful, TableStep
  PROVE  FanoutIsTruthful'
<1> USE DEF Tables
<1>1. fanned \subseteq fanned'
  BY RowsMoveForward
<1>2. ASSUME UNCHANGED <<write, outbox>> PROVE FanoutIsTruthful'
  BY <1>1, <1>2 DEF FanoutIsTruthful
<1>3. ASSUME NEW w \in Workers, Committing(w) PROVE FanoutIsTruthful'
  <2>1. Batch(w) \in Seq(Delivery)
    BY <1>3, InHand DEF Committing
  <2>2. ASSUME NEW k \in Keys
        PROVE  \/ write'[k] = write[k] /\ outbox'[k] = outbox[k]
               \/ write'[k].status = "PERSISTED" /\ outbox'[k].status = "PENDING"
    <3>1. Commit(Batch(w))
      BY <1>3 DEF Committing
    <3>2. \/ write'[k] = write[k] /\ outbox'[k] = outbox[k]
          \/ /\ write'[k] = [status |-> "PERSISTED", msg |-> FirstOf(Batch(w), k)]
             /\ outbox'[k] = [status |-> "PENDING", due |-> TRUE]
      BY <2>1, <3>1, CommitRows
    <3>3. QED
      BY <3>2
  <2>3. QED
    BY <1>1, <2>2 DEF FanoutIsTruthful
<1>4. ASSUME NEW w \in Workers, GivingUp(w) PROVE FanoutIsTruthful'
  <2>1. ASSUME NEW k \in Keys
        PROVE  outbox' = outbox /\ (write'[k] = write[k] \/ write'[k].status = "DEAD")
    BY <1>4 DEF GivingUp, RowsTyped
  <2>2. QED
    BY <1>1, <2>1 DEF FanoutIsTruthful
<1>5. ASSUME NEW w \in Workers, Settling(w) PROVE FanoutIsTruthful'
  <2>1. current[w] \subseteq fanned /\ fanned' = fanned
    BY <1>5 DEF Settling, DrainsArePersisted
  <2>2. /\ outbox' = [k \in Keys |-> IF k \in current[w]
                                    THEN [status |-> "PUBLISHED", due |-> FALSE]
                                    ELSE outbox[k]]
        /\ write' = [k \in Keys |-> IF k \in current[w] /\ write[k].status = "PERSISTED"
                              THEN [write[k] EXCEPT !.status = "FANOUTED"]
                              ELSE write[k]]
    BY <1>5 DEF Settling, Settled
  <2>3. ASSUME NEW k \in Keys, k \in current[w]
        PROVE  write'[k].status # "PERSISTED" /\ k \in fanned'
    BY <2>1, <2>2, <2>3 DEF RowsTyped
  <2>4. ASSUME NEW k \in Keys, k \notin current[w]
        PROVE  write'[k] = write[k] /\ outbox'[k] = outbox[k]
    BY <2>2, <2>4
  <2>5. QED
    BY <1>1, <2>3, <2>4 DEF FanoutIsTruthful
<1>6. ASSUME NEW w \in Workers,
             outbox' = [k \in Keys |-> IF k \in current[w]
                                       THEN [status |-> "FAILED", due |-> FALSE]
                                       ELSE outbox[k]],
             UNCHANGED <<rows, fanned>>
      PROVE  FanoutIsTruthful'
  BY <1>6 DEF FanoutIsTruthful, rows
<1>7. ASSUME Claimed, UNCHANGED <<rows, fanned>> PROVE FanoutIsTruthful'
  BY <1>7 DEF Claimed, FanoutIsTruthful, rows
<1>8. ASSUME NEW k \in Keys, outbox' = [outbox EXCEPT ![k].due = TRUE], UNCHANGED <<rows, fanned>>
      PROVE  FanoutIsTruthful'
  <2>1. outbox' = [outbox EXCEPT ![k] = [outbox[k] EXCEPT !.due = TRUE]]
    BY <1>8, Zenon
  <2>2. \A x \in [status: OutboxStatus, due: BOOLEAN] : [x EXCEPT !.due = TRUE].status = x.status
    OBVIOUS
  <2>3. \A j \in Keys : outbox'[j].status = outbox[j].status
    BY <2>1, <2>2, Zenon DEF RowsTyped
  <2>4. QED
    BY <1>8, <2>3 DEF FanoutIsTruthful, rows
<1>9. QED
  BY <1>2, <1>3, <1>4, <1>5, <1>6, <1>7, <1>8 DEF TableStep, Publishing, rows

(* Only the last delivery of a command writes a DEAD row.                    *)
LEMMA DeadKept ==
  ASSUME Control, BrokerTyped, BrokerTyped', Tables, DeadOnlyAfterMaxDeliver, TableStep, CountsGrow
  PROVE  DeadOnlyAfterMaxDeliver'
<1> USE DEF Tables
<1>1. MaxDeliver \in Nat /\ \A m \in Msgs : /\ attempts[m] \in 0..MaxDeliver
                                            /\ attempts'[m] \in 0..MaxDeliver
                                            /\ attempts[m] <= attempts'[m]
  BY LimitAssumption DEF BrokerTyped, CountsGrow
<1>2. \A m \in Msgs : attempts[m] >= MaxDeliver => attempts'[m] = MaxDeliver
  BY <1>1
<1>3. SUFFICES ASSUME NEW k \in Keys, write'[k].status = "DEAD"
               PROVE  attempts'[write'[k].msg] = MaxDeliver
  BY DEF DeadOnlyAfterMaxDeliver
<1>4. CASE write[k].status # "NONE"
  <2>1. write'[k].msg = write[k].msg /\ write[k].status = "DEAD"
    BY <1>3, <1>4, RowsMoveForward DEF WritesMoveForward
  <2>2. write[k].msg \in Msgs /\ attempts[write[k].msg] = MaxDeliver
    BY <2>1 DEF WritesAreSettled, DeadOnlyAfterMaxDeliver
  <2>3. QED
    BY <1>1, <1>2, <2>1, <2>2
<1>5. ASSUME NEW w \in Workers, Committing(w), write[k].status = "NONE" PROVE FALSE
  <2>1. Batch(w) \in Seq(Delivery)
    BY <1>5, InHand DEF Committing
  <2>2. write'[k] = write[k] \/ write'[k].status = "PERSISTED"
    <3>1. Commit(Batch(w))
      BY <1>5 DEF Committing
    <3>2. \/ write'[k] = write[k]
          \/ write'[k] = [status |-> "PERSISTED", msg |-> FirstOf(Batch(w), k)]
      BY <2>1, <3>1, CommitRows
    <3>3. QED
      BY <3>2
  <2>3. QED
    BY <1>3, <1>5, <2>2
<1>6. ASSUME NEW w \in Workers, GivingUp(w), write[k].status = "NONE"
      PROVE  attempts'[write'[k].msg] = MaxDeliver
  <2>1. write'[k] = [status |-> "DEAD", msg |-> Batch(w)[1].msg]
    BY <1>3, <1>6 DEF GivingUp, RowsTyped
  <2>2. pc[w] # "idle" /\ Batch(w)[1].attempt >= MaxDeliver
    BY <1>6 DEF GivingUp, Control, WorkersAreInStep, DeadSteps
  <2>3. /\ 1 \in 1..Len(Batch(w)) /\ Batch(w)[1] \in Delivery
        /\ Batch(w)[1].attempt <= attempts[Batch(w)[1].msg]
    BY <2>2, InHand
  <2>4. Batch(w)[1].msg \in Msgs /\ Batch(w)[1].attempt \in Nat
    BY <1>1, <2>3 DEF Delivery
  <2>5. attempts[Batch(w)[1].msg] >= MaxDeliver
    BY <1>1, <2>2, <2>3, <2>4
  <2>6. QED
    BY <1>2, <2>1, <2>4, <2>5
<1>7. ASSUME write' = write, write[k].status = "NONE" PROVE FALSE
  BY <1>3, <1>7
<1>8. ASSUME NEW w \in Workers, Settling(w), write[k].status = "NONE" PROVE FALSE
  BY <1>3, <1>8 DEF Settling, Settled, RowsTyped
<1>9. QED
  BY <1>4, <1>5, <1>6, <1>7, <1>8 DEF TableStep, Publishing, rows

-----------------------------------------------------------------------------
(* The steps after processMessageWriteCommands came back, or gave up.        *)
Handled == {"claim", "publish", "settle", "markFailed", "ack"}

(* Unless its deliveries are used up, the command of m has a row.            *)
Recorded(m) ==
  attempts[m] < MaxDeliver =>
    /\ write[Cmd[m].key].status # "NONE"
    /\ SameCommand(write[Cmd[m].key].msg, m)

(* A worker only drains and acknowledges what is in the tables.              *)
HandledIsRecorded ==
  \A w \in Workers : pc[w] \in Handled => \A m \in MsgsOf(Batch(w)) : Recorded(m)

LEMMA RecordedStays ==
  ASSUME Control, BrokerTyped, BrokerTyped', CountsGrow, WritesMoveForward, NEW m \in Msgs, Recorded(m)
  PROVE  Recorded(m)'
<1>1. MaxDeliver \in Nat /\ attempts[m] \in Nat /\ attempts'[m] \in Nat
  BY LimitAssumption DEF BrokerTyped
<1>2. Cmd[m].key \in Keys
  BY CommandAssumption
<1>3. attempts'[m] < MaxDeliver => attempts[m] < MaxDeliver
  BY <1>1 DEF CountsGrow
<1>4. write[Cmd[m].key].status # "NONE" =>
        /\ write'[Cmd[m].key].msg = write[Cmd[m].key].msg
        /\ write'[Cmd[m].key].status # "NONE"
  BY <1>2 DEF WritesMoveForward
<1>5. QED
  BY <1>3, <1>4 DEF Recorded, SameCommand

(* A committed batch has left a row with the content of every command.       *)
LEMMA CommitRecords ==
  ASSUME Tables, NEW b \in Seq(Delivery), ~Conflicting(b), Commit(b), NEW m \in MsgsOf(b)
  PROVE  /\ write'[Cmd[m].key].status # "NONE"
         /\ SameCommand(write'[Cmd[m].key].msg, m)
<1> USE DEF Tables
<1>1. m \in Msgs /\ Cmd[m].key \in KeysOf(b) /\ Cmd[m].key \in Keys
  BY BatchKeys DEF KeysOf
<1>2. CASE Cmd[m].key \in Candidates(b)
  <2>1. write'[Cmd[m].key] = [status |-> "PERSISTED", msg |-> FirstOf(b, Cmd[m].key)]
    BY <1>1, <1>2, CommitRows
  <2>2. FirstOf(b, Cmd[m].key) \in MsgsOf(b) /\ Cmd[FirstOf(b, Cmd[m].key)].key = Cmd[m].key
    BY <1>1, FirstIsThere
  <2>3. SameCommand(FirstOf(b, Cmd[m].key), m)
    BY <2>2 DEF Conflicting
  <2>4. QED
    BY <2>1, <2>3
<1>3. CASE Cmd[m].key \notin Candidates(b)
  <2>1. write'[Cmd[m].key] = write[Cmd[m].key] /\ write[Cmd[m].key].status # "NONE"
    BY <1>1, <1>3, CommitRows
  <2>2. QED
    BY <2>1 DEF Conflicting
<1>4. QED
  BY <1>2, <1>3

(* The other workers stay where they are.                                    *)
LEMMA OthersWait ==
  ASSUME Control, NEW w \in Workers, Work(w), NEW v \in Workers, v # w
  PROVE  pc'[v] = pc[v] /\ todo'[v] = todo[v]
<1> USE DEF Control, ControlTyped, Goto
<1>1. ASSUME \/ ReceiveBatch(w) \/ Process(w) \/ FindDead(w) \/ MarkDead(w) \/ CreateDead(w)
             \/ DeadLetterFails(w) \/ ClaimOutbox(w) \/ PublishRow(w) \/ PublishFails(w)
             \/ SettleRow(w) \/ SettleFails(w) \/ MarkOutboxFailed(w)
      PROVE  pc'[v] = pc[v] /\ todo'[v] = todo[v]
  BY <1>1 DEF ReceiveBatch, Process, FindDead, MarkDead, CreateDead, DeadLetterFails, ClaimOutbox,
    PublishRow, PublishFails, SettleRow, SettleFails, MarkOutboxFailed, NextRow
<1>2. ASSUME DrainThrows(w) PROVE pc'[v] = pc[v] /\ todo'[v] = todo[v]
  BY <1>2 DEF DrainThrows, Nak, SplitOrSingle, Return
<1>3. ASSUME \/ ProcessConflict(w) \/ ProcessFails(w) \/ ClaimFails(w) \/ MarkOutboxFailedFails(w)
             \/ AckThrows(w)
      PROVE  pc'[v] = pc[v] /\ todo'[v] = todo[v]
  BY <1>2, <1>3 DEF ProcessConflict, ProcessFails, ClaimFails, MarkOutboxFailedFails, AckThrows,
    ProcessThrows
<1>4. ASSUME AckBatch(w) \/ AckLost(w) PROVE pc'[v] = pc[v] /\ todo'[v] = todo[v]
  BY <1>4 DEF AckBatch, AckLost, Return
<1>5. QED
  BY <1>1, <1>3, <1>4 DEF Work

(* A worker comes to drain by having processed or given up, or was there.    *)
LEMMA HandledComesFrom ==
  ASSUME Control, NEW w \in Workers, Work(w), pc'[w] \in Handled
  PROVE  /\ todo'[w] = todo[w]
         /\ pc[w] \in Handled \/ Process(w) \/ pc[w] \in DeadSteps
<1> USE DEF Control, ControlTyped, Goto, Handled, DeadSteps
<1>1. ASSUME \/ Process(w) \/ FindDead(w) \/ MarkDead(w) \/ CreateDead(w)
             \/ DeadLetterFails(w) \/ ClaimOutbox(w) \/ PublishRow(w) \/ PublishFails(w)
             \/ SettleRow(w) \/ SettleFails(w) \/ MarkOutboxFailed(w)
      PROVE  /\ todo'[w] = todo[w]
             /\ pc[w] \in Handled \/ Process(w) \/ pc[w] \in DeadSteps
  BY <1>1 DEF Process, FindDead, MarkDead, CreateDead, DeadLetterFails, ClaimOutbox,
    PublishRow, PublishFails, SettleRow, SettleFails, MarkOutboxFailed, NextRow
<1>2. ASSUME DrainThrows(w) \/ ProcessThrows(w) PROVE FALSE
  BY <1>2 DEF ProcessThrows, DrainThrows, Nak, SplitOrSingle, Return
<1>3. ASSUME \/ ProcessConflict(w) \/ ProcessFails(w) \/ ClaimFails(w) \/ MarkOutboxFailedFails(w)
             \/ AckThrows(w)
      PROVE  FALSE
  BY <1>2, <1>3 DEF ProcessConflict, ProcessFails, ClaimFails, MarkOutboxFailedFails, AckThrows
<1>4. ASSUME AckBatch(w) \/ AckLost(w) \/ ReceiveBatch(w) PROVE FALSE
  BY <1>4 DEF AckBatch, AckLost, Return, ReceiveBatch
<1>5. QED
  BY <1>1, <1>3, <1>4 DEF Work

LEMMA RecordsKept ==
  ASSUME Control, BrokerTyped, BrokerTyped', CountsGrow, Tables, TableStep, [Next]_vars,
         HandledIsRecorded, EarlyAckIsRecorded
  PROVE  HandledIsRecorded' /\ EarlyAckIsRecorded'
<1>1. \A m \in Msgs : Recorded(m) => Recorded(m)'
  BY RecordedStays, RowsMoveForward
<1>2. \A w \in Workers : pc[w] # "idle" => MsgsOf(Batch(w)) \subseteq Msgs
  BY InHand
<1>3. \A m \in acked : m \in Msgs /\ Recorded(m)
  BY DEF BrokerTyped, EarlyAckIsRecorded, Recorded
<1>4. HandledIsRecorded'
  <2>1. SUFFICES ASSUME NEW v \in Workers, pc'[v] \in Handled, NEW m \in MsgsOf(Head(todo'[v]))
                 PROVE  Recorded(m)'
    BY DEF HandledIsRecorded, Batch, MsgsOf
  <2>2. ASSUME todo'[v] = todo[v], pc[v] \in Handled PROVE Recorded(m)'
    <3>1. m \in MsgsOf(Batch(v)) /\ pc[v] # "idle"
      BY <2>1, <2>2 DEF Batch, Handled
    <3>2. QED
      BY <1>1, <1>2, <2>2, <3>1 DEF HandledIsRecorded
  <2>3. CASE \E w \in Workers : Work(w) /\ w # v
    BY <2>1, <2>2, <2>3, OthersWait
  <2>4. CASE Work(v)
    <3>1. /\ todo'[v] = todo[v]
          /\ pc[v] \in Handled \/ Process(v) \/ pc[v] \in DeadSteps
      BY <2>1, <2>4, HandledComesFrom
    <3>2. m \in MsgsOf(Batch(v))
      BY <2>1, <3>1 DEF Batch
    <3>3. ASSUME Process(v) PROVE Recorded(m)'
      <4>1. Batch(v) \in Seq(Delivery)
        BY <3>3, InHand DEF Process
      <4>2. ~Conflicting(Batch(v)) /\ Commit(Batch(v))
        BY <3>3 DEF Process
      <4>3. /\ write'[Cmd[m].key].status # "NONE"
            /\ SameCommand(write'[Cmd[m].key].msg, m)
        BY <3>2, <4>1, <4>2, CommitRecords
      <4>4. QED
        BY <4>3 DEF Recorded, SameCommand
    <3>4. ASSUME pc[v] \in DeadSteps PROVE Recorded(m)'
      <4>1. /\ pc[v] # "idle" /\ Len(Batch(v)) = 1 /\ Batch(v)[1].attempt >= MaxDeliver
        BY <3>4 DEF Control, WorkersAreInStep, DeadSteps
      <4>2. /\ MsgsOf(Batch(v)) = {Batch(v)[j].msg : j \in 1..Len(Batch(v))}
            /\ Batch(v)[1] \in Delivery /\ Batch(v)[1].attempt <= attempts[Batch(v)[1].msg]
        BY <4>1, InHand
      <4>3. m = Batch(v)[1].msg /\ m \in Msgs
        BY <3>2, <4>1, <4>2 DEF Delivery
      <4>4. MaxDeliver \in Nat /\ attempts[m] \in Nat /\ Batch(v)[1].attempt \in Nat
        BY <4>2, <4>3, LimitAssumption DEF BrokerTyped, Delivery
      <4>5. ~ (attempts[m] < MaxDeliver)
        BY <4>1, <4>2, <4>3, <4>4
      <4>6. Recorded(m)
        BY <4>5 DEF Recorded
      <4>7. QED
        BY <1>1, <4>3, <4>6
    <3>5. QED
      BY <2>2, <3>1, <3>3, <3>4
  <2>5. CASE \/ \E n \in Msgs : AckWaitExpires(n)
             \/ \E k \in Keys : OutboxTimeElapses(k)
             \/ UNCHANGED vars
    BY <2>1, <2>2, <2>5 DEF AckWaitExpires, OutboxTimeElapses, vars, worker
  <2>6. CASE Crash
    BY <2>1, <2>6 DEF Crash, Handled
  <2>7. QED
    <3>1. \/ \E n \in Msgs : AckWaitExpires(n)
          \/ \E w \in Workers : Work(w)
          \/ \E k \in Keys : OutboxTimeElapses(k)
          \/ Crash
          \/ UNCHANGED vars
      BY DEF Next
    <3>2. (\E w \in Workers : Work(w)) => Work(v) \/ \E w \in Workers : Work(w) /\ w # v
      OBVIOUS
    <3>3. QED
      BY <2>3, <2>4, <2>5, <2>6, <3>1, <3>2, Zenon
<1>5. \A m \in acked' : m \in acked \/ \E w \in Workers : pc[w] = "ack" /\ m \in MsgsOf(Batch(w))
  BY DEF Next, vars, broker, worker, Work, AckWaitExpires, OutboxTimeElapses, Crash, ReceiveBatch,
    Process, ProcessConflict, ProcessFails, FindDead, MarkDead, CreateDead,
    DeadLetterFails, ClaimOutbox, ClaimFails, PublishRow, PublishFails, SettleRow, SettleFails,
    MarkOutboxFailed, MarkOutboxFailedFails, AckBatch, AckLost, AckThrows, DrainThrows, Nak,
    SplitOrSingle, Return
<1>6. \A m \in acked' : m \in Msgs /\ Recorded(m)
  BY <1>2, <1>3, <1>5 DEF HandledIsRecorded, Handled
<1>7. \A m \in acked' : Recorded(m)'
  BY <1>1, <1>6
<1>8. EarlyAckIsRecorded'
  BY <1>7 DEF EarlyAckIsRecorded, Recorded
<1>9. QED
  BY <1>4, <1>8

-----------------------------------------------------------------------------
SequencesStart == \A r \in Rooms : nextSeq[r] >= 1

(* The messages of a room after a batch: those before it and the candidates. *)
LEMMA RoomsAfterCommit ==
  ASSUME Tables, NEW b \in Seq(Delivery), Commit(b), NEW r \in Rooms
  PROVE  /\ PersistedIn(r)' = PersistedIn(r) \cup CandidatesIn(b, r)
         /\ \A k \in PersistedIn(r) : message'[k] = message[k]
         /\ \A k \in CandidatesIn(b, r) :
              k \in Keys /\ message'[k].msg = FirstOf(b, k) /\ k \notin PersistedIn(r)
<1> USE DEF Tables
<1>1. CandidatesIn(b, r) = {k \in Candidates(b) : Cmd[FirstOf(b, k)].room = r}
  BY AcceptedOfBatch
<1>2. ASSUME NEW k \in Keys, k \in Candidates(b)
      PROVE  message'[k].msg = FirstOf(b, k) /\ FirstOf(b, k) # NoMsg /\ message[k].msg = NoMsg
  <2>1. message'[k].msg = FirstOf(b, k) /\ ~ Persisted(k)
    BY <1>2, CommitRows
  <2>2. FirstOf(b, k) \in Msgs
    BY <1>2, BatchKeys, FirstIsThere
  <2>3. QED
    BY <2>1, <2>2, CommandAssumption DEF Persisted
<1>3. ASSUME NEW k \in Keys, k \notin Candidates(b) PROVE message'[k] = message[k]
  BY <1>3, CommitRows
<1>4. Candidates(b) \subseteq Keys
  BY BatchKeys
<1>5. ASSUME NEW k \in Keys
      PROVE  (message'[k].msg # NoMsg /\ Cmd[message'[k].msg].room = r)
               <=> k \in PersistedIn(r) \cup CandidatesIn(b, r)
  <2>1. CASE k \in Candidates(b)
    BY <1>1, <1>2, <2>1 DEF PersistedIn, Persisted
  <2>2. CASE k \notin Candidates(b)
    BY <1>1, <1>3, <2>2 DEF PersistedIn, Persisted
  <2>3. QED
    BY <2>1, <2>2
<1>6. PersistedIn(r)' = {k \in Keys : message'[k].msg # NoMsg /\ Cmd[message'[k].msg].room = r}
  BY DEF PersistedIn, Persisted
<1>7. PersistedIn(r)' = PersistedIn(r) \cup CandidatesIn(b, r)
  BY <1>1, <1>4, <1>5, <1>6 DEF PersistedIn
<1>8. \A k \in PersistedIn(r) : message'[k] = message[k]
  BY <1>2, <1>3 DEF PersistedIn, Persisted
<1>9. QED
  BY <1>1, <1>2, <1>4, <1>7, <1>8 DEF PersistedIn, Persisted

(* ROW_NUMBER() over the locked rooms goes on where the room stopped.        *)
LEMMA CommitKeepsSequences ==
  ASSUME Tables, NEW b \in Seq(Delivery), Commit(b), SequencesStart, ContiguousSequences
  PROVE  SequencesStart' /\ ContiguousSequences'
<1> USE DEF Tables
<1>1. PICK offset \in RoomOffsets(b) :
        message' = [j \in Keys |->
          IF j \in Candidates(b)
          THEN [msg |-> InsertedWrite(b, j).msg,
                seq |-> nextSeq[Cmd[InsertedWrite(b, j).msg].room] + offset[j]]
          ELSE message[j]]
  BY DEF Commit, InsertMessages
<1>2. ASSUME NEW r \in Rooms
      PROVE  /\ nextSeq'[r] >= 1
             /\ {message'[k].seq : k \in PersistedIn(r)'} = 1..(nextSeq'[r] - 1)
             /\ \A j, k \in PersistedIn(r)' : message'[j].seq = message'[k].seq => j = k
  <2> DEFINE c == Cardinality(CandidatesIn(b, r))
  <2>1. c \in Nat /\ nextSeq[r] \in Nat /\ nextSeq[r] >= 1 /\ nextSeq'[r] = nextSeq[r] + c
    BY BatchKeys DEF SequencesStart, RowsTyped, Commit, AllocateSequences
  <2>2. /\ {offset[k] : k \in CandidatesIn(b, r)} = 0..(c - 1)
        /\ \A j, k \in CandidatesIn(b, r) : offset[j] = offset[k] => j = k
    BY <1>1 DEF RoomOffsets
  <2>3. \A k \in CandidatesIn(b, r) : message'[k].seq = nextSeq[r] + offset[k]
    <3>1. \A k \in CandidatesIn(b, r) :
            /\ k \in Keys /\ k \in Candidates(b)
            /\ Cmd[InsertedWrite(b, k).msg].room = r
      BY BatchKeys DEF CandidatesIn
    <3>2. QED
      BY <1>1, <3>1
  <2>4. /\ PersistedIn(r)' = PersistedIn(r) \cup CandidatesIn(b, r)
        /\ \A k \in PersistedIn(r) : message'[k].seq = message[k].seq
    BY RoomsAfterCommit
  <2>5. /\ {message[k].seq : k \in PersistedIn(r)} = 1..(nextSeq[r] - 1)
        /\ \A j, k \in PersistedIn(r) : message[j].seq = message[k].seq => j = k
    BY DEF ContiguousSequences
  <2> HIDE DEF c
  <2>6. PICK n \in Nat : n = nextSeq[r]
    BY <2>1
  <2>7. \A k \in PersistedIn(r) : message'[k].seq \in 1..(n - 1)
    BY <2>4, <2>5, <2>6
  <2>8. \A k \in CandidatesIn(b, r) : offset[k] \in 0..(c - 1) /\ message'[k].seq = n + offset[k]
    BY <2>2, <2>3, <2>6
  <2>9. \A k \in PersistedIn(r)' : message'[k].seq \in 1..(n + c - 1)
    BY <2>1, <2>4, <2>6, <2>7, <2>8
  <2>10. ASSUME NEW s \in 1..(n + c - 1) PROVE \E k \in PersistedIn(r)' : message'[k].seq = s
    <3>1. CASE s <= n - 1
      <4>1. s \in 1..(nextSeq[r] - 1)
        BY <2>6, <3>1
      <4>2. PICK k \in PersistedIn(r) : message[k].seq = s
        BY <2>5, <4>1
      <4>3. QED
        BY <2>4, <4>2
    <3>2. CASE s >= n
      <4>1. s - n \in 0..(c - 1)
        BY <2>1, <3>2
      <4>2. PICK k \in CandidatesIn(b, r) : offset[k] = s - n
        BY <2>2, <4>1
      <4>3. message'[k].seq = s
        BY <2>8, <4>2
      <4>4. QED
        BY <2>4, <4>2, <4>3
    <3>3. QED
      BY <2>1, <3>1, <3>2
  <2>11. nextSeq'[r] >= 1 /\ nextSeq'[r] - 1 = n + c - 1
    BY <2>1, <2>6
  <2>12. ASSUME NEW j \in PersistedIn(r)', NEW k \in PersistedIn(r)', message'[j].seq = message'[k].seq
         PROVE  j = k
    <3>1. CASE j \in PersistedIn(r) /\ k \in PersistedIn(r)
      BY <2>4, <2>5, <2>12, <3>1
    <3>2. CASE j \in CandidatesIn(b, r) /\ k \in CandidatesIn(b, r)
      <4>1. n + offset[j] = n + offset[k] /\ offset[j] \in Int /\ offset[k] \in Int
        BY <2>1, <2>8, <2>12, <3>2
      <4>2. offset[j] = offset[k]
        BY <4>1
      <4>3. QED
        BY <2>2, <3>2, <4>2
    <3>3. CASE j \in PersistedIn(r) /\ k \in CandidatesIn(b, r)
      BY <2>1, <2>7, <2>8, <2>12, <3>3
    <3>4. CASE k \in PersistedIn(r) /\ j \in CandidatesIn(b, r)
      BY <2>1, <2>7, <2>8, <2>12, <3>4
    <3>5. QED
      BY <2>4, <3>1, <3>2, <3>3, <3>4
  <2>13. {message'[k].seq : k \in PersistedIn(r)'} = 1..(n + c - 1)
    BY <2>9, <2>10
  <2>14. QED
    BY <2>11, <2>12, <2>13
<1>3. QED
  BY <1>2 DEF SequencesStart, ContiguousSequences

(* GREATEST(lastMessageAt, ...) stays the newest of all the room's messages. *)
LEMMA CommitKeepsLastMessageAt ==
  ASSUME Tables, NEW b \in Seq(Delivery), Commit(b), LastMessageAtIsNewest
  PROVE  LastMessageAtIsNewest'
<1> USE DEF Tables
<1>1. ASSUME NEW r \in Rooms
      PROVE  lastMessageAt'[r] =
               Latest({0} \cup {Cmd[message'[k].msg].acceptedAt : k \in PersistedIn(r)'})
  <2> DEFINE A == {Cmd[message[k].msg].acceptedAt : k \in PersistedIn(r)}
  <2> DEFINE B == AcceptedIn(b, r)
  <2> DEFINE x == Latest({lastMessageAt[r]} \cup B)
  <2>1. /\ B = {Cmd[FirstOf(b, k)].acceptedAt : k \in CandidatesIn(b, r)}
        /\ B \subseteq Nat /\ IsFiniteSet(B)
    BY AcceptedOfBatch
  <2>2. {Cmd[message'[k].msg].acceptedAt : k \in PersistedIn(r)'} = A \cup B
    BY <2>1, RoomsAfterCommit
  <2>3. \A k \in PersistedIn(r) : k \in Keys /\ Cmd[message[k].msg].acceptedAt \in Nat
    BY CommandAssumption DEF PersistedIn, Persisted, RowsTyped
  <2>4. A \subseteq Nat /\ IsFiniteSet(A)
    <3> DEFINE f == [k \in PersistedIn(r) |-> Cmd[message[k].msg].acceptedAt]
    <3>1. f \in [PersistedIn(r) -> Nat] /\ A = {f[k] : k \in PersistedIn(r)}
      BY <2>3
    <3>2. PersistedIn(r) \in SUBSET Keys
      BY <2>3
    <3>3. IsFiniteSet(PersistedIn(r))
      BY <3>2, CommandAssumption, FS_Subset
    <3> HIDE DEF f
    <3>4. IsFiniteSet({f[k] : k \in PersistedIn(r)})
      BY <3>1, <3>3, FiniteImage, Zenon
    <3>5. QED
      BY <2>3, <3>1, <3>4
  <2>5. lastMessageAt[r] = Latest({0} \cup A) /\ lastMessageAt'[r] = x
    BY DEF LastMessageAtIsNewest, Commit, UpdateRooms
  <2> HIDE DEF A, B
  <2>6. /\ lastMessageAt[r] \in {0} \cup A
        /\ \A u \in {0} \cup A : u <= lastMessageAt[r]
    <3>1. IsFiniteSet(A \cup {0}) /\ A \cup {0} = {0} \cup A
      BY <2>4, FS_AddElement
    <3>2. {0} \cup A \subseteq Nat /\ {0} \cup A # {}
      BY <2>4
    <3>3. QED
      BY <2>5, <3>1, <3>2, LatestIsGreatest
  <2>7. x \in {lastMessageAt[r]} \cup B /\ \A u \in {lastMessageAt[r]} \cup B : u <= x
    <3>1. IsFiniteSet(B \cup {lastMessageAt[r]}) /\ B \cup {lastMessageAt[r]} = {lastMessageAt[r]} \cup B
      BY <2>1, FS_AddElement
    <3>2. {lastMessageAt[r]} \cup B \subseteq Nat /\ {lastMessageAt[r]} \cup B # {}
      <4>1. lastMessageAt[r] \in Nat
        <5>1. {0} \cup A \subseteq Nat
          BY <2>4
        <5>2. QED
          BY <2>6, <5>1, Zenon
      <4>2. QED
        BY <2>1, <4>1
    <3>3. QED
      BY <3>1, <3>2, LatestIsGreatest
  <2> HIDE DEF x
  <2>8. {0} \cup A \subseteq Nat /\ B \subseteq Nat
    BY <2>1, <2>4
  <2>9. x \in {0} \cup (A \cup B) /\ x \in Nat
    BY <2>6, <2>7, <2>8
  <2>10. \A u \in {0} \cup (A \cup B) : u <= x
    <3>1. lastMessageAt[r] \in Nat /\ lastMessageAt[r] <= x
      BY <2>6, <2>7, <2>8
    <3>2. ASSUME NEW u \in {0} \cup A PROVE u <= x
      <4>1. u \in Nat /\ u <= lastMessageAt[r]
        BY <2>6, <2>8
      <4>2. QED
        BY <2>9, <3>1, <4>1
    <3>3. QED
      BY <2>7, <3>2
  <2>11. \A y, z \in Nat : y <= z /\ z <= y => y = z
    OBVIOUS
  <2>12. Latest({0} \cup (A \cup B)) = x
    <3>1. {0} \cup (A \cup B) \subseteq Nat
      BY <2>8
    <3>2. /\ Latest({0} \cup (A \cup B)) \in {0} \cup (A \cup B)
          /\ \A u \in {0} \cup (A \cup B) : u <= Latest({0} \cup (A \cup B))
      BY <2>9, <2>10 DEF Latest
    <3>3. QED
      BY <2>9, <2>10, <2>11, <3>1, <3>2, Zenon
  <2>13. QED
    BY <2>2, <2>5, <2>12
<1>2. QED
  BY <1>1 DEF LastMessageAtIsNewest

LEMMA RoomsKept ==
  ASSUME Control, Tables, TableStep, SequencesStart, ContiguousSequences, LastMessageAtIsNewest
  PROVE  SequencesStart' /\ ContiguousSequences' /\ LastMessageAtIsNewest'
<1>1. ASSUME NEW w \in Workers, Committing(w)
      PROVE  SequencesStart' /\ ContiguousSequences' /\ LastMessageAtIsNewest'
  <2>1. Batch(w) \in Seq(Delivery) /\ Commit(Batch(w))
    BY <1>1, InHand DEF Committing
  <2>2. QED
    BY <2>1, CommitKeepsSequences, CommitKeepsLastMessageAt
<1>2. ASSUME UNCHANGED <<message, nextSeq, lastMessageAt>>
      PROVE  SequencesStart' /\ ContiguousSequences' /\ LastMessageAtIsNewest'
  BY <1>2 DEF SequencesStart, ContiguousSequences, LastMessageAtIsNewest, PersistedIn, Persisted
<1>3. QED
  BY <1>1, <1>2 DEF TableStep, GivingUp, Publishing, Settling, rows

-----------------------------------------------------------------------------
(* The inductive invariant: the workers in step with their batches, the      *)
(* tables in agreement, the drains on rows of messages, and the properties   *)
(* themselves.                                                               *)
Invariant ==
  /\ Control /\ BrokerTyped
  /\ Tables
  /\ DrainsTyped /\ DrainsArePersisted
  /\ FanoutIsTruthful
  /\ DeadOnlyAfterMaxDeliver
  /\ HandledIsRecorded /\ EarlyAckIsRecorded
  /\ SequencesStart /\ ContiguousSequences
  /\ LastMessageAtIsNewest
  /\ faults \in Nat /\ crashes \in Nat

LEMMA InvariantInit == Init => Invariant
<1> SUFFICES ASSUME Init PROVE Invariant
  OBVIOUS
<1> USE DEF Init
<1>1. Control
  <2>1. << >> \in Seq(Seq(Delivery)) /\ Len(<< >>) = 0
    BY EmptySeq
  <2>2. QED
    BY <2>1 DEF Control, ControlTyped, WorkersAreInStep, GoodBatches, PCs, DeadSteps
<1>2. BrokerTyped /\ DrainsTyped /\ faults \in Nat /\ crashes \in Nat
  BY LimitAssumption DEF BrokerTyped, DrainsTyped
<1>3. Tables
  BY DEF Tables, RowsTyped, WritesAreSettled, TablesAgree, Persisted, NoWrite, NoMessage, NoOutbox,
    WriteStatus, OutboxStatus
<1>4. DrainsArePersisted /\ FanoutIsTruthful /\ DeadOnlyAfterMaxDeliver /\ HandledIsRecorded
      /\ EarlyAckIsRecorded
  BY DEF DrainsArePersisted, FanoutIsTruthful, DeadOnlyAfterMaxDeliver, HandledIsRecorded, Handled,
    EarlyAckIsRecorded, NoWrite
<1>5. \A r \in Rooms : PersistedIn(r) = {}
  BY DEF PersistedIn, Persisted, NoMessage
<1>6. SequencesStart /\ ContiguousSequences
  BY <1>5 DEF SequencesStart, ContiguousSequences
<1>7. LastMessageAtIsNewest
  <2>1. ASSUME NEW r \in Rooms
        PROVE  lastMessageAt[r] = Latest({0} \cup {Cmd[message[k].msg].acceptedAt : k \in PersistedIn(r)})
    <3>1. {0} \cup {Cmd[message[k].msg].acceptedAt : k \in PersistedIn(r)} = {0}
      BY <1>5
    <3>2. Latest({0}) \in {0}
      BY LatestIsGreatest, FS_Singleton, IsFiniteSet({0}), {0} \subseteq Nat, {0} # {}
    <3>3. QED
      BY <3>1, <3>2
  <2>2. QED
    BY <2>1 DEF LastMessageAtIsNewest
<1>8. QED
  BY <1>1, <1>2, <1>3, <1>4, <1>6, <1>7 DEF Invariant

LEMMA InvariantStep == Invariant /\ [Next]_vars => Invariant'
<1> SUFFICES ASSUME Invariant, [Next]_vars PROVE Invariant'
  OBVIOUS
<1> USE DEF Invariant
<1>1. Control' /\ BrokerTyped' /\ CountsGrow
  BY ControlKept
<1>2. TableStep
  BY StepsOfTables DEF Tables
<1>3. Tables'
  BY <1>2, TablesKept
<1>4. DrainsTyped' /\ DrainsArePersisted'
  BY DrainsKept
<1>5. FanoutIsTruthful'
  BY <1>2, FanoutKept
<1>6. DeadOnlyAfterMaxDeliver'
  BY <1>1, <1>2, DeadKept
<1>7. HandledIsRecorded' /\ EarlyAckIsRecorded'
  BY <1>1, <1>2, RecordsKept
<1>8. SequencesStart' /\ ContiguousSequences' /\ LastMessageAtIsNewest'
  BY <1>2, RoomsKept
<1>9. faults' \in Nat /\ crashes' \in Nat
  <2>1. faults' \in {faults, faults + 1} /\ crashes' \in {crashes, crashes + 1}
    BY DEF Next, vars, AckWaitExpires, OutboxTimeElapses, Crash, Work, ReceiveBatch,
      Process, ProcessConflict, ProcessFails, FindDead, MarkDead, CreateDead, Fault,
      DeadLetterFails, ClaimOutbox, ClaimFails, PublishRow, PublishFails, SettleRow, SettleFails,
      MarkOutboxFailed, MarkOutboxFailedFails, AckBatch, AckLost, AckThrows
  <2>2. QED
    BY <2>1
<1>10. QED
  BY <1>1, <1>3, <1>4, <1>5, <1>6, <1>7, <1>8, <1>9

(* Every reachable state is one the whole invariant describes.               *)
THEOREM Invariance == Spec => []Invariant
<1>1. Init => Invariant
  BY InvariantInit
<1>2. Invariant /\ [Next]_vars => Invariant'
  BY InvariantStep
<1>3. QED
  BY <1>1, <1>2, PTL DEF Spec

(* The consumer's counters, the rows of the five tables and the state of     *)
(* every batch stay within their types (message-writer.service.ts, main.ts). *)
THEOREM TypeCorrect == Spec => []TypeOK
<1>1. Invariant => TypeOK
  BY DEF Invariant, Control, ControlTyped, BrokerTyped, Tables, RowsTyped, DrainsTyped, TypeOK
<1>2. QED
  BY <1>1, Invariance, PTL

(* The messages of a room are numbered 1..nextMessageSeq-1, each number      *)
(* once: whatever batches, redeliveries, lost replies and crashes overlap,   *)
(* the transaction neither skips nor reuses a sequence number.               *)
THEOREM SequencesAreContiguous == Spec => []ContiguousSequences
<1>1. Invariant => ContiguousSequences
  BY DEF Invariant
<1>2. QED
  BY <1>1, Invariance, PTL

(* MessageWrite, Message and MessageOutbox agree about every request, and    *)
(* keep the command that came first, though settling, failing, claiming and  *)
(* dead-lettering touch one table at a time.                                 *)
THEOREM TablesAlwaysAgree == Spec => []TablesAgree
<1>1. Invariant => TablesAgree
  BY DEF Invariant, Tables
<1>2. QED
  BY <1>1, Invariance, PTL

(* A write is FANOUTED only once its event was published, and one that is    *)
(* not has an outbox row that a drain will find, also when two drains work   *)
(* on one row after its lock went stale.                                     *)
THEOREM FanoutIsAlwaysTruthful == Spec => []FanoutIsTruthful
<1>1. Invariant => FanoutIsTruthful
  BY DEF Invariant
<1>2. QED
  BY <1>1, Invariance, PTL

(* markMessageWriteCommandDead declares a command DEAD only on the last of   *)
(* its MESSAGE_WRITE_MAX_DELIVER deliveries.                                 *)
THEOREM DeadIsLast == Spec => []DeadOnlyAfterMaxDeliver
<1>1. Invariant => DeadOnlyAfterMaxDeliver
  BY DEF Invariant
<1>2. QED
  BY <1>1, Invariance, PTL

(* handleMessageBatch acknowledges a command before its last delivery only   *)
(* when the tables hold it under its own content.                            *)
THEOREM EarlyAcksAreRecorded == Spec => []EarlyAckIsRecorded
<1>1. Invariant => EarlyAckIsRecorded
  BY DEF Invariant
<1>2. QED
  BY <1>1, Invariance, PTL

(* Room.lastMessageAt is the newest acceptedAt of the room's messages, in    *)
(* whatever order the batches that hold them commit.                         *)
THEOREM LastMessageAtIsAlwaysNewest == Spec => []LastMessageAtIsNewest
<1>1. Invariant => LastMessageAtIsNewest
  BY DEF Invariant
<1>2. QED
  BY <1>1, Invariance, PTL

(* No step takes a MessageWrite row back, or changes the command it records: *)
(* DEAD and FANOUTED are final.                                              *)
THEOREM StatusOnlyMovesForward == Spec => StatusMovesForward
<1>1. Invariant /\ [Next]_vars =>
        [\A k \in Keys :
           write[k].status # "NONE" =>
             /\ write'[k].msg = write[k].msg
             /\ \/ write'[k].status = write[k].status
                \/ write[k].status = "PENDING" /\ write'[k].status # "NONE"
                \/ write[k].status = "PERSISTED" /\ write'[k].status = "FANOUTED"]_vars
  <2>1. SUFFICES ASSUME Invariant, [Next]_vars PROVE WritesMoveForward
    BY DEF WritesMoveForward
  <2>2. Control /\ Tables /\ TableStep
    BY <2>1, StepsOfTables DEF Invariant, Tables
  <2>3. QED
    BY <2>2, RowsMoveForward
<1>2. QED
  BY <1>1, Invariance, PTL DEF Spec, StatusMovesForward

(* No step deletes a row or rewrites a message: a Message row stays as it    *)
(* was inserted, its outbox row stays, whatever its status (a failed publish *)
(* of a row taken over takes PUBLISHED to FAILED), and an event that went    *)
(* out stays out.                                                            *)
THEOREM RowsAreNeverLost ==
  Spec => [][\A k \in Keys :
               /\ Persisted(k) => message'[k] = message[k]
               /\ outbox[k].status # "NONE" => outbox'[k].status # "NONE"
               /\ k \in fanned => k \in fanned']_vars
<1> DEFINE Kept ==
      \A k \in Keys :
        /\ Persisted(k) => message'[k] = message[k]
        /\ outbox[k].status # "NONE" => outbox'[k].status # "NONE"
        /\ k \in fanned => k \in fanned'
<1>1. Invariant /\ [Next]_vars => [Kept]_vars
  <2>1. SUFFICES ASSUME Invariant, [Next]_vars PROVE Kept
    OBVIOUS
  <2>2. Control /\ Tables /\ TableStep /\ Tables'
    BY <2>1, InvariantStep, StepsOfTables DEF Invariant, Tables
  <2>3. /\ \A k \in Keys : Persisted(k) => message'[k] = message[k]
        /\ fanned \subseteq fanned'
    BY <2>2, MessagesStay, RowsMoveForward
  <2>4. \A k \in Keys : /\ Persisted(k) <=> outbox[k].status # "NONE"
                        /\ Persisted(k)' <=> outbox'[k].status # "NONE"
    BY <2>2 DEF Tables, TablesAgree
  <2>5. \A k \in Keys : Persisted(k) => Persisted(k)'
    BY <2>3 DEF Persisted
  <2>6. QED
    BY <2>3, <2>4, <2>5
<1>2. QED
  BY <1>1, Invariance, PTL DEF Spec
=============================================================================
