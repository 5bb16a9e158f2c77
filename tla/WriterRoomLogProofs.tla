------------------------ MODULE WriterRoomLogProofs ------------------------
(***************************************************************************)
(* The message writer implements the room log (WriterRoomLog), for any     *)
(* commands, workers and bounds.  Each step is one of RoomLog's or none:   *)
(* the transaction of a batch appends, a dead letter gives up, a publish   *)
(* sends, and everything else is invisible to a reader of the rooms.       *)
(***************************************************************************)
EXTENDS WriterRoomLog, MessageWriterProofs

(* A room's log lists its messages, each at its own sequence number.         *)
LEMMA LogLists ==
  ASSUME Tables, SequencesStart, ContiguousSequences, NEW r \in Rooms
  PROVE  /\ LogOf(r) \in Seq(Keys) /\ Len(LogOf(r)) = nextSeq[r] - 1
         /\ DOMAIN LogOf(r) = 1..(nextSeq[r] - 1) /\ nextSeq[r] - 1 \in Nat
         /\ \A i \in 1..(nextSeq[r] - 1) :
              LogOf(r)[i] \in PersistedIn(r) /\ message[LogOf(r)[i]].seq = i
<1> DEFINE at(i) == {k \in PersistedIn(r) : message[k].seq = i}
<1> DEFINE n == nextSeq[r] - 1
<1>1. n \in Nat
  BY DEF Tables, RowsTyped, SequencesStart
<1>2. \A i \in 1..n : at(i) # {}
  BY DEF ContiguousSequences
<1>3. LogOf(r) = [i \in 1..n |-> IF at(i) = {} THEN NoMsg ELSE CHOOSE k \in at(i) : TRUE]
  BY DEF LogOf
<1> HIDE DEF n
<1>4. \A i \in 1..n : LogOf(r)[i] \in at(i)
  BY <1>2, <1>3
<1>5. \A i \in 1..n : LogOf(r)[i] \in PersistedIn(r) /\ message[LogOf(r)[i]].seq = i
  BY <1>4
<1>6. \A i \in 1..n : LogOf(r)[i] \in Keys
  BY <1>5 DEF PersistedIn
<1>7. LogOf(r) \in [1..n -> Keys]
  BY <1>3, <1>6
<1>8. LogOf(r) \in Seq(Keys) /\ Len(LogOf(r)) = n /\ DOMAIN LogOf(r) = 1..n
  BY <1>1, <1>7, LenProperties
<1>9. QED
  BY <1>1, <1>5, <1>8 DEF n

Sequenced == Tables /\ SequencesStart /\ ContiguousSequences

LogsAreListed ==
  \A r \in Rooms :
    /\ LogOf(r) \in Seq(Keys) /\ Len(LogOf(r)) = nextSeq[r] - 1
    /\ DOMAIN LogOf(r) = 1..(nextSeq[r] - 1) /\ nextSeq[r] - 1 \in Nat
    /\ \A i \in 1..(nextSeq[r] - 1) :
         LogOf(r)[i] \in PersistedIn(r) /\ message[LogOf(r)[i]].seq = i

LogsAreOnce == Abstract!Once([r \in Rooms |-> LogOf(r)])

LogsArePersisted == Abstract!Logged([r \in Rooms |-> LogOf(r)]) = {k \in Keys : Persisted(k)}

(* What is in the logs is what is persisted.                                 *)
LEMMA LoggedIsPersisted ==
  ASSUME Tables, SequencesStart, ContiguousSequences
  PROVE  Abstract!Logged([r \in Rooms |-> LogOf(r)]) = {k \in Keys : Persisted(k)}
<1>1. ASSUME NEW r \in Rooms
      PROVE  Abstract!Entries([s \in Rooms |-> LogOf(s)][r]) = PersistedIn(r)
  <2>1. Abstract!Entries([s \in Rooms |-> LogOf(s)][r]) = {LogOf(r)[i] : i \in 1..(nextSeq[r] - 1)}
    BY LogLists DEF Abstract!Entries
  <2>2. ASSUME NEW k \in PersistedIn(r)
        PROVE  \E i \in 1..(nextSeq[r] - 1) : LogOf(r)[i] = k
    <3>1. message[k].seq \in 1..(nextSeq[r] - 1)
      BY DEF ContiguousSequences
    <3>2. /\ LogOf(r)[message[k].seq] \in PersistedIn(r)
          /\ message[LogOf(r)[message[k].seq]].seq = message[k].seq
      BY <3>1, LogLists
    <3>3. LogOf(r)[message[k].seq] = k
      BY <3>2 DEF ContiguousSequences
    <3>4. QED
      BY <3>1, <3>3
  <2>3. QED
    BY <2>1, <2>2, LogLists
<1>2. Abstract!Logged([r \in Rooms |-> LogOf(r)]) = UNION {PersistedIn(r) : r \in Rooms}
  BY <1>1 DEF Abstract!Logged
<1>3. \A k \in Keys : Persisted(k) => Cmd[message[k].msg].room \in Rooms
  BY CommandAssumption DEF Tables, RowsTyped, Persisted
<1>4. QED
  BY <1>2, <1>3 DEF PersistedIn

(* A key is at one place of one log.                                         *)
LEMMA LoggedOnce ==
  ASSUME Tables, SequencesStart, ContiguousSequences
  PROVE  Abstract!Once([r \in Rooms |-> LogOf(r)])
<1>1. ASSUME NEW r \in Rooms, NEW s \in Rooms, NEW i \in DOMAIN LogOf(r), NEW j \in DOMAIN LogOf(s),
             LogOf(r)[i] = LogOf(s)[j]
      PROVE  r = s /\ i = j
  <2>1. /\ LogOf(r)[i] \in PersistedIn(r) /\ message[LogOf(r)[i]].seq = i
        /\ LogOf(s)[j] \in PersistedIn(s) /\ message[LogOf(s)[j]].seq = j
    BY LogLists
  <2>2. QED
    BY <1>1, <2>1 DEF PersistedIn
<1>2. QED
  BY <1>1 DEF Abstract!Once

LEMMA LogsAfterStep == Sequenced' => LogsAreListed' /\ LogsAreOnce' /\ LogsArePersisted'
<1>1. Sequenced => LogsAreListed /\ LogsAreOnce /\ LogsArePersisted
  BY LogLists, LoggedOnce, LoggedIsPersisted
    DEF Sequenced, LogsAreListed, LogsAreOnce, LogsArePersisted
<1>2. QED
  BY <1>1, PTL

(* A batch appends to the logs of its rooms.                                 *)
LEMMA CommitAppends ==
  ASSUME Invariant, Invariant', TableStep, NEW w \in Workers, Committing(w),
         [r \in Rooms |-> LogOf(r)]' # [r \in Rooms |-> LogOf(r)]
  PROVE  Abstract!Persist
<1> USE DEF Invariant
<1>0. LogsAreListed' /\ LogsAreOnce' /\ LogsArePersisted'
  BY LogsAfterStep DEF Sequenced
<1>1. Batch(w) \in Seq(Delivery) /\ Commit(Batch(w)) /\ fanned' = fanned
  BY InHand DEF Committing
<1>2. ASSUME NEW k \in Keys PROVE write'[k].status = "DEAD" <=> write[k].status = "DEAD"
  <2>1. write'[k] = write[k] \/ (/\ write[k].status = "NONE"
                                 /\ write'[k] = [status |-> "PERSISTED", msg |-> FirstOf(Batch(w), k)])
    BY <1>1, CommitRows DEF Tables
  <2>2. QED
    BY <2>1
<1>3. ASSUME NEW r \in Rooms PROVE LogOf(r)' \in Seq(Keys)
  BY <1>0 DEF LogsAreListed
<1>4. Abstract!Extends([r \in Rooms |-> LogOf(r)], [r \in Rooms |-> LogOf(r)]')
  <2>1. ASSUME NEW r \in Rooms
        PROVE  /\ Len(LogOf(r)) <= Len(LogOf(r)')
               /\ \A i \in DOMAIN LogOf(r) : LogOf(r)'[i] = LogOf(r)[i]
    <3>1. nextSeq[r] \in Nat /\ nextSeq'[r] \in Nat /\ nextSeq[r] <= nextSeq'[r]
      BY <1>1, BatchKeys DEF Commit, AllocateSequences, Tables, RowsTyped
    <3>2. /\ Len(LogOf(r)) = nextSeq[r] - 1 /\ DOMAIN LogOf(r) = 1..(nextSeq[r] - 1)
          /\ \A i \in 1..(nextSeq[r] - 1) :
               LogOf(r)[i] \in PersistedIn(r) /\ message[LogOf(r)[i]].seq = i
      BY LogLists
    <3>3. /\ Len(LogOf(r)') = nextSeq'[r] - 1
          /\ \A i \in 1..(nextSeq'[r] - 1) :
               LogOf(r)'[i] \in PersistedIn(r)' /\ message'[LogOf(r)'[i]].seq = i
      BY <1>0 DEF LogsAreListed
    <3>4. ASSUME NEW i \in 1..(nextSeq[r] - 1) PROVE LogOf(r)'[i] = LogOf(r)[i]
      <4>1. i \in 1..(nextSeq'[r] - 1)
        BY <3>1
      <4>2. LogOf(r)[i] \in PersistedIn(r)' /\ message'[LogOf(r)[i]].seq = i
        BY <1>1, <3>2, RoomsAfterCommit
      <4>3. LogOf(r)'[i] \in PersistedIn(r)' /\ message'[LogOf(r)'[i]].seq = i
        BY <3>3, <4>1
      <4>4. \A j, k \in PersistedIn(r)' : message'[j].seq = message'[k].seq => j = k
        BY DEF ContiguousSequences
      <4>5. QED
        BY <4>2, <4>3, <4>4
    <3>5. QED
      BY <3>1, <3>2, <3>3, <3>4
  <2>2. QED
    BY <2>1 DEF Abstract!Extends
<1>5. Abstract!Once([r \in Rooms |-> LogOf(r)]')
  BY <1>0 DEF LogsAreOnce
<1>6. Abstract!Logged([r \in Rooms |-> LogOf(r)]') \cap {k \in Keys : write[k].status = "DEAD"} = {}
  <2>1. Abstract!Logged([r \in Rooms |-> LogOf(r)]') = {k \in Keys : Persisted(k)'}
    BY <1>0 DEF LogsArePersisted
  <2>2. \A k \in Keys : Persisted(k)' => write'[k].status # "DEAD"
    BY DEF Tables, TablesAgree
  <2>3. QED
    BY <1>2, <2>1, <2>2
<1>7. {k \in Keys : write[k].status = "DEAD"}' = {k \in Keys : write[k].status = "DEAD"}
  BY <1>2
<1>8. [r \in Rooms |-> LogOf(r)]' \in [Rooms -> Seq(Keys)]
  BY <1>3
<1>9. QED
  BY <1>1, <1>4, <1>5, <1>6, <1>7, <1>8 DEF Abstract!Persist

(* Every step is a step of the room log, or none.                            *)
LEMMA StepsAreLogged ==
  ASSUME Invariant, Invariant', TableStep
  PROVE  Abstract!Next \/ UNCHANGED Abstract!vars
<1> USE DEF Invariant
<1> DEFINE log == [r \in Rooms |-> LogOf(r)]
<1> DEFINE dead == {k \in Keys : write[k].status = "DEAD"}
<1>1. UNCHANGED <<message, nextSeq>> => UNCHANGED log
  BY DEF LogOf, PersistedIn, Persisted
<1>2. ASSUME NEW w \in Workers, Committing(w) PROVE Abstract!Next \/ UNCHANGED Abstract!vars
  <2>1. Batch(w) \in Seq(Delivery) /\ Commit(Batch(w)) /\ fanned' = fanned
    BY <1>2, InHand DEF Committing
  <2>2. ASSUME NEW k \in Keys PROVE write'[k].status = "DEAD" <=> write[k].status = "DEAD"
    <3>1. write'[k] = write[k] \/ (/\ write[k].status = "NONE"
                                   /\ write'[k] = [status |-> "PERSISTED", msg |-> FirstOf(Batch(w), k)])
      BY <2>1, CommitRows DEF Tables
    <3>2. QED
      BY <3>1
  <2>3. UNCHANGED <<dead, fanned>>
    BY <2>1, <2>2
  <2>4. QED
    BY <1>2, <2>3, CommitAppends DEF Abstract!Next, Abstract!vars
<1>3. ASSUME NEW w \in Workers, GivingUp(w) PROVE Abstract!Next
  <2>1. Batch(w)[1].msg \in Msgs
    BY <1>3, InHand DEF GivingUp, Delivery
  <2>2. PICK k \in Keys : k = DeadKey(w)
    BY <2>1, CommandAssumption DEF DeadKey
  <2>3. UNCHANGED <<log, fanned>>
    BY <1>1, <1>3 DEF GivingUp
  <2>4. dead' = dead \cup {k} /\ k \notin dead
    BY <1>3, <2>2 DEF GivingUp, Tables, RowsTyped
  <2>5. k \notin Abstract!Logged(log)
    BY <1>3, <2>2, LoggedIsPersisted DEF GivingUp, Tables, TablesAgree
  <2>6. Abstract!GiveUp(k)
    BY <2>3, <2>4, <2>5 DEF Abstract!GiveUp
  <2>7. QED
    BY <2>6 DEF Abstract!Next
<1>4. ASSUME NEW w \in Workers, Publishing(w) PROVE Abstract!Next \/ UNCHANGED Abstract!vars
  <2>1. UNCHANGED <<log, dead>>
    BY <1>1, <1>4 DEF Publishing, rows
  <2>2. PICK k \in claimed[w] : fanned' = fanned \cup {k}
    BY <1>4 DEF Publishing
  <2>3. k \in Keys /\ k \in Abstract!Logged(log)
    BY <2>2, LoggedIsPersisted DEF DrainsArePersisted
  <2>4. CASE k \in fanned
    BY <2>1, <2>2, <2>4 DEF Abstract!vars
  <2>5. CASE k \notin fanned
    <3>1. Abstract!Send(k)
      BY <2>1, <2>2, <2>3, <2>5 DEF Abstract!Send
    <3>2. QED
      BY <2>3, <3>1 DEF Abstract!Next
  <2>6. QED
    BY <2>4, <2>5
<1>5. ASSUME NEW w \in Workers, Settling(w) PROVE UNCHANGED Abstract!vars
  <2>1. UNCHANGED <<log, fanned>>
    BY <1>1, <1>5 DEF Settling
  <2>2. \A k \in Keys : write'[k].status = "DEAD" <=> write[k].status = "DEAD"
    BY <1>5 DEF Settling, Settled, Tables, RowsTyped
  <2>3. QED
    BY <2>1, <2>2 DEF Abstract!vars
<1>6. ASSUME UNCHANGED <<rows, fanned>> PROVE UNCHANGED Abstract!vars
  BY <1>1, <1>6 DEF Abstract!vars, rows
<1>7. QED
  BY <1>2, <1>3, <1>4, <1>5, <1>6 DEF TableStep

(* The tables start out as empty logs.                                       *)
LEMMA LogsStartEmpty == Init => Abstract!Init
<1> SUFFICES ASSUME Init PROVE Abstract!Init
  OBVIOUS
<1>1. Invariant
  BY InvariantInit
<1>2. ASSUME NEW r \in Rooms PROVE LogOf(r) = << >>
  <2>1. LogOf(r) \in Seq(Keys) /\ Len(LogOf(r)) = nextSeq[r] - 1
    BY <1>1, LogLists DEF Invariant
  <2>2. Len(LogOf(r)) = 0
    BY <2>1 DEF Init
  <2>3. QED
    BY <2>1, <2>2, EmptySeq
<1>3. QED
  BY <1>2 DEF Init, Abstract!Init, NoWrite

(* The asynchronous write path is the room log it stands for: batches,       *)
(* redeliveries, crashes and dead letters amount to appending each request   *)
(* at most once to one room, giving it up, and announcing what was appended  *)
(* (processMessageWriteCommands, markMessageWriteCommandDead,                *)
(* drainMessageOutbox).                                                      *)
THEOREM WriterIsRoomLog == Spec => ImplementsRoomLog
<1>1. Init => Abstract!Init
  BY LogsStartEmpty
<1>2. Invariant /\ Invariant' /\ [Next]_vars => [Abstract!Next]_(Abstract!vars)
  <2>1. SUFFICES ASSUME Invariant, Invariant', [Next]_vars
                 PROVE  Abstract!Next \/ UNCHANGED Abstract!vars
    OBVIOUS
  <2>2. TableStep
    BY <2>1, StepsOfTables DEF Invariant, Tables
  <2>3. QED
    BY <2>1, <2>2, StepsAreLogged
<1>3. QED
  BY <1>1, <1>2, Invariance, PTL DEF Spec, ImplementsRoomLog, Abstract!Spec
=============================================================================
