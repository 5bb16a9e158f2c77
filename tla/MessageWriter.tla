--------------------------- MODULE MessageWriter ---------------------------
(***************************************************************************)
(* The message-writer service: a durable JetStream consumer that persists  *)
(* MessageWriteCommands in PostgreSQL, records a MessageOutbox row for     *)
(* each new message and drains that outbox to Redis                        *)
(* (services/message-writer-service/src).                                  *)
(*                                                                         *)
(* A worker is one batch, from the delivery of its messages until          *)
(* handleMessageBatch returns; several exist at once.  Every await of the  *)
(* handler is a step of its own, so batches, redeliveries of one command,  *)
(* a crash and the passing of time interleave between any two of them.  A  *)
(* database transaction is one step: the room rows it locks FOR UPDATE and *)
(* the unique keys it inserts under serialise the transactions that could  *)
(* touch the same rows.                                                    *)
(*                                                                         *)
(* Covered: delivery, redelivery (nak, ack_wait expiry, restart), batch    *)
(* processing with its splits, dead-lettering, outbox claim, publish,      *)
(* settle and failure, lost replies, crashes.                              *)
(* Not covered here: how deliveries are cut into batches (WriterPipeline), *)
(* and a request whose Message row chat-service made first: the writer then*)
(* settles its MessageWrite without a message and an outbox row of its own *)
(* (RestMessages, WriterPersists).                                         *)
(*                                                                         *)
(* Definitions marked "Broken" are not part of the specification: each is  *)
(* a plausible bug, there to show that a property would notice it.         *)
(***************************************************************************)
EXTENDS Integers, Sequences, FiniteSets

CONSTANTS
  Msgs,          \* the messages in the stream MESSAGE_WRITES
  Keys,          \* idempotency keys (sender_id, request_id); they fix message_id
  Rooms,
  Bodies,
  Cmd,           \* the MessageWriteCommand each stream message carries
  NoMsg,         \* "no row": not a message
  Workers,       \* batches that may exist at once, waiting or being handled
  BatchSize,     \* MESSAGE_WRITER_BATCH_SIZE
  MaxDeliver,    \* MESSAGE_WRITE_MAX_DELIVER
  DisableFanout, \* MESSAGE_WRITER_DISABLE_FANOUT
  MaxFaults,     \* bound on failed calls to PostgreSQL, Redis and JetStream
  MaxCrashes     \* bound on crashes of the writer process

ASSUME CommandAssumption ==
  /\ Cmd \in [Msgs -> [key: Keys, room: Rooms, body: Bodies, acceptedAt: Nat]]
  /\ NoMsg \notin Msgs
  /\ IsFiniteSet(Keys)

ASSUME LimitAssumption ==
  /\ BatchSize \in Nat \ {0}
  /\ MaxDeliver \in Nat \ {0}
  /\ DisableFanout \in BOOLEAN
  /\ MaxFaults \in Nat
  /\ MaxCrashes \in Nat

VARIABLES
  \* JetStream's view of the durable consumer
  attempts,      \* deliveries of each message so far
  ready,         \* messages the consumer may deliver (again)
  acked,
  \* PostgreSQL
  write,         \* MessageWrite rows, by key
  message,       \* Message rows, by key
  nextSeq,       \* Room.nextMessageSeq
  lastMessageAt, \* Room.lastMessageAt
  outbox,        \* MessageOutbox rows, by the key of their message
  \* Redis
  fanned,        \* keys whose message.created event was published
  \* the writer process
  pc, mode,      \* where each worker is, in a batch or a single-message pass
  todo,          \* its batch and the halves it has still to handle
  claimed,       \* outbox rows it claimed and has not finished with
  current,       \* the outbox row being published (a set: one key or none)
  faults, crashes

broker == <<attempts, ready, acked>>
rows   == <<write, message, nextSeq, lastMessageAt>>
worker == <<pc, mode, todo, claimed, current>>
vars   == <<broker, rows, outbox, fanned, worker, faults, crashes>>

WriteStatus  == {"NONE", "PENDING", "PERSISTED", "FANOUTED", "DEAD"}
OutboxStatus == {"NONE", "PENDING", "PUBLISHING", "FAILED", "PUBLISHED"}
PCs == {"idle", "process", "claim", "publish", "settle", "markFailed", "ack",
        "findDead", "markDead", "createDead"}

Delivery == [msg: Msgs, attempt: 1..MaxDeliver]

NoWrite   == [status |-> "NONE", msg |-> NoMsg]
NoMessage == [msg |-> NoMsg, seq |-> 0]
NoOutbox  == [status |-> "NONE", due |-> FALSE]

Init ==
  /\ attempts = [m \in Msgs |-> 0]
  /\ ready = Msgs
  /\ acked = {}
  /\ write = [k \in Keys |-> NoWrite]
  /\ message = [k \in Keys |-> NoMessage]
  /\ nextSeq = [r \in Rooms |-> 1]
  /\ lastMessageAt = [r \in Rooms |-> 0]
  /\ outbox = [k \in Keys |-> NoOutbox]
  /\ fanned = {}
  /\ pc = [w \in Workers |-> "idle"]
  /\ mode = [w \in Workers |-> "batch"]
  /\ todo = [w \in Workers |-> <<>>]
  /\ claimed = [w \in Workers |-> {}]
  /\ current = [w \in Workers |-> {}]
  /\ faults = 0
  /\ crashes = 0

(***************************************************************************)
(* JetStream.                                                              *)
(***************************************************************************)
Deliverable == {m \in ready \ acked : attempts[m] < MaxDeliver}

\* ack_wait runs out while the delivery waits, is being handled or was lost.
AckWaitExpires(m) ==
  /\ m \notin ready \cup acked
  /\ attempts[m] < MaxDeliver
  /\ ready' = ready \cup {m}
  /\ UNCHANGED <<attempts, acked, rows, outbox, fanned, worker, faults, crashes>>

(***************************************************************************)
(* The handler's control flow.                                             *)
(***************************************************************************)
Batch(w) == Head(todo[w])
MsgsOf(b) == {b[i].msg : i \in DOMAIN b}
KeysOf(b) == {Cmd[m].key : m \in MsgsOf(b)}

Goto(w, label) == pc' = [pc EXCEPT ![w] = label]

\* drainMessageOutbox is skipped when fanout is disabled.
AfterProcess == IF DisableFanout THEN "ack" ELSE "claim"

\* One call of handleMessageBatch or handleSingleMessageWrite has returned.
Return(w) ==
  /\ todo' = [todo EXCEPT ![w] = Tail(@)]
  /\ mode' = [mode EXCEPT ![w] = "batch"]
  /\ Goto(w, IF Len(todo[w]) = 1 THEN "idle" ELSE "process")

Halves(b) ==
  LET midpoint == (Len(b) + 1) \div 2
  IN  <<SubSeq(b, 1, midpoint), SubSeq(b, midpoint + 1, Len(b))>>

\* Broken: the only message of a batch is tried as a batch again.
BrokenSplitOrSingle(w) ==
  /\ IF Len(Batch(w)) > 1
     THEN todo' = [todo EXCEPT ![w] = Halves(Head(@)) \o Tail(@)]
     ELSE UNCHANGED todo
  /\ Goto(w, "process")
  /\ UNCHANGED <<mode, ready>>

\* The catch of handleMessageBatch: split the batch, or retry its only message.
SplitOrSingle(w) ==
  /\ IF Len(Batch(w)) > 1
     THEN /\ todo' = [todo EXCEPT ![w] = Halves(Head(@)) \o Tail(@)]
          /\ UNCHANGED mode
     ELSE /\ mode' = [mode EXCEPT ![w] = "single"]
          /\ UNCHANGED todo
  /\ Goto(w, "process")
  /\ UNCHANGED ready

\* The catch of handleSingleMessageWrite.
Nak(w) ==
  /\ ready' = ready \cup (MsgsOf(Batch(w)) \ acked)
  /\ Return(w)

\* drainMessageOutbox threw.
DrainThrows(w) == IF mode[w] = "single" THEN Nak(w) ELSE SplitOrSingle(w)

\* Broken: dead-letters one delivery early.
BrokenProcessThrows(w) ==
  IF mode[w] = "single" /\ Batch(w)[1].attempt >= MaxDeliver - 1
  THEN Goto(w, "findDead") /\ UNCHANGED <<mode, todo, ready>>
  ELSE DrainThrows(w)

\* processMessageWriteCommands threw: the last delivery is dead-lettered.
ProcessThrows(w) ==
  IF mode[w] = "single" /\ Batch(w)[1].attempt >= MaxDeliver
  THEN Goto(w, "findDead") /\ UNCHANGED <<mode, todo, ready>>
  ELSE DrainThrows(w)

Fault == faults < MaxFaults /\ faults' = faults + 1

\* Broken: counts redeliveries.
BrokenDeliveryAttempt(b, i) == attempts[b[i]]

\* readDeliveryAttempt: deliveries count from one.
DeliveryAttempt(b, i) == attempts[b[i]] + Cardinality({j \in 1..i : b[j] = b[i]})

\* The consumer delivers messages, and the process cuts them into a batch.  A
\* message is in it twice when its ack_wait ran out before the first delivery
\* was read.
ReceiveBatch(w) ==
  /\ pc[w] = "idle"
  /\ \E n \in 1..BatchSize : \E b \in [1..n -> Deliverable] :
       /\ attempts' = [m \in Msgs |-> attempts[m] + Cardinality({i \in 1..n : b[i] = m})]
       /\ \A m \in Msgs : attempts'[m] <= MaxDeliver
       /\ ready' = ready \ {b[i] : i \in 1..n}
       /\ todo' = [todo EXCEPT ![w] =
            <<[i \in 1..n |-> [msg |-> b[i], attempt |-> DeliveryAttempt(b, i)]]>>]
  /\ Goto(w, "process")
  /\ UNCHANGED <<acked, rows, outbox, fanned, mode, claimed, current, faults, crashes>>

(***************************************************************************)
(* processMessageWriteCommands.                                            *)
(***************************************************************************)
SameCommand(m, n) == Cmd[m].room = Cmd[n].room /\ Cmd[m].body = Cmd[n].body

\* dedupeMessageWriteCommands keeps the first command of each key.
FirstOf(b, k) ==
  CHOOSE m \in MsgsOf(b) :
    /\ Cmd[m].key = k
    /\ \E i \in DOMAIN b : b[i].msg = m /\ \A j \in 1..(i-1) : Cmd[b[j].msg].key # k

\* Broken: does not compare a command with the row that holds its key.
BrokenConflicting(b) ==
  \E m, n \in MsgsOf(b) : Cmd[m].key = Cmd[n].key /\ ~SameCommand(m, n)

\* Two commands of one key differ, in the batch or against the existing row.
Conflicting(b) ==
  \E m \in MsgsOf(b) :
    \/ \E n \in MsgsOf(b) : Cmd[m].key = Cmd[n].key /\ ~SameCommand(m, n)
    \/ /\ write[Cmd[m].key].status # "NONE"
       /\ ~SameCommand(write[Cmd[m].key].msg, m)

\* The MessageWrite row of k once the batch's inserts are done.
InsertedWrite(b, k) ==
  IF k \in KeysOf(b) /\ write[k].status = "NONE"
  THEN [status |-> "PENDING", msg |-> FirstOf(b, k)]
  ELSE write[k]

\* Broken: numbers the commands of a redelivered batch again.
BrokenCandidatesAgain(b) ==
  {k \in KeysOf(b) : InsertedWrite(b, k).status # "DEAD"}

\* Broken: persists what was given up.
BrokenCandidatesDead(b) == {k \in KeysOf(b) : message[k].msg = NoMsg}

\* The writes that become messages: not given up, and not messages yet.
Candidates(b) ==
  {k \in KeysOf(b) : InsertedWrite(b, k).status # "DEAD" /\ message[k].msg = NoMsg}

CandidatesIn(b, r) ==
  {k \in Candidates(b) : Cmd[InsertedWrite(b, k).msg].room = r}

\* ROW_NUMBER() - 1 within each room, by acceptedAt and then by id.
RoomOffsets(b) ==
  {f \in [Candidates(b) -> 0..(Cardinality(Candidates(b)) - 1)] :
     \A r \in Rooms :
       /\ {f[k] : k \in CandidatesIn(b, r)} = 0..(Cardinality(CandidatesIn(b, r)) - 1)
       /\ \A j, k \in CandidatesIn(b, r) :
            /\ f[j] = f[k] => j = k
            /\ Cmd[InsertedWrite(b, j).msg].acceptedAt < Cmd[InsertedWrite(b, k).msg].acceptedAt
                 => f[j] < f[k]}

InsertMessages(b) ==
  \E offset \in RoomOffsets(b) :
    message' = [k \in Keys |->
      IF k \in Candidates(b)
      THEN LET m == InsertedWrite(b, k).msg
           IN  [msg |-> m, seq |-> nextSeq[Cmd[m].room] + offset[k]]
      ELSE message[k]]

AllocateSequences(b) ==
  nextSeq' = [r \in Rooms |-> nextSeq[r] + Cardinality(CandidatesIn(b, r))]

UpdateWrites(b) ==
  write' = [k \in Keys |->
    IF /\ k \in KeysOf(b)
       /\ k \in Candidates(b) \/ message[k].msg # NoMsg
       /\ InsertedWrite(b, k).status \notin {"DEAD", "FANOUTED"}
    THEN [InsertedWrite(b, k) EXCEPT !.status = "PERSISTED"]
    ELSE InsertedWrite(b, k)]

InsertOutbox(b) ==
  outbox' = [k \in Keys |->
    IF k \in Candidates(b) /\ outbox[k].status = "NONE"
    THEN [status |-> "PENDING", due |-> TRUE]
    ELSE outbox[k]]

Latest(S) == CHOOSE t \in S : \A u \in S : u <= t

AcceptedIn(b, r) == {Cmd[InsertedWrite(b, k).msg].acceptedAt : k \in CandidatesIn(b, r)}

\* Broken: the newest message of the batch, without GREATEST.
BrokenUpdateRooms(b) ==
  lastMessageAt' = [r \in Rooms |->
    IF CandidatesIn(b, r) = {} THEN lastMessageAt[r] ELSE Latest(AcceptedIn(b, r))]

UpdateRooms(b) ==
  lastMessageAt' = [r \in Rooms |-> Latest({lastMessageAt[r]} \cup AcceptedIn(b, r))]

\* The transaction: the write rows, the sequence numbers, the messages, their
\* outbox rows and the rooms' lastMessageAt, all or nothing.
Commit(b) ==
  /\ InsertMessages(b)
  /\ AllocateSequences(b)
  /\ UpdateWrites(b)
  /\ InsertOutbox(b)
  /\ UpdateRooms(b)

Process(w) ==
  /\ pc[w] = "process"
  /\ ~Conflicting(Batch(w))
  /\ Commit(Batch(w))
  /\ Goto(w, AfterProcess)
  /\ UNCHANGED <<broker, fanned, mode, todo, claimed, current, faults, crashes>>

ProcessConflict(w) ==
  /\ pc[w] = "process"
  /\ Conflicting(Batch(w))
  /\ ProcessThrows(w)
  /\ UNCHANGED <<attempts, acked, rows, outbox, fanned, claimed, current, faults, crashes>>

\* PostgreSQL fails: the transaction rolled back, or it committed and only its
\* reply was lost.
ProcessFails(w) ==
  /\ pc[w] = "process"
  /\ Fault
  /\ \/ UNCHANGED <<rows, outbox>>
     \/ ~Conflicting(Batch(w)) /\ Commit(Batch(w))
  /\ ProcessThrows(w)
  /\ UNCHANGED <<attempts, acked, fanned, claimed, current, crashes>>

(***************************************************************************)
(* markMessageWriteCommandDead: a read, then an update or an insert; every *)
(* error is logged and swallowed.                                          *)
(***************************************************************************)
DeadKey(w) == Cmd[Batch(w)[1].msg].key

\* Broken: only ever updates a row.
BrokenFindDead(w) ==
  /\ pc[w] = "findDead"
  /\ Goto(w, "markDead")
  /\ UNCHANGED <<broker, rows, outbox, fanned, mode, todo, claimed, current, faults, crashes>>

FindDead(w) ==
  /\ pc[w] = "findDead"
  /\ Goto(w, IF write[DeadKey(w)].status # "NONE" THEN "markDead" ELSE "createDead")
  /\ UNCHANGED <<broker, rows, outbox, fanned, mode, todo, claimed, current, faults, crashes>>

\* Broken: does not ask for PENDING.
BrokenMarkDead(w) ==
  /\ pc[w] = "markDead"
  /\ write' = [write EXCEPT ![DeadKey(w)].status = "DEAD"]
  /\ Goto(w, AfterProcess)
  /\ UNCHANGED <<broker, message, nextSeq, lastMessageAt, outbox, fanned,
                 mode, todo, claimed, current, faults, crashes>>

MarkDead(w) ==
  /\ pc[w] = "markDead"
  /\ write' = IF write[DeadKey(w)].status = "PENDING"
              THEN [write EXCEPT ![DeadKey(w)].status = "DEAD"]
              ELSE write
  /\ Goto(w, AfterProcess)
  /\ UNCHANGED <<broker, message, nextSeq, lastMessageAt, outbox, fanned,
                 mode, todo, claimed, current, faults, crashes>>

\* A row inserted since the read makes the create fail on its unique key.
CreateDead(w) ==
  /\ pc[w] = "createDead"
  /\ write' = IF write[DeadKey(w)].status = "NONE"
              THEN [write EXCEPT ![DeadKey(w)] = [status |-> "DEAD", msg |-> Batch(w)[1].msg]]
              ELSE write
  /\ Goto(w, AfterProcess)
  /\ UNCHANGED <<broker, message, nextSeq, lastMessageAt, outbox, fanned,
                 mode, todo, claimed, current, faults, crashes>>

DeadLetterFails(w) ==
  /\ pc[w] \in {"findDead", "markDead", "createDead"}
  /\ Fault
  /\ Goto(w, AfterProcess)
  /\ UNCHANGED <<broker, rows, outbox, fanned, mode, todo, claimed, current, crashes>>


Claimable == {k \in Keys : outbox[k].due}

Claimed ==
  outbox' = [k \in Keys |-> IF k \in Claimable
                            THEN [status |-> "PUBLISHING", due |-> FALSE]
                            ELSE outbox[k]]

ClaimOutbox(w) ==
  /\ pc[w] = "claim"
  /\ Claimed
  /\ claimed' = [claimed EXCEPT ![w] = Claimable]
  /\ Goto(w, IF Claimable = {} THEN "ack" ELSE "publish")
  /\ UNCHANGED <<broker, rows, fanned, mode, todo, current, faults, crashes>>

\* The claim fails, or the read of the claimed messages does after it committed.
ClaimFails(w) ==
  /\ pc[w] = "claim"
  /\ Fault
  /\ UNCHANGED outbox \/ Claimed
  /\ DrainThrows(w)
  /\ UNCHANGED <<attempts, acked, rows, fanned, claimed, current, crashes>>

PublishRow(w) ==
  /\ pc[w] = "publish"
  /\ \E k \in claimed[w] :
       /\ fanned' = fanned \cup {k}
       /\ current' = [current EXCEPT ![w] = {k}]
  /\ Goto(w, "settle")
  /\ UNCHANGED <<broker, rows, outbox, mode, todo, claimed, faults, crashes>>

\* Broken: the failed publish is settled like any other.
BrokenPublishFails(w) ==
  /\ pc[w] = "publish"
  /\ Fault
  /\ \E k \in claimed[w] : current' = [current EXCEPT ![w] = {k}]
  /\ Goto(w, "settle")
  /\ UNCHANGED <<broker, rows, outbox, fanned, mode, todo, claimed, crashes>>

\* The publish fails, or it reached Redis and its reply was lost.
PublishFails(w) ==
  /\ pc[w] = "publish"
  /\ Fault
  /\ \E k \in claimed[w] :
       /\ fanned' \in {fanned, fanned \cup {k}}
       /\ current' = [current EXCEPT ![w] = {k}]
  /\ Goto(w, "markFailed")
  /\ UNCHANGED <<broker, rows, outbox, mode, todo, claimed, crashes>>

\* The drain's loop goes on with the next claimed row.
NextRow(w) ==
  /\ claimed' = [claimed EXCEPT ![w] = @ \ current[w]]
  /\ current' = [current EXCEPT ![w] = {}]
  /\ Goto(w, IF claimed[w] \subseteq current[w] THEN "ack" ELSE "publish")

Settled(w) ==
  /\ outbox' = [k \in Keys |-> IF k \in current[w]
                               THEN [status |-> "PUBLISHED", due |-> FALSE]
                               ELSE outbox[k]]
  /\ write' = [k \in Keys |-> IF k \in current[w] /\ write[k].status = "PERSISTED"
                              THEN [write[k] EXCEPT !.status = "FANOUTED"]
                              ELSE write[k]]

SettleRow(w) ==
  /\ pc[w] = "settle"
  /\ Settled(w)
  /\ NextRow(w)
  /\ UNCHANGED <<broker, message, nextSeq, lastMessageAt, fanned, mode, todo, faults, crashes>>

SettleFails(w) ==
  /\ pc[w] = "settle"
  /\ Fault
  /\ UNCHANGED <<write, outbox>> \/ Settled(w)
  /\ Goto(w, "markFailed")
  /\ UNCHANGED <<broker, message, nextSeq, lastMessageAt, fanned, mode, todo,
                 claimed, current, crashes>>

\* The update asks nothing of the row's status.
MarkOutboxFailed(w) ==
  /\ pc[w] = "markFailed"
  /\ outbox' = [k \in Keys |-> IF k \in current[w]
                               THEN [status |-> "FAILED", due |-> FALSE]
                               ELSE outbox[k]]
  /\ NextRow(w)
  /\ UNCHANGED <<broker, rows, fanned, mode, todo, faults, crashes>>

\* Rows not yet reached stay PUBLISHING until their lock is stale.
MarkOutboxFailedFails(w) ==
  /\ pc[w] = "markFailed"
  /\ Fault
  /\ DrainThrows(w)
  /\ claimed' = [claimed EXCEPT ![w] = {}]
  /\ current' = [current EXCEPT ![w] = {}]
  /\ UNCHANGED <<attempts, acked, rows, outbox, fanned, crashes>>

\* staleLockMs or the row's retry delay goes by.
OutboxTimeElapses(k) ==
  /\ outbox[k].status \in {"PUBLISHING", "FAILED"}
  /\ ~outbox[k].due
  /\ outbox' = [outbox EXCEPT ![k].due = TRUE]
  /\ UNCHANGED <<broker, rows, fanned, worker, faults, crashes>>

(***************************************************************************)
(* Acknowledgement, and the death of the process.                          *)
(***************************************************************************)
AckBatch(w) ==
  /\ pc[w] = "ack"
  /\ acked' = acked \cup MsgsOf(Batch(w))
  /\ ready' = ready \ MsgsOf(Batch(w))
  /\ Return(w)
  /\ UNCHANGED <<attempts, rows, outbox, fanned, claimed, current, faults, crashes>>

\* Acknowledgements are not confirmed: any of them may be lost on the way.
AckLost(w) ==
  /\ pc[w] = "ack"
  /\ Fault
  /\ \E arrived \in SUBSET MsgsOf(Batch(w)) :
       /\ acked' = acked \cup arrived
       /\ ready' = ready \ arrived
  /\ Return(w)
  /\ UNCHANGED <<attempts, rows, outbox, fanned, claimed, current, crashes>>

\* ack() throws, as it does once the connection is closed: the try block ends
\* like one whose drain failed.
AckThrows(w) ==
  /\ pc[w] = "ack"
  /\ Fault
  /\ DrainThrows(w)
  /\ UNCHANGED <<attempts, acked, rows, outbox, fanned, claimed, current, crashes>>

Crash ==
  /\ crashes < MaxCrashes
  /\ crashes' = crashes + 1
  /\ pc' = [w \in Workers |-> "idle"]
  /\ mode' = [w \in Workers |-> "batch"]
  /\ todo' = [w \in Workers |-> <<>>]
  /\ claimed' = [w \in Workers |-> {}]
  /\ current' = [w \in Workers |-> {}]
  /\ UNCHANGED <<broker, rows, outbox, fanned, faults>>

Work(w) ==
  \/ ReceiveBatch(w)
  \/ Process(w) \/ ProcessConflict(w) \/ ProcessFails(w)
  \/ FindDead(w) \/ MarkDead(w) \/ CreateDead(w) \/ DeadLetterFails(w)
  \/ ClaimOutbox(w) \/ ClaimFails(w)
  \/ PublishRow(w) \/ PublishFails(w)
  \/ SettleRow(w) \/ SettleFails(w)
  \/ MarkOutboxFailed(w) \/ MarkOutboxFailedFails(w)
  \/ AckBatch(w) \/ AckLost(w) \/ AckThrows(w)

Next ==
  \/ \E m \in Msgs : AckWaitExpires(m)
  \/ \E w \in Workers : Work(w)
  \/ \E k \in Keys : OutboxTimeElapses(k)
  \/ Crash

Spec == Init /\ [][Next]_vars

(***************************************************************************)
(* Properties.                                                             *)
(***************************************************************************)
TypeOK ==
  /\ attempts \in [Msgs -> 0..MaxDeliver]
  /\ ready \subseteq Msgs
  /\ acked \subseteq Msgs
  /\ write \in [Keys -> [status: WriteStatus, msg: Msgs \cup {NoMsg}]]
  /\ message \in [Keys -> [msg: Msgs \cup {NoMsg}, seq: Nat]]
  /\ nextSeq \in [Rooms -> Nat]
  /\ lastMessageAt \in [Rooms -> Nat]
  /\ outbox \in [Keys -> [status: OutboxStatus, due: BOOLEAN]]
  /\ fanned \subseteq Keys
  /\ pc \in [Workers -> PCs]
  /\ mode \in [Workers -> {"batch", "single"}]
  /\ todo \in [Workers -> Seq(Seq(Delivery))]
  /\ claimed \in [Workers -> SUBSET Keys]
  /\ current \in [Workers -> SUBSET Keys]
  /\ faults \in Nat
  /\ crashes \in Nat

Persisted(k) == message[k].msg # NoMsg
PersistedIn(r) == {k \in Keys : Persisted(k) /\ Cmd[message[k].msg].room = r}

\* The messages of a room carry exactly the sequence numbers 1..nextMessageSeq-1,
\* each once, whatever batches, redeliveries and failed transactions overlap:
\* no gap, no duplicate (message-writer.integration.test.ts, "assigns contiguous
\* room sequences and keeps them on redelivery").
ContiguousSequences ==
  \A r \in Rooms :
    /\ {message[k].seq : k \in PersistedIn(r)} = 1..(nextSeq[r] - 1)
    /\ \A j, k \in PersistedIn(r) : message[j].seq = message[k].seq => j = k

\* The three tables agree on every request: a message exists exactly when its
\* write row says so and when it has an outbox row, and it is the command that
\* was recorded first, never a later conflicting one.
TablesAgree ==
  \A k \in Keys :
    /\ Persisted(k) <=> write[k].status \in {"PERSISTED", "FANOUTED"}
    /\ Persisted(k) <=> outbox[k].status # "NONE"
    /\ Persisted(k) => message[k].msg = write[k].msg

\* A write is FANOUTED, and its outbox row PUBLISHED, only after the event
\* really went to Redis; a persisted message that is not yet FANOUTED still has
\* an outbox row a drain can pick up.  Stale locks let two drains work on one
\* row, so this is not the doing of a single step.
FanoutIsTruthful ==
  \A k \in Keys :
    /\ write[k].status = "FANOUTED" => k \in fanned
    /\ write[k].status = "PERSISTED" => outbox[k].status \in {"PENDING", "PUBLISHING", "FAILED"}

\* A command is declared DEAD only once its deliveries are used up (NATS.md,
\* "After max delivery, the command is marked DEAD").
DeadOnlyAfterMaxDeliver ==
  \A k \in Keys : write[k].status = "DEAD" => attempts[write[k].msg] = MaxDeliver

\* A message acknowledged before its last delivery is in the tables under its
\* own content: an acknowledgement that early never loses a command.
EarlyAckIsRecorded ==
  \A m \in acked : attempts[m] < MaxDeliver =>
    /\ write[Cmd[m].key].status # "NONE"
    /\ SameCommand(write[Cmd[m].key].msg, m)

\* The room's lastMessageAt is the newest acceptedAt of its messages: an older
\* batch committed later never moves it back.
LastMessageAtIsNewest ==
  \A r \in Rooms :
    lastMessageAt[r] = Latest({0} \cup {Cmd[message[k].msg].acceptedAt : k \in PersistedIn(r)})

\* A write row only moves forward: DEAD and FANOUTED are final, and the command
\* it records never changes.
StatusMovesForward ==
  [][\A k \in Keys :
       write[k].status # "NONE" =>
         /\ write'[k].msg = write[k].msg
         /\ \/ write'[k].status = write[k].status
            \/ write[k].status = "PENDING" /\ write'[k].status # "NONE"
            \/ write[k].status = "PERSISTED" /\ write'[k].status = "FANOUTED"]_vars

\* Every command that is acknowledged has left a MessageWrite row, DEAD if it
\* could not be persisted (NATS.md: "If a command repeatedly fails past
\* MESSAGE_WRITE_MAX_DELIVER, the related MessageWrite is marked DEAD").
AckedIsRecorded == \A m \in acked : write[Cmd[m].key].status # "NONE"

(***************************************************************************)
(* Liveness.  The handlers run as long as the process does, JetStream      *)
(* redelivers what is not acknowledged, and time goes by; no failure and   *)
(* no crash has to happen.                                                 *)
(***************************************************************************)
Fairness ==
  /\ \A w \in Workers : WF_vars(Work(w))
  /\ \A m \in Msgs : WF_vars(AckWaitExpires(m))

FairSpec == Spec /\ Fairness

\* A batch handler always comes back: splitting, retries and drains end.
BatchesReturn == \A w \in Workers : pc[w] # "idle" ~> pc[w] = "idle"

\* Every command ends up persisted, dead-lettered, or refused because another
\* command holds its key: it leaves a row either way.
CommandsAreRecorded == \A m \in Msgs : <>(write[Cmd[m].key].status # "NONE")


=============================================================================
