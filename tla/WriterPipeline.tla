--------------------------- MODULE WriterPipeline ---------------------------
(***************************************************************************)
(* The consume loop of the message-writer process: startMessageWriter in   *)
(* services/message-writer-service/src/main.ts.  It cuts the messages the  *)
(* JetStream iterator yields into batches, queues the batches, keeps at    *)
(* most Concurrency of them in flight, holds the loop back when the queue  *)
(* is long, and drains everything on close.                                *)
(*                                                                         *)
(* JavaScript runs one callback at a time, so what happens between two     *)
(* awaits is one step: pump and flushCurrentBatch are parts of the step    *)
(* that calls them.  A message is its place in the order of acceptance;    *)
(* what a batch's handler does with it is MessageWriter's business.        *)
(*                                                                         *)
(* Definitions marked "Broken" are plausible bugs that the properties have *)
(* to notice; no behaviour of the specification uses them.                 *)
(***************************************************************************)
EXTENDS Integers, Sequences, FiniteSets

CONSTANTS
  BatchSize,     \* maxBatchSize
  Concurrency,   \* maxBatchConcurrency
  FlushDelay,    \* flushDelayMs
  MaxMessages    \* bound on the messages accepted

ASSUME PipelineAssumption ==
  /\ BatchSize \in Nat \ {0}
  /\ Concurrency \in Nat \ {0}
  /\ FlushDelay \in Nat
  /\ MaxMessages \in Nat

VARIABLES
  loop,           \* "next": awaits the iterator; "held": holds a message back
                  \* until a batch finishes; "done"
  race,           \* the batches the held loop races
  accepted,       \* messages pushed into currentBatch so far
  started,        \* messages handed to a batch handler so far
  handled,        \* messages whose batch handler has finished
  currentBatch,
  pendingBatches,
  inFlight,
  flushTimer,     \* whether the timer is armed
  closing,        \* "no", "awaitLoop", "awaitIdle", "closed"
  idleResolver    \* whether close() waits in waitForIdle

vars == <<loop, race, accepted, started, handled, currentBatch, pendingBatches,
          inFlight, flushTimer, closing, idleResolver>>

Init ==
  /\ loop = "next"
  /\ race = {}
  /\ accepted = 0
  /\ started = 0
  /\ handled = {}
  /\ currentBatch = <<>>
  /\ pendingBatches = <<>>
  /\ inFlight = {}
  /\ flushTimer = FALSE
  /\ closing = "no"
  /\ idleResolver = FALSE

Elements(b) == {b[i] : i \in DOMAIN b}
Contents(S) == UNION {Elements(b) : b \in S}

\* pump() starts as many of the queued batches as there are free slots.
Startable(queued, running) ==
  IF Concurrency - Cardinality(running) < Len(queued)
  THEN Concurrency - Cardinality(running)
  ELSE Len(queued)

Pump(queued, running) ==
  LET n == Startable(queued, running)
  IN  /\ pendingBatches' = SubSeq(queued, n + 1, Len(queued))
      /\ inFlight' = running \cup {queued[i] : i \in 1..n}
      /\ started' = IF n = 0 THEN started ELSE queued[n][Len(queued[n])]

\* Broken: queues the batch without emptying currentBatch.
BrokenFlush(batch) ==
  /\ flushTimer' = FALSE
  /\ currentBatch' = batch
  /\ IF batch = <<>>
     THEN UNCHANGED <<pendingBatches, inFlight, started>>
     ELSE Pump(Append(pendingBatches, batch), inFlight)

\* flushCurrentBatch() on a batch.
Flush(batch) ==
  /\ flushTimer' = FALSE
  /\ currentBatch' = <<>>
  /\ IF batch = <<>>
     THEN UNCHANGED <<pendingBatches, inFlight, started>>
     ELSE Pump(Append(pendingBatches, batch), inFlight)

\* The loop's body once the message may go on: push, then flush or arm the timer.
Push(batch) ==
  IF Len(batch) >= BatchSize \/ FlushDelay = 0
  THEN Flush(batch)
  ELSE /\ currentBatch' = batch
       /\ flushTimer' = TRUE
       /\ UNCHANGED <<pendingBatches, inFlight, started>>

Accept ==
  /\ accepted < MaxMessages
  /\ accepted' = accepted + 1
  /\ Push(Append(currentBatch, accepted + 1))

\* decodeQueuedMessageWrite acknowledged or rejected the message.
Undecodable ==
  UNCHANGED <<accepted, started, currentBatch, pendingBatches, inFlight, flushTimer>>

\* Broken: lets one batch too many wait.
BrokenCongested == Len(pendingBatches) > 2 * Concurrency /\ inFlight # {}

\* The condition of the loop's inner while.
Congested == Len(pendingBatches) >= 2 * Concurrency /\ inFlight # {}

\* The rest of an iteration, when the queue is short enough.
Proceed ==
  /\ ~Congested
  /\ loop' = "next"
  /\ race' = {}
  /\ Accept \/ Undecodable
  /\ UNCHANGED <<handled, closing, idleResolver>>

Hold ==
  /\ Congested
  /\ loop' = "held"
  /\ race' = inFlight
  /\ UNCHANGED <<accepted, started, handled, currentBatch, pendingBatches, inFlight,
                 flushTimer, closing, idleResolver>>

\* The iterator yields a message.
Receive ==
  /\ loop = "next"
  /\ closing = "no"
  /\ Proceed \/ Hold

\* Promise.race settles when one of the raced batches has finished; the while
\* condition is evaluated again, closing is not.
Wake ==
  /\ loop = "held"
  /\ ~(race \subseteq inFlight)
  /\ Proceed \/ Hold

\* The iterator ends or fails, or yields a message after close() was called,
\* which is dropped unacknowledged.
LoopEnds ==
  /\ loop = "next"
  /\ loop' = "done"
  /\ UNCHANGED <<race, accepted, started, handled, currentBatch, pendingBatches,
                 inFlight, flushTimer, closing, idleResolver>>

\* Broken: clears the timer and flushes nothing.
BrokenTimerFires ==
  /\ flushTimer
  /\ flushTimer' = FALSE
  /\ UNCHANGED <<loop, race, accepted, started, handled, currentBatch, pendingBatches,
                 inFlight, closing, idleResolver>>

TimerFires ==
  /\ flushTimer
  /\ Flush(currentBatch)
  /\ UNCHANGED <<loop, race, accepted, handled, closing, idleResolver>>

\* Broken: forgets the batches being handled.
BrokenIdle == pendingBatches' = <<>> /\ currentBatch' = <<>>

\* The test of notifyIdle() and waitForIdle(), after the step's other effects.
Idle == pendingBatches' = <<>> /\ inFlight' = {} /\ currentBatch' = <<>>

\* Broken: a finished batch does not pump.
BrokenFinishNoPump(b) ==
  /\ b \in inFlight
  /\ handled' = handled \cup Elements(b)
  /\ inFlight' = inFlight \ {b}
  /\ UNCHANGED <<loop, race, accepted, started, currentBatch, pendingBatches, flushTimer>>
  /\ IF Idle /\ idleResolver
     THEN closing' = "closed" /\ idleResolver' = FALSE
     ELSE UNCHANGED <<closing, idleResolver>>

\* Broken: a finished batch does not notify close().
BrokenFinishNoNotify(b) ==
  /\ b \in inFlight
  /\ handled' = handled \cup Elements(b)
  /\ Pump(pendingBatches, inFlight \ {b})
  /\ UNCHANGED <<loop, race, accepted, currentBatch, flushTimer, closing, idleResolver>>

\* The finally of a batch's task: pump() and notifyIdle().
BatchFinishes(b) ==
  /\ b \in inFlight
  /\ handled' = handled \cup Elements(b)
  /\ Pump(pendingBatches, inFlight \ {b})
  /\ UNCHANGED <<loop, race, accepted, currentBatch, flushTimer>>
  /\ IF Idle /\ idleResolver
     THEN closing' = "closed" /\ idleResolver' = FALSE
     ELSE UNCHANGED <<closing, idleResolver>>

CloseRequested ==
  /\ closing = "no"
  /\ closing' = "awaitLoop"
  /\ UNCHANGED <<loop, race, accepted, started, handled, currentBatch, pendingBatches,
                 inFlight, flushTimer, idleResolver>>

\* close() resumes once the loop has ended: flush, then wait for idle.
CloseFlushes ==
  /\ closing = "awaitLoop"
  /\ loop = "done"
  /\ Flush(currentBatch)
  /\ IF Idle
     THEN closing' = "closed" /\ UNCHANGED idleResolver
     ELSE closing' = "awaitIdle" /\ idleResolver' = TRUE
  /\ UNCHANGED <<loop, race, accepted, handled>>

Next ==
  \/ Receive
  \/ Wake
  \/ LoopEnds
  \/ TimerFires
  \/ \E b \in inFlight : BatchFinishes(b)
  \/ CloseRequested
  \/ CloseFlushes

Spec == Init /\ [][Next]_vars

(***************************************************************************)
(* Properties.                                                             *)
(***************************************************************************)
Batches == Seq(Nat)

TypeOK ==
  /\ loop \in {"next", "held", "done"}
  /\ race \subseteq Batches
  /\ accepted \in Nat
  /\ started \in Nat
  /\ handled \subseteq Nat
  /\ currentBatch \in Batches
  /\ pendingBatches \in Seq(Batches)
  /\ inFlight \subseteq Batches
  /\ IsFiniteSet(inFlight)
  /\ flushTimer \in BOOLEAN
  /\ closing \in {"no", "awaitLoop", "awaitIdle", "closed"}
  /\ idleResolver \in BOOLEAN

\* Backpressure bounds the process's memory although the timer, close() and the
\* loop all push batches: no more than Concurrency batches are handled at once,
\* no more than 2 * Concurrency wait, each of at most BatchSize messages.
BoundedBuffers ==
  /\ Cardinality(inFlight) <= Concurrency
  /\ Len(pendingBatches) <= 2 * Concurrency
  /\ Len(currentBatch) < BatchSize
  /\ \A i \in DOMAIN pendingBatches : Len(pendingBatches[i]) <= BatchSize

\* No batch waits while a slot is free, so no finishing batch leaves the queue
\* with nobody to pump it.
NoIdleSlot == pendingBatches # <<>> => Cardinality(inFlight) = Concurrency

\* A started but unflushed batch always has something that will flush it.
NoStrandedBatch == currentBatch # <<>> => flushTimer

Increasing(b) == \A x, y \in DOMAIN b : x < y => b[x] < b[y]

\* A queue q of nonempty batches that holds exactly the messages after first up
\* to last, in the order of their acceptance.
QueueHolds(q, first, last) ==
  /\ \A i \in DOMAIN q : q[i] # <<>> /\ Increasing(q[i])
  /\ \A i, j \in DOMAIN q : i < j =>
       \A x \in Elements(q[i]), y \in Elements(q[j]) : x < y
  /\ Contents(Elements(q)) = (first + 1)..last

\* Messages that have left currentBatch.
Flushed == accepted - Len(currentBatch)

\* Messages are handed out in the order of their acceptance, none twice and
\* none skipped: the queue continues what was started, currentBatch continues
\* the queue.
InOrder ==
  /\ started <= Flushed
  /\ QueueHolds(pendingBatches, started, Flushed)
  /\ \A i \in DOMAIN currentBatch : currentBatch[i] = Flushed + i

\* What was started is being handled or has been: no started message is lost
\* between pump() and the end of its task.
StartedIsAccountedFor == 1..started = handled \cup Contents(inFlight)

\* close() resolves only when every accepted message has been handled.
CloseDrains == closing = "closed" => handled = 1..accepted /\ loop = "done"

\* While close() waits for idle a batch is in flight whose end will wake it: the
\* wake-up cannot have been lost.
CloseHasAWaker == closing = "awaitIdle" => idleResolver /\ inFlight # {}

\* Whatever waits has something that will wake it, whichever callback ran last: a
\* queued batch the end of a running one (main.ts:86), a batch being built the
\* timer (main.ts:110), close() the last batch (main.ts:152).
NoLostWakeups == NoIdleSlot /\ NoStrandedBatch /\ CloseHasAWaker

\* Messages go through the timer, the queue and the slots to their handlers in
\* the order they were accepted, each once (main.ts:75-133).
HandledInOrder == InOrder /\ StartedIsAccountedFor

(***************************************************************************)
(* The inductive invariant.                                                *)
(***************************************************************************)
\* A batch being built leaves room for itself in the queue: only an iteration
\* that found the queue short starts one, and whatever pushes it ends it.
RoomForCurrent == currentBatch # <<>> => Len(pendingBatches) < 2 * Concurrency

NoEmptyTask == \A b \in inFlight : b # <<>>

ClosePhases ==
  /\ closing \in {"awaitIdle", "closed"} => loop = "done" /\ currentBatch = <<>>
  /\ closing = "closed" => pendingBatches = <<>> /\ inFlight = {}
  /\ idleResolver => closing = "awaitIdle"

IInv ==
  /\ TypeOK
  /\ BoundedBuffers
  /\ NoIdleSlot
  /\ NoStrandedBatch
  /\ InOrder
  /\ StartedIsAccountedFor
  /\ CloseHasAWaker
  /\ RoomForCurrent
  /\ NoEmptyTask
  /\ ClosePhases

(***************************************************************************)
(* Liveness: batches finish, the timer fires, the loop and close() run on, *)
(* and the iterator ends once it is closed.  Nothing has to arrive.        *)
(***************************************************************************)
Fairness ==
  /\ WF_vars(\E b \in inFlight : BatchFinishes(b))
  /\ WF_vars(TimerFires)
  /\ WF_vars(Wake)
  /\ WF_vars(closing # "no" /\ LoopEnds)
  /\ WF_vars(CloseFlushes)

FairSpec == Spec /\ Fairness

\* Every accepted message reaches a handler that finishes.
AcceptedIsHandled == \A n \in 1..MaxMessages : accepted >= n ~> n \in handled

\* close() resolves: no wake-up is lost between the last batch and waitForIdle.
CloseResolves == closing = "awaitLoop" ~> closing = "closed"

=============================================================================
