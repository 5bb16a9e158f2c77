--------------------------- MODULE WriterRoomLog ---------------------------
(***************************************************************************)
(* The message writer as an implementation of the room log: the refinement *)
(* mapping reads the logs off the Message rows, the dead requests off the  *)
(* MessageWrite rows and the sent ones off what went to Redis.             *)
(***************************************************************************)
EXTENDS MessageWriter

\* The room logs as the tables hold them.
LogOf(r) ==
  [i \in 1..(nextSeq[r] - 1) |->
     LET at == {k \in PersistedIn(r) : message[k].seq = i}
     IN  IF at = {} THEN NoMsg ELSE CHOOSE k \in at : TRUE]

Abstract == INSTANCE RoomLog WITH
  log  <- [r \in Rooms |-> LogOf(r)],
  dead <- {k \in Keys : write[k].status = "DEAD"},
  sent <- fanned

\* The writer implements the room log: batches, redeliveries and dead letters
\* amount to appending requests to rooms, giving requests up and sending events
\* (processMessageWriteCommands, markMessageWriteCommandDead, drainMessageOutbox).
ImplementsRoomLog == Abstract!Spec

=============================================================================
