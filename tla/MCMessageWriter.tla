-------------------------- MODULE MCMessageWriter --------------------------
(* Small instances of MessageWriter for TLC. *)
EXTENDS WriterRoomLog, TLC

CONSTANTS m1, m2, m3, k1, k2, r1, r2, hello, bye, w1, w2

C(k, r, b, t) == [key |-> k, room |-> r, body |-> b, acceptedAt |-> t]

\* One request id used for two different messages.
MCConflict == m1 :> C(k1, r1, hello, 1) @@ m2 :> C(k1, r2, bye, 2)

\* A batch with both of them and another message.
MCConflictAndOther == MCConflict @@ m3 :> C(k2, r1, hello, 3)

\* One command.
MCOne == m1 :> C(k1, r1, hello, 1)

\* Two messages of a room, delivered in either order, the older one stored last
\* in some of them.
MCPair == m1 :> C(k1, r1, hello, 2) @@ m3 :> C(k2, r1, hello, 1)

WorkerSymmetry == Permutations(Workers)

=============================================================================
