------------------------------ MODULE RoomLog ------------------------------
(***************************************************************************)
(* What the asynchronous write path promises to the readers of a room.     *)
(* Each room is an append-only log of requests; a request is in at most    *)
(* one log, once; a dead-lettered request is never in a log; an event is   *)
(* sent only for what is in a log.                                         *)
(***************************************************************************)
EXTENDS Integers, Sequences

CONSTANTS Keys, Rooms

VARIABLES
  log,    \* the requests of each room, in roomSequence order
  dead,   \* requests given up
  sent    \* requests whose message.created event was sent

vars == <<log, dead, sent>>

Entries(l) == {l[i] : i \in DOMAIN l}
Logged(logs) == UNION {Entries(logs[r]) : r \in Rooms}

Once(logs) ==
  \A r, s \in Rooms : \A i \in DOMAIN logs[r], j \in DOMAIN logs[s] :
    logs[r][i] = logs[s][j] => r = s /\ i = j

Init ==
  /\ log = [r \in Rooms |-> <<>>]
  /\ dead = {}
  /\ sent = {}

Extends(old, new) ==
  \A r \in Rooms :
    /\ Len(old[r]) <= Len(new[r])
    /\ \A i \in DOMAIN old[r] : new[r][i] = old[r][i]

\* A batch appends new requests to the rooms it touches.
Persist ==
  /\ log' # log
  /\ log' \in [Rooms -> Seq(Keys)]
  /\ Extends(log, log')
  /\ Once(log')
  /\ Logged(log') \cap dead = {}
  /\ UNCHANGED <<dead, sent>>

GiveUp(k) ==
  /\ k \notin dead
  /\ k \notin Logged(log)
  /\ dead' = dead \cup {k}
  /\ UNCHANGED <<log, sent>>

Send(k) ==
  /\ k \notin sent
  /\ k \in Logged(log)
  /\ sent' = sent \cup {k}
  /\ UNCHANGED <<log, dead>>

Next == Persist \/ \E k \in Keys : GiveUp(k) \/ Send(k)

Spec == Init /\ [][Next]_vars

=============================================================================
