---------------------------- MODULE PresenceFeed ----------------------------
(***************************************************************************)
(* What other users are shown of the presence of one user: Presence        *)
(* composed with the realtime servers that send presence frames            *)
(* (realtime.server.ts).                                                   *)
(*                                                                         *)
(* A watcher is the socket of somebody who shares a room with the user.    *)
(* Its connection handler enters it in the index of the room, then asks    *)
(* whether the user is online (the ask task of Presence) and sends what it *)
(* learnt.  Independently of that, every event on presence:events starts a *)
(* handler on the watcher's server, which queries the rooms of the user    *)
(* and then sends the event to the sockets the index has by that time.     *)
(***************************************************************************)
EXTENDS Presence, FiniteSets

CONSTANT MaxActors   \* connections and watchers in one behaviour

FeedAssumption == MaxActors \in Nat

VARIABLES
  seat,      \* the socket of each watcher
  inflight,  \* handlers of each event at the server of a watcher, in their query
  shown      \* the last presence frame each watcher was sent

feed == <<seat, inflight, shown>>
feedVars == <<vars, feed>>

Event == {"online", "offline"}
Asking(w) == <<"ask", w>>

FeedInit ==
  /\ Init
  /\ seat = [w \in Asker |-> "new"]
  /\ inflight = [w \in Asker |-> [e \in Event |-> 0]]
  /\ shown = [w \in Asker |-> "none"]

(* A bound of the model: behaviours with more actors are not explored.       *)
Room == Cardinality({c \in Conn : conn[c] # "new"} \cup {w \in Asker : seat[w] # "new"})
          < MaxActors

-----------------------------------------------------------------------------
(* The connection handler of a watcher.                                      *)

(* A bug: the index is filled after the question, with its answer.           *)
BrokenJoin(w) ==
  /\ seat[w] = "new" /\ Room
  /\ seat' = [seat EXCEPT ![w] = "late"]
  /\ UNCHANGED <<vars, inflight, shown>>

(* The memberships have come in, the socket is open: it enters the index.    *)
Join(w) ==
  /\ seat[w] = "new" /\ Room
  /\ seat' = [seat EXCEPT ![w] = "indexed"]
  /\ UNCHANGED <<vars, inflight, shown>>

(* The members of its rooms have come in: each is asked for.                 *)
AskForMember(w) ==
  /\ seat[w] \in {"indexed", "late"}
  /\ StartAsk(w)
  /\ UNCHANGED feed

(* Everybody who is online is announced; nothing is sent for the others.  A  *)
(* socket that is gone is sent nothing.                                      *)
Greet(w) ==
  /\ seat[w] \in {"indexed", "late"}
  /\ pc[Asking(w)] = "done"
  /\ seat' = [seat EXCEPT ![w] = "greeted"]
  /\ shown' = [shown EXCEPT ![w] = IF online[Asking(w)] THEN "online" ELSE @]
  /\ UNCHANGED <<vars, inflight>>

(* isUserOnline is called outside any try block here: the setup fails and    *)
(* closes the socket.                                                        *)
GreetFails(w) ==
  /\ seat[w] \in {"indexed", "late"}
  /\ pc[Asking(w)] = "failed"
  /\ seat' = [seat EXCEPT ![w] = "closed"]
  /\ UNCHANGED <<vars, inflight, shown>>

Leave(w) ==
  /\ seat[w] \in {"indexed", "late", "greeted"}
  /\ seat' = [seat EXCEPT ![w] = "closed"]
  /\ UNCHANGED <<vars, inflight, shown>>

-----------------------------------------------------------------------------
(* An event reaches every server that is subscribed.  Left out are the       *)
(* handlers that will find their watcher gone, or not there within the bound.*)
Awaits(w) == seat[w] # "closed" /\ (seat[w] = "new" => Room)
Arrive(e) ==
  /\ inflight' = [w \in Asker |->
                    IF Awaits(w) THEN [inflight[w] EXCEPT ![e] = @ + 1] ELSE inflight[w]]
  /\ UNCHANGED <<seat, shown>>

Announce(c) ==
  \/ PublishOnline(c) /\ Arrive("online")
  \/ PublishOffline(c) /\ Arrive("offline")

Subscribed(w) == seat[w] \in {"indexed", "greeted"}

(* The memberships of the user have come in: the event is sent to whoever is *)
(* in the index now.  Handlers may overtake each other.                      *)
Forward(w, e) ==
  /\ inflight[w][e] > 0
  /\ inflight' = [inflight EXCEPT ![w][e] = @ - 1]
  /\ shown' = [shown EXCEPT ![w] = IF Subscribed(w) THEN e ELSE @]
  /\ UNCHANGED <<vars, seat>>

(* The query fails.  Nobody handles the rejection: the process ends, and the *)
(* socket with it.                                                           *)
ForwardFails(w, e) ==
  /\ inflight[w][e] > 0
  /\ faults < MaxFaults
  /\ faults' = faults + 1
  /\ seat' = [seat EXCEPT ![w] = "closed"]
  /\ inflight' = [inflight EXCEPT ![w] = [f \in Event |-> 0]]
  /\ UNCHANGED <<conn, keys, members, pc, scan, last, crashes, added, shown>>

-----------------------------------------------------------------------------
Quietly(A) == A /\ UNCHANGED feed

Opens(c) == Room /\ Connect(c)
Stores(c) == SetAndAdd(c) \/ DeleteKey(c) \/ RemoveMember(c)
Moves(c) == CheckOpen(c) \/ StartRegister(c) \/ Close(c) \/ Crash(c) \/ Expire(c)

Handled(w) ==
  \/ AskForMember(w)
  \/ Greet(w)
  \/ GreetFails(w)
  \/ \E e \in Event : Forward(w, e)

FeedNext ==
  \/ \E t \in Task : Quietly(Scan(t)) \/ Quietly(CallFails(t))
  \/ \E c \in Conn : Quietly(Stores(c)) \/ Announce(c) \/ Quietly(Opens(c)) \/ Quietly(Moves(c))
  \/ \E w \in Asker :
       Join(w) \/ Handled(w) \/ Leave(w) \/ \E e \in Event : ForwardFails(w, e)

(* A call that was started is answered, a handler that waits for a query     *)
(* goes on when it ends, and a key that nobody refreshes expires; nobody has *)
(* to connect, close, fail or crash.                                         *)
FeedFairness ==
  /\ \A t \in Task : WF_feedVars(Quietly(Scan(t)))
  /\ \A c \in Conn : WF_feedVars(Quietly(Stores(c)) \/ Announce(c))
  /\ \A c \in Conn : WF_feedVars(Quietly(StartRegister(c))) /\ WF_feedVars(Quietly(Lapse(c)))
  /\ \A w \in Asker : WF_feedVars(Handled(w))

FeedSpec == FeedInit /\ [][FeedNext]_feedVars /\ FeedFairness

-----------------------------------------------------------------------------
FeedTypeOK ==
  /\ seat \in [Asker -> {"new", "late", "indexed", "greeted", "closed"}]
  /\ inflight \in [Asker -> [Event -> Nat]]
  /\ shown \in [Asker -> {"none"} \cup Event]

(* A user with one connection, which stays, is shown as online to everybody  *)
(* who stays connected, if nothing fails: between the question a new socket  *)
(* asks and the events that pass it by, the user's coming is not missed      *)
(* (realtime.server.ts:344-351).  With a second connection that closes this  *)
(* is not so: see LastEventIsTrue.                                           *)
Alone(c) == \A d \in Conn \ {c} : conn[d] = "new"
WatchersLearn ==
  \A c \in Conn, w \in Asker :
    [](faults = 0) /\ <>[](c \in Live /\ Alone(c) /\ seat[w] = "greeted")
      => <>[](shown[w] = "online")
=============================================================================
