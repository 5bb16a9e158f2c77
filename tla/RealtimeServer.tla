--------------------------- MODULE RealtimeServer ---------------------------
(***************************************************************************)
(* One process of realtime-service (realtime.server.ts, realtime.service.ts*)
(* and the publishing side of shared-nats): its sockets, the index of which*)
(* sockets belong to which room, the handlers of send and typing frames,   *)
(* and the delivery of room events to the local sockets.                   *)
(*                                                                         *)
(* The process is one event loop, so code between two awaits is one step;  *)
(* at every await any other callback may run, the close of the socket      *)
(* included.  The database query and the code that resumes with its result *)
(* are two steps.  Redis is configured, as main.ts always does: what the   *)
(* server does with presence is in module Presence.                        *)
(***************************************************************************)
EXTENDS Naturals

CONSTANTS
  Sock,        \* sockets
  User,
  Room,
  Call,        \* frames the clients send
  NoRoom, NoSock,
  UserOf,      \* the user whose token a socket presents
  Founded,     \* RoomMember when the server starts, a set of <<user, room>>
  Later,       \* memberships of rooms created while it runs
  Preload,     \* WS_PRELOAD_ROOMS
  Attempts,    \* attempts of publishMessageWriteWithRetry
  MaxFaults    \* failed calls, full send buffers, deaths of the process

ASSUME RealtimeAssumption ==
  /\ UserOf \in [Sock -> User]
  /\ Founded \subseteq User \X Room
  /\ Later \subseteq User \X Room
  /\ Preload \in BOOLEAN
  /\ Attempts \in Nat \ {0}
  /\ MaxFaults \in Nat
  /\ NoRoom \notin Room
  /\ NoSock \notin Sock

VARIABLES
  member,   \* RoomMember rows
  sock,     \* readyState of each socket; "closed" once its close event has run
  clients,  \* clientStates: the sockets the server knows
  rooms,    \* roomIds of each socket's ClientState
  index,    \* roomSockets: the sockets of each room
  setup,    \* the connection handler of each socket
  found,    \* the memberships it read
  call,     \* the frame handlers
  answer,   \* the frame a send was answered with
  stream,   \* commands JetStream has stored
  inbox,    \* messages each socket was sent
  owed,     \* history: sockets that should have had a message when it came by
  faults

vars == <<member, sock, clients, rooms, index, setup, found, call, answer, stream,
          inbox, owed, faults>>
store == <<clients, rooms, index>>
bus == <<stream, inbox, owed>>

NoCall == [sock |-> NoSock, kind |-> "none", room |-> NoRoom, pc |-> "idle", tries |-> 0]

Init ==
  /\ member = Founded
  /\ sock = [s \in Sock |-> "new"]
  /\ clients = {}
  /\ rooms = [s \in Sock |-> {}]
  /\ index = [r \in Room |-> {}]
  /\ setup = [s \in Sock |-> "none"]
  /\ found = [s \in Sock |-> {}]
  /\ call = [k \in Call |-> NoCall]
  /\ answer = [k \in Call |-> "none"]
  /\ stream = {}
  /\ inbox = [s \in Sock |-> {}]
  /\ owed = [k \in Call |-> {}]
  /\ faults = 0

Fault == faults < MaxFaults /\ faults' = faults + 1

-----------------------------------------------------------------------------
(* sendJson: nothing is sent to a socket that is not open, and one whose     *)
(* send buffer is full is closed instead.                                     *)

Recipients(ss) == {s \in ss : sock[s] = "open"}

(* The sockets among ss that get the frame, full being those without room.   *)
SendJson(ss, full) ==
  /\ full \subseteq Recipients(ss)
  /\ IF full = {} THEN UNCHANGED <<sock, faults>>
     ELSE Fault /\ sock' = [s \in Sock |-> IF s \in full THEN "closing" ELSE sock[s]]

(* InMemoryPresenceStore.addSocketToRoom, for every room of rs.              *)
AddSocketToRooms(s, rs) ==
  /\ rooms' = [rooms EXCEPT ![s] = @ \cup rs]
  /\ index' = [r \in Room |-> IF r \in rs THEN index[r] \cup {s} ELSE index[r]]
  /\ UNCHANGED clients

-----------------------------------------------------------------------------
(* The connection handler.                                                    *)

Connect(s) ==
  /\ sock[s] = "new"
  /\ sock' = [sock EXCEPT ![s] = "open"]
  /\ clients' = clients \cup {s}
  /\ setup' = [setup EXCEPT ![s] = IF Preload THEN "query" ELSE "done"]
  /\ UNCHANGED <<member, rooms, index, found, call, answer, bus, faults>>

ReadMemberships(s) ==
  /\ setup[s] = "query"
  /\ found' = [found EXCEPT ![s] = {r \in Room : <<UserOf[s], r>> \in member}]
  /\ setup' = [setup EXCEPT ![s] = "resume"]
  /\ UNCHANGED <<member, sock, store, call, answer, bus, faults>>

(* A failed query closes the socket with 1011.                               *)
MembershipsFail(s) ==
  /\ setup[s] = "query"
  /\ Fault
  /\ setup' = [setup EXCEPT ![s] = "failed"]
  /\ sock' = [sock EXCEPT ![s] = IF @ = "open" THEN "closing" ELSE @]
  /\ UNCHANGED <<member, store, found, call, answer, bus>>

(* A bug: the handler does not look whether the socket is still there.       *)
BrokenStillThere(s) == s \in Sock

(* The socket is open and its state is the one the server holds.            *)
StillThere(s) == sock[s] = "open" /\ s \in clients

IndexMemberships(s) ==
  /\ setup[s] = "resume"
  /\ setup' = [setup EXCEPT ![s] = "done"]
  /\ IF StillThere(s) THEN AddSocketToRooms(s, found[s]) ELSE UNCHANGED store
  /\ UNCHANGED <<member, sock, found, call, answer, bus, faults>>

(* The peer leaves, or the network does.                                      *)
BeginClose(s) ==
  /\ sock[s] = "open"
  /\ sock' = [sock EXCEPT ![s] = "closing"]
  /\ UNCHANGED <<member, store, setup, found, call, answer, bus, faults>>

(* A bug: the room's entry is deleted although other sockets are left.       *)
BrokenRemoveClient(s) ==
  /\ clients' = clients \ {s}
  /\ index' = [r \in Room |-> IF r \in rooms[s] THEN {} ELSE index[r]]
  /\ UNCHANGED rooms

(* removeClient; the ClientState that running handlers still hold keeps its  *)
(* roomIds.                                                                   *)
RemoveClient(s) ==
  /\ clients' = clients \ {s}
  /\ index' = [r \in Room |-> IF r \in rooms[s] THEN index[r] \ {s} ELSE index[r]]
  /\ UNCHANGED rooms

CloseEvent(s) ==
  /\ sock[s] \in {"open", "closing"}
  /\ sock' = [sock EXCEPT ![s] = "closed"]
  /\ RemoveClient(s)
  /\ UNCHANGED <<member, setup, found, call, answer, bus, faults>>

-----------------------------------------------------------------------------
(* handleSend and handleTyping.                                               *)

To(k, pc) == call' = [call EXCEPT ![k].pc = pc]

(* A frame may still be read from a socket that is closing.                  *)
Receive(k, s, kind, r) ==
  /\ call[k] = NoCall
  /\ s \in clients
  /\ call' = [call EXCEPT ![k] = [sock |-> s, kind |-> kind, room |-> r,
                                  pc |-> "limit", tries |-> 0]]
  /\ UNCHANGED <<member, sock, store, setup, found, answer, bus, faults>>

(* The frame a call ends with; it is lost if the socket is not open.         *)
Finish(k, frame, full) ==
  /\ call' = [call EXCEPT ![k].pc = "done"]
  /\ SendJson({call[k].sock}, full)
  /\ answer' = [answer EXCEPT ![k] =
                  IF call[k].sock \in Recipients({call[k].sock}) \ full THEN frame ELSE "lost"]

(* A field of the frame is missing.  The code finds this out as it reads the *)
(* frame; here a close may come in between, and the answer is then lost.     *)
Invalid(k, full) ==
  /\ call[k].pc = "limit"
  /\ Finish(k, "validation_failed", full)
  /\ UNCHANGED <<member, store, setup, found, bus>>

RateLimited(k, full) ==
  /\ call[k].pc = "limit"
  /\ Finish(k, "rate_limited", full)
  /\ UNCHANGED <<member, store, setup, found, bus>>

(* ensureRoomIndexed asks the database about a room it does not know.        *)
Allowed(k) ==
  /\ call[k].pc = "limit"
  /\ To(k, IF call[k].room \in rooms[call[k].sock] THEN "member" ELSE "lookup")
  /\ UNCHANGED <<member, sock, store, setup, found, answer, bus, faults>>

(* A bug: the result of the query is not looked at.                          *)
BrokenIsMember(k) == call[k].room \in Room

IsMember(k) == <<UserOf[call[k].sock], call[k].room>> \in member

LookUp(k) ==
  /\ call[k].pc = "lookup"
  /\ To(k, IF IsMember(k) THEN "index" ELSE "stranger")
  /\ UNCHANGED <<member, sock, store, setup, found, answer, bus, faults>>

(* Unlike the connection handler this one does not look whether the socket   *)
(* is still there.                                                            *)
IndexRoom(k) ==
  /\ call[k].pc = "index"
  /\ AddSocketToRooms(call[k].sock, {call[k].room})
  /\ To(k, "member")
  /\ UNCHANGED <<member, sock, setup, found, answer, bus, faults>>

Forbidden(k, full) ==
  /\ call[k].pc = "stranger"
  /\ Finish(k, "forbidden", full)
  /\ UNCHANGED <<member, store, setup, found, bus>>

(* The frame goes to every socket of the room, the sender's included.        *)
Typing(k, full) ==
  /\ call[k].pc = "member" /\ call[k].kind = "typing"
  /\ SendJson(index[call[k].room], full)
  /\ To(k, "done")
  /\ UNCHANGED <<member, store, setup, found, answer, bus>>

StartPublish(k) ==
  /\ call[k].pc = "member" /\ call[k].kind = "send"
  /\ To(k, "publish")
  /\ UNCHANGED <<member, sock, store, setup, found, answer, bus, faults>>

(* JetStream stores the command; storing it again is recognised by msgID.    *)
Stored(k) ==
  /\ call[k].pc = "publish"
  /\ stream' = stream \cup {k}
  /\ To(k, "stored")
  /\ UNCHANGED <<member, sock, store, setup, found, answer, inbox, owed, faults>>

(* A bug: the publish is not awaited.                                         *)
BrokenAcknowledge(k, full) ==
  /\ call[k].pc \in {"publish", "stored"}
  /\ Finish(k, "ack", full)
  /\ UNCHANGED <<member, store, setup, found, bus>>

Acknowledge(k, full) ==
  /\ call[k].pc = "stored"
  /\ Finish(k, "ack", full)
  /\ UNCHANGED <<member, store, setup, found, bus>>

(* A bug: one attempt too many.                                               *)
BrokenPublishFails(k) ==
  /\ call[k].pc \in {"publish", "stored"}
  /\ Fault
  /\ IF call[k].tries < Attempts
     THEN call' = [call EXCEPT ![k].pc = "publish", ![k].tries = @ + 1]
     ELSE To(k, "failed")
  /\ UNCHANGED <<member, sock, store, setup, found, answer, bus>>

(* An attempt fails, whether or not JetStream stored the command, and is     *)
(* made again unless it was the last.                                         *)
PublishFails(k) ==
  /\ call[k].pc \in {"publish", "stored"}
  /\ Fault
  /\ IF call[k].tries + 1 < Attempts
     THEN call' = [call EXCEPT ![k].pc = "publish", ![k].tries = @ + 1]
     ELSE To(k, "failed")
  /\ UNCHANGED <<member, sock, store, setup, found, answer, bus>>

(* createBufferedMessage turns every failed publish into an AppError, so the *)
(* catch for any other error is never reached.                                *)
BufferUnavailable(k, full) ==
  /\ call[k].pc = "failed"
  /\ Finish(k, "buffer_unavailable", full)
  /\ UNCHANGED <<member, store, setup, found, bus>>

-----------------------------------------------------------------------------
(* broadcastRoomEventToLocalClients: the writer's event comes by, any number *)
(* of times.                                                                  *)

Sender(k) == UserOf[call[k].sock]

(* A bug: only the connection that sent the message is left out.             *)
BrokenRecipientsOf(k) ==
  Recipients({s \in index[call[k].room] \cap clients : s # call[k].sock})

RecipientsOf(k) ==
  Recipients({s \in index[call[k].room] \cap clients : UserOf[s] # Sender(k)})

(* Members whose socket was set up before the event came.                    *)
Entitled(k) ==
  {s \in Sock : /\ sock[s] = "open" /\ setup[s] = "done"
                /\ <<UserOf[s], call[k].room>> \in member
                /\ UserOf[s] # Sender(k)}

RoomEvent(k, full) ==
  /\ k \in stream
  /\ SendJson(RecipientsOf(k), full)
  /\ inbox' = [s \in Sock |-> IF s \in RecipientsOf(k) \ full THEN inbox[s] \cup {k}
                              ELSE inbox[s]]
  /\ owed' = [owed EXCEPT ![k] = @ \cup Entitled(k)]
  /\ UNCHANGED <<member, store, setup, found, call, answer, stream>>

(* chat-service creates a room with all its members at once.                 *)
CreateRoom(r) ==
  /\ \E u \in User : <<u, r>> \in Later \ member
  /\ member' = member \cup {m \in Later : m[2] = r}
  /\ UNCHANGED <<sock, store, setup, found, call, answer, bus, faults>>

(* The query of ensureRoomIndexed fails outside any try: the rejection is    *)
(* unhandled and ends the process, with everything it holds; a new one has   *)
(* no sockets.  A death for any other reason is the same.                     *)
ProcessDies ==
  /\ Fault
  /\ clients # {}
  /\ sock' = [s \in Sock |-> IF sock[s] = "new" THEN "new" ELSE "closed"]
  /\ clients' = {}
  /\ rooms' = [s \in Sock |-> {}]
  /\ index' = [r \in Room |-> {}]
  /\ setup' = [s \in Sock |-> IF setup[s] = "none" THEN "none" ELSE "failed"]
  /\ call' = [k \in Call |-> IF call[k] = NoCall THEN NoCall ELSE [call[k] EXCEPT !.pc = "done"]]
  /\ answer' = [k \in Call |-> IF call[k] # NoCall /\ answer[k] = "none" THEN "lost" ELSE answer[k]]
  /\ UNCHANGED <<member, found, bus>>

-----------------------------------------------------------------------------
Setup(s) == ReadMemberships(s) \/ MembershipsFail(s) \/ IndexMemberships(s)

Handle(k) ==
  \/ Allowed(k) \/ LookUp(k) \/ IndexRoom(k) \/ StartPublish(k) \/ Stored(k)
  \/ PublishFails(k)
  \/ \E full \in SUBSET Sock :
       \/ Invalid(k, full) \/ RateLimited(k, full) \/ Forbidden(k, full)
       \/ Typing(k, full) \/ Acknowledge(k, full) \/ BufferUnavailable(k, full)

Next ==
  \/ \E s \in Sock : Connect(s) \/ Setup(s) \/ BeginClose(s) \/ CloseEvent(s)
  \/ \E k \in Call : Handle(k)
  \/ \E k \in Call, s \in Sock, r \in Room, kind \in {"send", "typing"} : Receive(k, s, kind, r)
  \/ \E k \in Call, full \in SUBSET Sock : RoomEvent(k, full)
  \/ \E r \in Room : CreateRoom(r)
  \/ ProcessDies

Spec == Init /\ [][Next]_vars

-----------------------------------------------------------------------------
TypeOK ==
  /\ member \subseteq User \X Room
  /\ sock \in [Sock -> {"new", "open", "closing", "closed"}]
  /\ clients \subseteq Sock
  /\ rooms \in [Sock -> SUBSET Room]
  /\ index \in [Room -> SUBSET Sock]
  /\ setup \in [Sock -> {"none", "query", "resume", "done", "failed"}]
  /\ found \in [Sock -> SUBSET Room]
  /\ call \in [Call -> [sock : Sock \cup {NoSock}, kind : {"none", "send", "typing"},
                        room : Room \cup {NoRoom},
                        pc : {"idle", "limit", "lookup", "stranger", "index", "member",
                              "publish", "stored", "failed", "done"},
                        tries : 0..(Attempts - 1)]]
  /\ answer \in [Call -> {"none", "lost", "ack", "validation_failed", "rate_limited",
                          "forbidden", "buffer_unavailable"}]
  /\ stream \subseteq Call
  /\ inbox \in [Sock -> SUBSET Call]
  /\ owed \in [Call -> SUBSET Sock]
  /\ faults \in 0..MaxFaults

(* The two sides of the store agree for every socket the server knows, and a *)
(* socket is only ever indexed where its user is a member (realtime.service. *)
(* ts:45-59, realtime.server.ts:147-157).                                     *)
IndexIsRight ==
  \A s \in Sock, r \in Room :
    /\ s \in clients => (s \in index[r] <=> r \in rooms[s])
    /\ s \in index[r] => <<UserOf[s], r>> \in member

(* A socket the server does not know gets into the index, or stays there, in *)
(* one way only: a frame's handler resumes from its look-up after the close  *)
(* (realtime.server.ts:150-155).  The connection handler, which looks again  *)
(* after its query (343), the clean-up of a close and the death of the       *)
(* process leave none.                                                        *)
OnlyFramesLeak ==
  [][\A s \in Sock, r \in Room :
       s \in index'[r] \ clients' =>
         \/ s \in index[r] \ clients
         \/ \E k \in Call : /\ call[k].sock = s /\ call[k].room = r
                           /\ call[k].pc = "index" /\ call'[k].pc = "member"]_vars

(* A message reaches members of its room only, and never a connection of the *)
(* user who sent it, on whatever socket (realtime.server.ts:97, spec.md      *)
(* "Sender echo").                                                            *)
OnlyOtherMembers ==
  \A s \in Sock : \A k \in inbox[s] :
    /\ UserOf[s] # Sender(k)
    /\ <<UserOf[s], call[k].room>> \in member

(* A socket whose handler found the user in a room gets every message that   *)
(* comes by from then on, or has been closed since, whatever other sockets   *)
(* do (realtime.server.ts:88-101, realtime.service.ts:45-59).                 *)
PreloadedAreReached ==
  \A k \in Call : \A s \in owed[k] :
    call[k].room \in found[s] => k \in inbox[s] \/ sock[s] # "open"

(* The message goes to the other members of the room (spec.md:160): every    *)
(* member whose socket was set up when it came by has it, or has been closed. *)
(* The code does not keep this for rooms younger than the connection.         *)
EventsReachMembers ==
  \A k \in Call : \A s \in owed[k] : k \in inbox[s] \/ sock[s] # "open"

(* No send ends without an answer, unless its socket is no longer open to    *)
(* take it; the answer does not come before the end; and an acknowledged     *)
(* message is in the stream and of a member of the room, however often the   *)
(* publish was tried (realtime.server.ts:159-218).                            *)
SendsAreAnswered ==
  \A k \in Call :
    call[k].kind = "send" =>
      /\ call[k].pc = "done" <=> answer[k] # "none"
      /\ answer[k] = "lost" => sock[call[k].sock] # "open"
      /\ answer[k] = "ack" => k \in stream /\ <<Sender(k), call[k].room>> \in member

(* Close cleanup removes dead sockets (realtime.server.ts:63).  The code does *)
(* not keep this.                                                              *)
NoDeadSockets == \A r \in Room : \A s \in index[r] : sock[s] # "closed"
=============================================================================
