---------------------------- MODULE RestMessages ----------------------------
(***************************************************************************)
(* POST /chats/:id/messages: createMessage of chat-service (chats.service. *)
(* ts, chats.repository.ts), the idempotency cache in Redis (idempotency.  *)
(* ts) and the room event (message-events.ts), beside the message writer,  *)
(* which may get the same request as a command: clients send a request id  *)
(* with both and retry with the same one.                                  *)
(*                                                                         *)
(* A request stands for a pair <sender, request_id>.  Clients make the ids *)
(* up (ULIDs), so a request belongs to one room; rooms share nothing else, *)
(* and one room is the whole of it.  A call without a request id behaves   *)
(* like one whose request nobody else makes.  Every await ends a step.     *)
(***************************************************************************)
EXTENDS Naturals, FiniteSets

CONSTANTS
  Req,          \* requests of the members of the room
  Call,         \* HTTP requests; several may carry the same request
  Outsider,     \* requests whose sender is not a member
  Buffered,     \* requests that are also in the write buffer
  ReqOf,        \* the request of each call
  MaxTime,      \* bound of createdAt
  MaxFaults,    \* bound of failed calls to PostgreSQL and Redis
  MaxCrashes,   \* bound of calls that die with their process
  Writer,       \* names the writer as the maker of a message
  None

RestAssumption ==
  /\ ReqOf \in [Call -> Req]
  /\ Outsider \subseteq Req /\ Buffered \subseteq Req \ Outsider
  /\ MaxTime \in Nat \ {0} /\ MaxFaults \in Nat /\ MaxCrashes \in Nat
  /\ Writer \notin Call /\ None \notin Call \cup {Writer}

VARIABLES
  message,    \* Message rows by request: who made the row, its sequence and createdAt
  nextSeq,    \* Room.nextMessageSeq
  lastAt,     \* Room.lastMessageAt
  persisted,  \* requests whose MessageWrite is PERSISTED
  outbox,     \* requests with a MessageOutbox row
  cache,      \* idempotency:message:<sender>:<request>
  pc,         \* each call's next step
  msg,        \* the message a call holds, as the maker of its row
  fresh,      \* calls that made the row themselves (not recoveredDuplicate)
  answered,   \* the message of each 201 answer
  published,  \* room events chat-service published for each request
  faults, crashes

vars == <<message, nextSeq, lastAt, persisted, outbox, cache, pc, msg, fresh,
          answered, published, faults, crashes>>
db == <<message, nextSeq, lastAt, persisted, outbox>>
local == <<msg, fresh>>

Time == 1..MaxTime
Maker == Call \cup {Writer}
NoMsg == [maker |-> None, seq |-> 0, at |-> 0]
Stored(q) == message[q] # NoMsg

Init ==
  /\ message = [q \in Req |-> NoMsg]
  /\ nextSeq = 1
  /\ lastAt = 0
  /\ persisted = {} /\ outbox = {}
  /\ cache = [q \in Req |-> None]
  /\ pc = [c \in Call |-> "idle"]
  /\ msg = [c \in Call |-> None]
  /\ fresh = {}
  /\ answered = [c \in Call |-> None]
  /\ published = [q \in Req |-> 0]
  /\ faults = 0 /\ crashes = 0

Fault == faults < MaxFaults /\ faults' = faults + 1
Later(s, t) == IF s < t THEN t ELSE s
To(c, next) == pc' = [pc EXCEPT ![c] = next]
Answer(c, m) == answered' = [answered EXCEPT ![c] = m] /\ To(c, "done")

-----------------------------------------------------------------------------
(* The transaction: lock the room, take its next number, insert the row.     *)
Insert(q, maker, t) ==
  /\ ~Stored(q)
  /\ message' = [message EXCEPT ![q] = [maker |-> maker, seq |-> nextSeq, at |-> t]]
  /\ nextSeq' = nextSeq + 1

(* A bug: the number is taken before the transaction, which then rolls back. *)
BrokenRollBack == nextSeq' = nextSeq + 1 /\ UNCHANGED <<message, lastAt, persisted, outbox>>

(* A transaction that fails leaves nothing, the number it took included.     *)
RollBack == UNCHANGED db

(* A bug: whoever knows the room may write.                                  *)
BrokenCheckMember(c) ==
  /\ pc[c] = "idle"
  /\ To(c, "cache")
  /\ UNCHANGED <<db, cache, local, answered, published, faults, crashes>>

CheckMember(c) ==
  /\ pc[c] = "idle"
  /\ To(c, IF ReqOf[c] \in Outsider THEN "refused" ELSE "cache")
  /\ UNCHANGED <<db, cache, local, answered, published, faults, crashes>>

ReadCache(c) ==
  /\ pc[c] = "cache"
  /\ IF cache[ReqOf[c]] # None THEN Answer(c, cache[ReqOf[c]])
     ELSE To(c, "create") /\ UNCHANGED answered
  /\ UNCHANGED <<db, cache, local, published, faults, crashes>>

(* A cache that does not answer is a cache without the message.              *)
ReadCacheFails(c) ==
  /\ pc[c] = "cache"
  /\ Fault
  /\ To(c, "create")
  /\ UNCHANGED <<db, cache, local, answered, published, crashes>>

CreateRow(c) ==
  /\ pc[c] = "create"
  /\ \E t \in Time : Insert(ReqOf[c], c, t)
  /\ msg' = [msg EXCEPT ![c] = c]
  /\ fresh' = fresh \cup {c}
  /\ To(c, "touch")
  /\ UNCHANGED <<lastAt, persisted, outbox, cache, answered, published, faults, crashes>>

(* P2002: somebody made the row.                                              *)
Duplicate(c) ==
  /\ pc[c] = "create"
  /\ Stored(ReqOf[c])
  /\ RollBack
  /\ To(c, "find")
  /\ UNCHANGED <<cache, local, answered, published, faults, crashes>>

(* A bug: the answer is made from the row the call meant to insert.          *)
BrokenFindRow(c) ==
  /\ pc[c] = "find"
  /\ msg' = [msg EXCEPT ![c] = c]
  /\ To(c, "remember")
  /\ UNCHANGED <<db, cache, fresh, answered, published, faults, crashes>>

FindRow(c) ==
  /\ pc[c] = "find"
  /\ msg' = [msg EXCEPT ![c] = message[ReqOf[c]].maker]
  /\ To(c, "remember")
  /\ UNCHANGED <<db, cache, fresh, answered, published, faults, crashes>>

Touch(c) ==
  /\ pc[c] = "touch"
  /\ lastAt' = Later(lastAt, message[ReqOf[c]].at)
  /\ To(c, "remember")
  /\ UNCHANGED <<message, nextSeq, persisted, outbox, cache, local, answered, published,
                 faults, crashes>>

(* A query fails, carried out or not, and the client gets an error: 500.     *)
QueryFails(c) ==
  /\ pc[c] \in {"idle", "create", "find", "touch"}
  /\ Fault
  /\ To(c, "error")
  /\ \/ RollBack
     \/ /\ pc[c] = "create"
        /\ \E t \in Time : Insert(ReqOf[c], c, t)
        /\ UNCHANGED <<lastAt, persisted, outbox>>
     \/ /\ pc[c] = "touch"
        /\ lastAt' = Later(lastAt, message[ReqOf[c]].at)
        /\ UNCHANGED <<message, nextSeq, persisted, outbox>>
  /\ UNCHANGED <<cache, local, answered, published, crashes>>

(* A bug: a message that was found is published again.                       *)
BrokenPublishes(c) == c \in Call

(* A bug: what is also in the write buffer is left to the writer to announce.*)
BrokenLeftToWriter(c) == c \in fresh /\ ReqOf[c] \notin Buffered

(* Only the call that made the row publishes its event.                      *)
Publishes(c) == c \in fresh

Continue(c) ==
  IF Publishes(c) THEN To(c, "publish") /\ UNCHANGED answered ELSE Answer(c, msg[c])

Remember(c) ==
  /\ pc[c] = "remember"
  /\ cache' = [cache EXCEPT ![ReqOf[c]] = msg[c]]
  /\ Continue(c)
  /\ UNCHANGED <<db, local, published, faults, crashes>>

(* Carried out or not, the call goes on without an error.                    *)
RememberFails(c) ==
  /\ pc[c] = "remember"
  /\ Fault
  /\ cache' \in {cache, [cache EXCEPT ![ReqOf[c]] = msg[c]]}
  /\ Continue(c)
  /\ UNCHANGED <<db, local, published, crashes>>

Publish(c) ==
  /\ pc[c] = "publish"
  /\ published' = [published EXCEPT ![ReqOf[c]] = @ + 1]
  /\ Answer(c, msg[c])
  /\ UNCHANGED <<db, cache, local, faults, crashes>>

(* A failed publish is not an error: the event is lost, unless only the      *)
(* reply was.                                                                *)
PublishFails(c) ==
  /\ pc[c] = "publish"
  /\ Fault
  /\ published' \in {published, [published EXCEPT ![ReqOf[c]] = @ + 1]}
  /\ Answer(c, msg[c])
  /\ UNCHANGED <<db, cache, local, crashes>>

-----------------------------------------------------------------------------
(* Five minutes pass.                                                        *)
ExpireCache(q) ==
  /\ cache[q] # None
  /\ cache' = [cache EXCEPT ![q] = None]
  /\ UNCHANGED <<db, pc, local, answered, published, faults, crashes>>

Crash(c) ==
  /\ pc[c] \in {"cache", "create", "find", "touch", "remember", "publish"}
  /\ crashes < MaxCrashes
  /\ crashes' = crashes + 1
  /\ To(c, "error")
  /\ UNCHANGED <<db, cache, local, answered, published, faults>>

(* The writer's transaction for a command (module MessageWriter): it skips a *)
(* request that has its message, and settles its MessageWrite all the same.  *)
WriterPersists(q) ==
  /\ q \in Buffered /\ q \notin persisted
  /\ \E t \in Time :
       IF Stored(q) THEN UNCHANGED <<message, nextSeq, outbox, lastAt>>
       ELSE /\ Insert(q, Writer, t)
            /\ outbox' = outbox \cup {q}
            /\ lastAt' = Later(lastAt, t)
  /\ persisted' = persisted \cup {q}
  /\ UNCHANGED <<cache, pc, local, answered, published, faults, crashes>>

-----------------------------------------------------------------------------
CreateMessage(c) ==
  \/ CheckMember(c) \/ ReadCache(c) \/ ReadCacheFails(c) \/ CreateRow(c) \/ Duplicate(c)
  \/ FindRow(c) \/ Touch(c) \/ QueryFails(c) \/ Remember(c) \/ RememberFails(c)
  \/ Publish(c) \/ PublishFails(c)

Next ==
  \/ \E c \in Call : CreateMessage(c) \/ Crash(c)
  \/ \E q \in Req : ExpireCache(q) \/ WriterPersists(q)

Spec == Init /\ [][Next]_vars

-----------------------------------------------------------------------------
(* Types; a call that is refused has gone no further.                        *)
TypeOK ==
  /\ message \in [Req -> {NoMsg} \cup [maker : Maker, seq : Nat, at : Time]]
  /\ nextSeq \in Nat
  /\ lastAt \in 0..MaxTime
  /\ persisted \subseteq Buffered /\ outbox \subseteq Buffered
  /\ cache \in [Req -> Maker \cup {None}]
  /\ pc \in [Call -> {"idle", "refused", "cache", "create", "find", "touch", "remember",
                      "publish", "done", "error"}]
  /\ msg \in [Call -> Maker \cup {None}]
  /\ \A c \in Call : ReqOf[c] \in Outsider => pc[c] \in {"idle", "refused", "error"}
  /\ fresh \subseteq Call
  /\ answered \in [Call -> Maker \cup {None}]
  /\ published \in [Req -> Nat]
  /\ faults \in 0..MaxFaults /\ crashes \in 0..MaxCrashes

(* REST and the writer number the messages of a room 1, 2, 3 ... between     *)
(* them, although REST's transactions roll back on a duplicate               *)
(* (chats.repository.ts:186-215, message-write.processor.ts:161-210).         *)
ContiguousSequences ==
  LET rows == {q \in Req : Stored(q)}
  IN  /\ {message[q].seq : q \in rows} = 1..(nextSeq - 1)
      /\ Cardinality(rows) = nextSeq - 1

(* Every answer to a request, from the cache, the insert or the row that was *)
(* found, is the stored message, also after a crash, across the writer and   *)
(* with the cache failing (chats.service.ts:318-352); spec.md: the same      *)
(* request_id is not written twice.                                           *)
AnswersAgree ==
  /\ \A c \in Call : answered[c] # None => answered[c] = message[ReqOf[c]].maker
  /\ \A q \in Req : cache[q] # None => cache[q] = message[q].maker

(* One path announces a message, the one that made its row, and a retry does *)
(* not announce it again (chats.service.ts:351).                              *)
OneAnnouncement ==
  \A q \in Req : published[q] <= 1 /\ (published[q] = 1 => q \notin outbox)

(* Calls that made a row, are over, and announced nothing.                   *)
Silent == {c \in Call : /\ message[ReqOf[c]].maker = c
                       /\ pc[c] \in {"done", "error"} /\ published[ReqOf[c]] = 0}

(* When the event of a message is out, Room.lastMessageAt covers the message:*)
(* a client that reloads its chat list because of it finds the room in place.*)
(* And a message REST made goes without its touch or its event only where    *)
(* its own call failed or died, each time a different one: a retry, another  *)
(* call of the request or the writer never gets in between                    *)
(* (chats.service.ts:331-352).                                                *)
EventsFollowTheRoom ==
  /\ \A q \in Req : published[q] > 0 \/ q \in outbox => lastAt >= message[q].at
  /\ \A c \in Call : message[ReqOf[c]].maker = c =>
       lastAt >= message[ReqOf[c]].at \/ pc[c] \in {"touch", "error"}
  /\ Cardinality(Silent) <= faults + crashes
=============================================================================
