-------------------------------- MODULE Chats --------------------------------
(***************************************************************************)
(* Chats of chat-service (chats.service.ts, chats.repository.ts): direct   *)
(* and group chats are created, looked at by their members, and listed     *)
(* with the one that was used last on top.                                 *)
(*                                                                         *)
(* createChat looks for the direct room of the two users and creates one   *)
(* if there is none; the look and the creation are two database calls, and *)
(* nothing in the schema keeps a second room from being created.  A room   *)
(* and its members are one nested insert.  A room goes by the call that    *)
(* made it, and its members are those of the call.  Time is counted in     *)
(* messages and rooms.                                                     *)
(***************************************************************************)
EXTENDS Naturals, SequencesExt

CONSTANTS
  User,
  Looker,     \* users who look at chats
  Nobody,     \* an identifier that no user has
  Call,       \* requests POST /chats
  Request,    \* [by, kind, others]: the caller, the type and member_ids
  May,        \* the requests each call may be
  MaxTime,    \* bound of the clock
  MaxFaults   \* bound of failed database calls

ChatsAssumption ==
  /\ May \in [Call -> SUBSET Request] /\ Looker \subseteq User /\ Nobody \notin User \cup Call
  /\ \A q \in Request :
       q.by \in User /\ q.others \subseteq User \cup {Nobody} /\ IsFiniteSet(q.others)
  /\ MaxTime \in Nat /\ MaxFaults \in Nat

VARIABLES
  request,  \* what each call is
  rooms,    \* calls that made a room
  created,  \* Room.createdAt
  lastAt,   \* Room.lastMessageAt
  newest,   \* createdAt of the newest Message row of a room, 0: none
  step,     \* what each call awaits
  answer,   \* status and room of each answered call
  list,     \* the last request for chats: by whom, the rooms it found, when they had
            \* been used by then, the answer, and when its rooms had been used by then
  clock, faults,
  seen      \* history: the rooms there were when a call began

table == <<rooms, created>>
chatVars == <<request, table, lastAt, newest, step, answer, list, clock, faults, seen>>

NoRequest == [by |-> Nobody, kind |-> "none", others |-> {}]
NoAnswer == [status |-> 0, room |-> Nobody]
NoList == [to |-> Nobody, was |-> << >>, chats |-> << >>, used |-> << >>]

Group(c) == request[c].kind = "group"
Direct(c) == request[c].kind = "direct"
By(c) == request[c].by
Others(c) == request[c].others
Members(c) == Others(c) \cup {By(c)}
Touched(r) == IF newest[r] # 0 THEN newest[r] ELSE created[r]

ChatsInit ==
  /\ request = [c \in Call |-> NoRequest]
  /\ rooms = {}
  /\ created = [c \in Call |-> 0]
  /\ lastAt = [c \in Call |-> 0]
  /\ newest = [c \in Call |-> 0]
  /\ step = [c \in Call |-> "idle"]
  /\ answer = [c \in Call |-> NoAnswer]
  /\ list = NoList
  /\ clock = 0 /\ faults = 0
  /\ seen = [c \in Call |-> {}]

Tick == clock < MaxTime /\ clock' = clock + 1
Goto(c, s) == step' = [step EXCEPT ![c] = s]
Reply(c, status, r) ==
  /\ answer' = [answer EXCEPT ![c] = [status |-> status, room |-> r]]
  /\ Goto(c, "done")

-----------------------------------------------------------------------------
(* The rooms of a user, and the direct rooms of two.                         *)
RoomsOf(u) == {r \in rooms : u \in Members(r)}

(* A bug: a direct room belongs to the one who opened it.                    *)
BrokenCandidates(u, v) == {r \in RoomsOf(u) \cap RoomsOf(v) : ~Group(r) /\ By(r) = u}

(* findDirectRoomCandidates, and those of two members among them.            *)
Candidates(u, v) ==
  {r \in RoomsOf(u) \cap RoomsOf(v) : ~Group(r) /\ Cardinality(Members(r)) = 2}

Target(c) == CHOOSE x \in Others(c) : TRUE

(* What is refused before the database is asked; of another type is also a   *)
(* group without a name.                                                     *)
Invalid(q) ==
  \/ q.kind \notin {"direct", "group"}
  \/ q.kind = "direct" /\ Cardinality(q.others) # 1
  \/ q.kind = "group" /\ q.others = {}

Begin(c) ==
  /\ step[c] = "idle"
  /\ \E q \in May[c] :
       /\ request' = [request EXCEPT ![c] = q]
       /\ IF Invalid(q) THEN Reply(c, 400, Nobody) ELSE Goto(c, "resolve") /\ UNCHANGED answer
  /\ seen' = [seen EXCEPT ![c] = rooms]
  /\ UNCHANGED <<table, lastAt, newest, list, clock, faults>>

(* Every identifier has to be that of a user, and of another one in a direct *)
(* chat.                                                                      *)
Resolve(c) ==
  /\ step[c] = "resolve"
  /\ CASE Nobody \in Others(c) -> Reply(c, 422, Nobody)
       [] Direct(c) /\ Others(c) = {By(c)} -> Reply(c, 400, Nobody)
       [] OTHER -> Goto(c, IF Direct(c) THEN "look" ELSE "create") /\ UNCHANGED answer
  /\ UNCHANGED <<request, table, lastAt, newest, list, clock, faults, seen>>

(* The query has no order: any of several rooms may be the first.            *)
Look(c) ==
  /\ step[c] = "look"
  /\ LET found == Candidates(By(c), Target(c))
     IN  IF found = {}
         THEN Goto(c, "create") /\ UNCHANGED answer
         ELSE \E r \in found : Reply(c, 200, r)
  /\ UNCHANGED <<request, table, lastAt, newest, list, clock, faults, seen>>

(* createDirectRoom and createGroupRoom: the creator is a member, and nobody *)
(* is one twice.                                                              *)
InsertRoom(c) ==
  /\ Tick
  /\ rooms' = rooms \cup {c}
  /\ created' = [created EXCEPT ![c] = clock']
  /\ lastAt' = [lastAt EXCEPT ![c] = clock']
  /\ UNCHANGED <<request, newest, list, seen>>

CreateRoom(c) ==
  /\ step[c] = "create"
  /\ InsertRoom(c)
  /\ \/ Reply(c, 201, c) /\ UNCHANGED faults
     \/ faults < MaxFaults /\ faults' = faults + 1 /\ Reply(c, 500, Nobody)

(* A query fails, or an insert does without effect.                          *)
Fails(c) ==
  /\ step[c] \in {"resolve", "look", "create"}
  /\ faults < MaxFaults
  /\ faults' = faults + 1
  /\ Reply(c, 500, Nobody)
  /\ UNCHANGED <<request, table, lastAt, newest, list, clock, seen>>

-----------------------------------------------------------------------------
(* A message is stored in a room (createMessage, or the writer); the room is *)
(* touched by a later call of createMessage, which may never come.           *)
StoreMessage(r) ==
  /\ r \in rooms
  /\ Tick
  /\ newest' = [newest EXCEPT ![r] = clock']
  /\ UNCHANGED <<request, table, lastAt, step, answer, list, faults, seen>>

TouchRoom(r) ==
  /\ lastAt[r] < newest[r]
  /\ lastAt' = [lastAt EXCEPT ![r] = newest[r]]
  /\ UNCHANGED <<request, table, newest, step, answer, list, clock, faults, seen>>

(* A bug: the order of the query is kept.                                    *)
BrokenByActivity(s) == \A i, j \in DOMAIN s : i < j => lastAt[s[i]] >= lastAt[s[j]]

(* The query orders by lastMessageAt; the answer is sorted once more, by the *)
(* last message itself or, without one, by the creation of the room.         *)
ByActivity(s) == \A i, j \in DOMAIN s : i < j => Touched(s[i]) >= Touched(s[j])

(* The rooms are found.  A bound of the model: one request for chats is      *)
(* answered before the next one comes.                                       *)
Find(u, found) ==
  /\ Len(list.chats) = Cardinality(DOMAIN list.was)
  /\ list' = [NoList EXCEPT !.to = u, !.was = [r \in found |-> Touched(r)]]
  /\ UNCHANGED <<request, table, lastAt, newest, step, answer, clock, faults, seen>>

(* GET /chats, and GET /chats/:id: a room of others is not found.            *)
ListChats(u) == Find(u, RoomsOf(u))
GetChat(u, r) == Find(u, RoomsOf(u) \cap {r})

(* The last messages of the rooms, which findMembershipsForUser includes,     *)
(* come with a query of their own (Prisma reads relations after the rows      *)
(* they belong to).  The query for PENDING writes finds nothing: a            *)
(* MessageWrite is inserted and leaves PENDING in one transaction.            *)
LoadMessages ==
  /\ list.chats = << >> /\ DOMAIN list.was # {}
  /\ \E s \in SetToSeqs(DOMAIN list.was) :
       /\ ByActivity(s)
       /\ list' = [list EXCEPT !.chats = s, !.used = [i \in DOMAIN s |-> Touched(s[i])]]
  /\ UNCHANGED <<request, table, lastAt, newest, step, answer, clock, faults, seen>>

-----------------------------------------------------------------------------
CreateChat(c) == Begin(c) \/ Resolve(c) \/ Look(c) \/ CreateRoom(c) \/ Fails(c)

ChatsNext ==
  \/ \E c \in Call : CreateChat(c) \/ StoreMessage(c) \/ TouchRoom(c)
  \/ LoadMessages
  \/ \E u \in Looker : ListChats(u) \/ \E r \in Call : GetChat(u, r)

ChatsSpec == ChatsInit /\ [][ChatsNext]_chatVars

-----------------------------------------------------------------------------
ChatsTypeOK ==
  /\ request \in [Call -> Request \cup {NoRequest}]
  /\ rooms \subseteq Call
  /\ \A c \in Call : created[c] \in 0..clock /\ lastAt[c] \in 0..clock /\ newest[c] \in 0..clock
  /\ step \in [Call -> {"idle", "resolve", "look", "create", "done"}]
  /\ answer \in [Call -> [status : {0, 200, 201, 400, 422, 500}, room : Call \cup {Nobody}]]
  /\ list.to \in User \cup {Nobody} /\ Range(list.chats) \subseteq rooms
  /\ seen \in [Call -> SUBSET Call]

(* The direct rooms of the pair of a call.                                   *)
PairRooms(c) == {r \in rooms : ~Group(r) /\ Members(r) = {By(c), Target(c)}}

(* Whoever asks for a direct chat gets a direct room of exactly the two, and *)
(* a pair gets a second room only from calls that were under way at the same *)
(* time: a call that begins when there is a room, also one of a creator that *)
(* was told 500, makes none (chats.service.ts:188-206).                       *)
OneRoomUnlessTogether ==
  \A c \in Call : Direct(c) =>
    /\ answer[c].status \in {200, 201} => answer[c].room \in PairRooms(c)
    /\ c \in rooms => seen[c] \cap PairRooms(c) = {}

(* In a list of chats a room stands above another only if it has been used   *)
(* no earlier than the other had been when the list was asked for, although  *)
(* the lastMessageAt that orders the first query may be behind for good,     *)
(* createMessage storing a message and touching the room in two calls, and   *)
(* although messages come in between the queries of the list; and everybody  *)
(* sees rooms of their own alone (chats.service.ts:152-158).                  *)
ListIsByActivity ==
  /\ \A i, j \in DOMAIN list.chats : i < j => list.used[i] >= list.was[list.chats[j]]
  /\ \A r \in Range(list.chats) : list.to \in Members(r)
=============================================================================
