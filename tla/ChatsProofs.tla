----------------------------- MODULE ChatsProofs -----------------------------
(***************************************************************************)
(* Theorems about Chats: however many users create and look at chats, a    *)
(* pair gets a second direct room only from calls that overlap, and what   *)
(* was used last is on top of every list.                                  *)
(***************************************************************************)
EXTENDS Chats, FiniteSetTheorems, TLAPS

Steps == {"idle", "resolve", "look", "create", "done"}
Answers == [status : {0, 200, 201, 400, 422, 500}, room : Call \cup {Nobody}]

Typed ==
  /\ request \in [Call -> Request \cup {NoRequest}]
  /\ rooms \subseteq Call
  /\ created \in [Call -> Nat] /\ lastAt \in [Call -> Nat] /\ newest \in [Call -> Nat]
  /\ step \in [Call -> Steps]
  /\ answer \in [Call -> Answers]
  /\ clock \in Nat
  /\ seen \in [Call -> SUBSET Call]

(* Times come from the clock.                                                *)
TimesAreOfThePast ==
  \A c \in Call : created[c] <= clock /\ lastAt[c] <= clock /\ newest[c] <= clock

(* A direct chat that passed validation has one other member; once resolved, *)
(* it is not the caller.                                                     *)
Pair(c) == \E x \in Others(c) : Others(c) = {x} /\ x # By(c)

RequestsAreValid ==
  \A c \in Call :
    /\ step[c] \in {"look", "create"} \/ c \in rooms => Group(c) \/ Pair(c)
    /\ step[c] = "look" => Direct(c)
    /\ step[c] = "resolve" /\ ~Group(c) => \E x \in Others(c) : Others(c) = {x}
    /\ step[c] = "resolve" /\ ~Group(c) => Direct(c)

(* A call makes its room with its last step, and sees only rooms there are.  *)
RoomsAreMadeLast ==
  /\ \A r \in rooms : step[r] = "done"
  /\ \A c \in Call : seen[c] \subseteq rooms

(* Whoever is about to create a direct room, or has, found none of the pair. *)
NoneWasSeen ==
  \A c \in Call :
    Direct(c) /\ (step[c] = "create" \/ c \in rooms) => seen[c] \cap PairRooms(c) = {}

AnswersAreRooms ==
  \A c \in Call : answer[c].status \in {200, 201} =>
    step[c] = "done" /\ (Direct(c) => answer[c].room \in PairRooms(c))

(* A list remembers when its rooms had been used: never later than now.      *)
ListIsOfRooms ==
  /\ list = [to |-> list.to, was |-> list.was, chats |-> list.chats, used |-> list.used]
  /\ list.to \in User \cup {Nobody}
  /\ \A r \in DOMAIN list.was :
       r \in rooms /\ list.to \in Members(r) /\ list.was[r] \in Nat /\ list.was[r] <= Touched(r)
  /\ Range(list.chats) \subseteq DOMAIN list.was

ListIsSorted ==
  \A i, j \in DOMAIN list.chats : i < j => list.used[i] >= list.was[list.chats[j]]

IInv ==
  /\ Typed /\ TimesAreOfThePast
  /\ RequestsAreValid /\ RoomsAreMadeLast /\ NoneWasSeen /\ AnswersAreRooms
  /\ ListIsOfRooms /\ ListIsSorted

-----------------------------------------------------------------------------
(* What a call is answered with, and the step it ends in.                    *)
LEMMA ReplyIsTyped ==
  ASSUME Typed, NEW c \in Call, NEW s \in {200, 201, 400, 422, 500},
         NEW r \in Call \cup {Nobody}, Reply(c, s, r)
  PROVE  answer' \in [Call -> Answers] /\ step' \in [Call -> Steps]
BY DEF Typed, Reply, Goto, Answers, Steps

(* The two members of a valid direct chat are what findDirectRoomCandidates  *)
(* looks for, and what it finds has no other members.                        *)
LEMMA CandidatesAreThePair ==
  ASSUME Typed, RequestsAreValid, NEW c \in Call, Direct(c), Pair(c)
  PROVE  Candidates(By(c), Target(c)) = PairRooms(c)
<1>1. PICK x : Others(c) = {x} /\ x # By(c)
  BY DEF Pair
<1>2. Target(c) = x
  BY <1>1 DEF Target
<1>3. ASSUME NEW r \in PairRooms(c) PROVE r \in Candidates(By(c), Target(c))
  <2>1. r \in rooms /\ ~Group(r) /\ Members(r) = {By(c), x}
    BY <1>2, <1>3 DEF PairRooms
  <2>2. Cardinality({By(c)} \cup {x}) = 2
    <3>1. IsFiniteSet({By(c)}) /\ Cardinality({By(c)}) = 1
      BY FS_Singleton
    <3>2. x \notin {By(c)}
      BY <1>1
    <3>3. QED
      BY <3>1, <3>2, FS_AddElement
  <2>3. Cardinality(Members(r)) = 2
    <3>1. {By(c)} \cup {x} = {By(c), x}
      OBVIOUS
    <3>2. QED
      BY <2>1, <2>2, <3>1
  <2>4. QED
    BY <1>2, <2>1, <2>3 DEF Candidates, RoomsOf
<1>4. ASSUME NEW r \in Candidates(By(c), Target(c)) PROVE r \in PairRooms(c)
  <2>1. r \in rooms /\ r \in Call /\ ~Group(r) /\ {By(c), x} \subseteq Members(r)
    BY <1>2, <1>4 DEF Candidates, RoomsOf, Typed
  <2>2. PICK y : Others(r) = {y} /\ y # By(r)
    BY <2>1 DEF RequestsAreValid, Pair
  <2>3. QED
    BY <1>1, <1>2, <2>1, <2>2 DEF Members, PairRooms
<1>5. QED
  BY <1>3, <1>4

(* Every step keeps the types.                                               *)
LEMMA TypedKept ==
  ASSUME ChatsAssumption, IInv, [ChatsNext]_chatVars
  PROVE  Typed'
<1> USE ChatsAssumption, IInv DEF ChatsAssumption, IInv
<1>1. ASSUME NEW c \in Call, Begin(c) PROVE Typed'
  <2>1. PICK q \in May[c] :
          /\ request' = [request EXCEPT ![c] = q]
          /\ IF Invalid(q) THEN Reply(c, 400, Nobody) ELSE Goto(c, "resolve") /\ UNCHANGED answer
    BY <1>1 DEF Begin
  <2>2. request' \in [Call -> Request \cup {NoRequest}]
    BY <2>1 DEF Typed
  <2>3. answer' \in [Call -> Answers] /\ step' \in [Call -> Steps]
    BY <2>1, ReplyIsTyped DEF Typed, Goto, Steps
  <2>4. seen' \in [Call -> SUBSET Call]
    BY <1>1 DEF Begin, Typed
  <2>5. QED
    BY <1>1, <2>2, <2>3, <2>4 DEF Begin, Typed, table
<1>2. ASSUME NEW c \in Call, Resolve(c) PROVE Typed'
  <2>1. answer' \in [Call -> Answers] /\ step' \in [Call -> Steps]
    BY <1>2, ReplyIsTyped DEF Resolve, Typed, Goto, Steps
  <2>2. QED
    BY <1>2, <2>1 DEF Resolve, Typed, table
<1>3. ASSUME NEW c \in Call, Look(c) PROVE Typed'
  <2>1. answer' \in [Call -> Answers] /\ step' \in [Call -> Steps]
    <3>1. Candidates(By(c), Target(c)) \subseteq Call
      BY DEF Candidates, RoomsOf, Typed
    <3>2. QED
      BY <1>3, <3>1, ReplyIsTyped DEF Look, Typed, Goto, Steps
  <2>2. QED
    BY <1>3, <2>1 DEF Look, Typed, table
<1>4. ASSUME NEW c \in Call, CreateRoom(c) PROVE Typed'
  BY <1>4 DEF Typed, Steps, Answers, CreateRoom, InsertRoom, Tick, Reply, Goto, table
<1>5. ASSUME NEW c \in Call, Fails(c) PROVE Typed'
  BY <1>5 DEF Typed, Steps, Answers, Fails, Reply, Goto, table
<1>6. ASSUME NEW c \in Call, StoreMessage(c) PROVE Typed'
  BY <1>6 DEF Typed, Steps, Answers, StoreMessage, Tick, table
<1>7. ASSUME NEW c \in Call, TouchRoom(c) PROVE Typed'
  BY <1>7 DEF Typed, Steps, Answers, TouchRoom, table
<1>8. ASSUME LoadMessages PROVE Typed'
  BY <1>8 DEF Typed, Steps, Answers, LoadMessages, table
<1>9. ASSUME NEW u \in Looker, NEW found \in SUBSET RoomsOf(u), Find(u, found)
      PROVE Typed'
  BY <1>9 DEF Typed, Steps, Answers, Find, NoList, table
<1>10. CASE UNCHANGED chatVars
  BY <1>10 DEF chatVars, Typed, Steps, Answers, table
<1>11. QED
  BY <1>1, <1>2, <1>3, <1>4, <1>5, <1>6, <1>7, <1>8, <1>9, <1>10
     DEF ChatsNext, CreateChat, ListChats, GetChat

(* No time is set ahead of the clock.                                        *)
LEMMA TimesAreOfThePastKept ==
  ASSUME ChatsAssumption, IInv, [ChatsNext]_chatVars
  PROVE  TimesAreOfThePast'
<1> USE ChatsAssumption, IInv DEF ChatsAssumption, IInv
<1>1. ASSUME NEW c \in Call, Begin(c) PROVE TimesAreOfThePast'
  BY <1>1 DEF TimesAreOfThePast, Typed, Begin, Invalid, table
<1>2. ASSUME NEW c \in Call, Resolve(c) PROVE TimesAreOfThePast'
  BY <1>2 DEF TimesAreOfThePast, Typed, Resolve, table
<1>3. ASSUME NEW c \in Call, Look(c) PROVE TimesAreOfThePast'
  BY <1>3 DEF TimesAreOfThePast, Typed, Look, table
<1>4. ASSUME NEW c \in Call, CreateRoom(c) PROVE TimesAreOfThePast'
  BY <1>4 DEF TimesAreOfThePast, Typed, CreateRoom, InsertRoom, Tick, table
<1>5. ASSUME NEW c \in Call, Fails(c) PROVE TimesAreOfThePast'
  BY <1>5 DEF TimesAreOfThePast, Typed, Fails, table
<1>6. ASSUME NEW c \in Call, StoreMessage(c) PROVE TimesAreOfThePast'
  BY <1>6 DEF TimesAreOfThePast, Typed, StoreMessage, Tick, table
<1>7. ASSUME NEW c \in Call, TouchRoom(c) PROVE TimesAreOfThePast'
  BY <1>7 DEF TimesAreOfThePast, Typed, TouchRoom, table
<1>8. ASSUME LoadMessages PROVE TimesAreOfThePast'
  BY <1>8 DEF TimesAreOfThePast, Typed, LoadMessages, table
<1>9. ASSUME NEW u \in Looker, NEW found \in SUBSET RoomsOf(u), Find(u, found)
      PROVE TimesAreOfThePast'
  BY <1>9 DEF TimesAreOfThePast, Typed, Find, NoList, table
<1>10. CASE UNCHANGED chatVars
  BY <1>10 DEF chatVars, TimesAreOfThePast, Typed, table
<1>11. QED
  BY <1>1, <1>2, <1>3, <1>4, <1>5, <1>6, <1>7, <1>8, <1>9, <1>10
     DEF ChatsNext, CreateChat, ListChats, GetChat

(* A request is fixed when the call begins, and validated before it goes on. *)
LEMMA RequestsAreValidKept ==
  ASSUME ChatsAssumption, IInv, [ChatsNext]_chatVars
  PROVE  RequestsAreValid'
<1> USE ChatsAssumption, IInv DEF ChatsAssumption, IInv
<1>1. ASSUME NEW c \in Call, Begin(c) PROVE RequestsAreValid'
  <2>1. PICK q \in May[c] :
          /\ request' = [request EXCEPT ![c] = q]
          /\ IF Invalid(q) THEN Reply(c, 400, Nobody) ELSE Goto(c, "resolve") /\ UNCHANGED answer
    BY <1>1 DEF Begin
  <2>2. q \in Request /\ request'[c] = q /\ step'[c] \in {"done", "resolve"}
    BY <2>1 DEF Typed, Reply, Goto
  <2>3. c \notin rooms /\ rooms' = rooms
    BY <1>1 DEF Begin, RoomsAreMadeLast, table
  <2>4. step'[c] = "resolve" /\ q.kind # "group" => q.kind = "direct" /\ \E x : q.others = {x}
    <3>1. SUFFICES ASSUME ~Invalid(q), q.kind # "group"
                   PROVE  q.kind = "direct" /\ \E x : q.others = {x}
      BY <2>1 DEF Typed, Reply, Goto
    <3>2. q.kind = "direct" /\ Cardinality(q.others) = 1
      BY <3>1 DEF Invalid
    <3>3. QED
      BY <2>2, <3>2, FS_Singleton
  <2>5. \A d \in Call \ {c} : request'[d] = request[d] /\ step'[d] = step[d]
    BY <2>1 DEF Typed, Reply, Goto
  <2>6. QED
    BY <2>2, <2>3, <2>4, <2>5 DEF RequestsAreValid, Pair, Group, Direct, By, Others
<1>2. ASSUME NEW c \in Call, Resolve(c) PROVE RequestsAreValid'
    BY <1>2 DEF RequestsAreValid, Typed, Steps, Pair, RoomsAreMadeLast, Resolve, Reply, Goto,
     table, Group, Direct, By, Others
<1>3. ASSUME NEW c \in Call, Look(c) PROVE RequestsAreValid'
    BY <1>3 DEF RequestsAreValid, Typed, Steps, Pair, RoomsAreMadeLast, Look, Reply, Goto,
     Candidates, RoomsOf, table, Group, Direct, By, Others
<1>4. ASSUME NEW c \in Call, CreateRoom(c) PROVE RequestsAreValid'
    BY <1>4 DEF RequestsAreValid, Typed, Steps, Pair, RoomsAreMadeLast, CreateRoom,
     InsertRoom, Tick, Reply, Goto, table, Group, Direct, By, Others
<1>5. ASSUME NEW c \in Call, Fails(c) PROVE RequestsAreValid'
    BY <1>5 DEF RequestsAreValid, Typed, Steps, Pair, RoomsAreMadeLast, Fails, Reply, Goto,
     table, Group, Direct, By, Others
<1>6. ASSUME NEW c \in Call, StoreMessage(c) PROVE RequestsAreValid'
    BY <1>6 DEF RequestsAreValid, Typed, Steps, Pair, RoomsAreMadeLast, StoreMessage, Tick,
     table, Group, Direct, By, Others
<1>7. ASSUME NEW c \in Call, TouchRoom(c) PROVE RequestsAreValid'
    BY <1>7 DEF RequestsAreValid, Typed, Steps, Pair, RoomsAreMadeLast, TouchRoom, table,
     Group, Direct, By, Others
<1>8. ASSUME LoadMessages PROVE RequestsAreValid'
    BY <1>8 DEF RequestsAreValid, Typed, Steps, Pair, RoomsAreMadeLast, LoadMessages, table,
     Group, Direct, By, Others
<1>9. ASSUME NEW u \in Looker, NEW found \in SUBSET RoomsOf(u), Find(u, found)
      PROVE RequestsAreValid'
    BY <1>9 DEF RequestsAreValid, Typed, Steps, Pair, RoomsAreMadeLast, Find, NoList, RoomsOf,
     table, Group, Direct, By, Others
<1>10. CASE UNCHANGED chatVars
    BY <1>10 DEF chatVars, RequestsAreValid, Typed, Steps, Pair, RoomsAreMadeLast, table,
     Group, Direct, By, Others
<1>11. QED
  BY <1>1, <1>2, <1>3, <1>4, <1>5, <1>6, <1>7, <1>8, <1>9, <1>10
     DEF ChatsNext, CreateChat, ListChats, GetChat

(* Nothing follows the insert of a room, and no room is removed.             *)
LEMMA RoomsAreMadeLastKept ==
  ASSUME ChatsAssumption, IInv, [ChatsNext]_chatVars
  PROVE  RoomsAreMadeLast'
<1> USE ChatsAssumption, IInv DEF ChatsAssumption, IInv
<1>1. ASSUME NEW c \in Call, Begin(c) PROVE RoomsAreMadeLast'
  BY <1>1 DEF RoomsAreMadeLast, Typed, Steps, Begin, Reply, Goto, Invalid, table
<1>2. ASSUME NEW c \in Call, Resolve(c) PROVE RoomsAreMadeLast'
  BY <1>2 DEF RoomsAreMadeLast, Typed, Steps, Resolve, Reply, Goto, table
<1>3. ASSUME NEW c \in Call, Look(c) PROVE RoomsAreMadeLast'
  BY <1>3 DEF RoomsAreMadeLast, Typed, Steps, Look, Reply, Goto, table
<1>4. ASSUME NEW c \in Call, CreateRoom(c) PROVE RoomsAreMadeLast'
  BY <1>4 DEF RoomsAreMadeLast, Typed, Steps, CreateRoom, InsertRoom, Tick, Reply, Goto, table
<1>5. ASSUME NEW c \in Call, Fails(c) PROVE RoomsAreMadeLast'
  BY <1>5 DEF RoomsAreMadeLast, Typed, Steps, Fails, Reply, Goto, table
<1>6. ASSUME NEW c \in Call, StoreMessage(c) PROVE RoomsAreMadeLast'
  BY <1>6 DEF RoomsAreMadeLast, Typed, Steps, StoreMessage, Tick, table
<1>7. ASSUME NEW c \in Call, TouchRoom(c) PROVE RoomsAreMadeLast'
  BY <1>7 DEF RoomsAreMadeLast, Typed, Steps, TouchRoom, table
<1>8. ASSUME LoadMessages PROVE RoomsAreMadeLast'
  BY <1>8 DEF RoomsAreMadeLast, Typed, Steps, LoadMessages, table
<1>9. ASSUME NEW u \in Looker, NEW found \in SUBSET RoomsOf(u), Find(u, found)
      PROVE RoomsAreMadeLast'
  BY <1>9 DEF RoomsAreMadeLast, Typed, Steps, Find, NoList, table
<1>10. CASE UNCHANGED chatVars
  BY <1>10 DEF chatVars, RoomsAreMadeLast, Typed, Steps, table
<1>11. QED
  BY <1>1, <1>2, <1>3, <1>4, <1>5, <1>6, <1>7, <1>8, <1>9, <1>10
     DEF ChatsNext, CreateChat, ListChats, GetChat

(* Look finds the rooms of the pair; a room made later was not seen.         *)
LEMMA NoneWasSeenKept ==
  ASSUME ChatsAssumption, IInv, [ChatsNext]_chatVars
  PROVE  NoneWasSeen'
<1> USE ChatsAssumption, IInv DEF ChatsAssumption, IInv
<1>1. ASSUME NEW c \in Call, Begin(c) PROVE NoneWasSeen'
    BY <1>1 DEF NoneWasSeen, Typed, Steps, PairRooms, Target, RoomsAreMadeLast,
     RequestsAreValid, Pair, Begin, Reply, Goto, Invalid, table, Group, Direct, By, Others,
     Members
<1>2. ASSUME NEW c \in Call, Resolve(c) PROVE NoneWasSeen'
    BY <1>2 DEF NoneWasSeen, Typed, Steps, PairRooms, Target, RoomsAreMadeLast,
     RequestsAreValid, Pair, Resolve, Reply, Goto, table, Group, Direct, By, Others, Members
<1>3. ASSUME NEW c \in Call, Look(c) PROVE NoneWasSeen'
  <2>1. UNCHANGED <<request, rooms, seen>> /\ \A d \in Call \ {c} : step'[d] = step[d]
    BY <1>3 DEF Look, Reply, Goto, table, Typed
  <2>2. step'[c] = "create" => Candidates(By(c), Target(c)) = {}
    BY <1>3 DEF Look, Reply, Goto, Typed
  <2>3. c \notin rooms /\ Direct(c) /\ Pair(c)
    BY <1>3 DEF Look, RoomsAreMadeLast, RequestsAreValid, Group, Direct
  <2>4. step'[c] = "create" => PairRooms(c) = {}
    BY <2>2, <2>3, CandidatesAreThePair
  <2>5. QED
    BY <2>1, <2>3, <2>4 DEF NoneWasSeen, PairRooms, Target, Group, Direct, By, Others, Members
<1>4. ASSUME NEW c \in Call, CreateRoom(c) PROVE NoneWasSeen'
    BY <1>4 DEF NoneWasSeen, Typed, Steps, PairRooms, Target, RoomsAreMadeLast,
     RequestsAreValid, Pair, CreateRoom, InsertRoom, Tick, Reply, Goto, table, Group, Direct,
     By, Others, Members
<1>5. ASSUME NEW c \in Call, Fails(c) PROVE NoneWasSeen'
    BY <1>5 DEF NoneWasSeen, Typed, Steps, PairRooms, Target, RoomsAreMadeLast,
     RequestsAreValid, Pair, Fails, Reply, Goto, table, Group, Direct, By, Others, Members
<1>6. ASSUME NEW c \in Call, StoreMessage(c) PROVE NoneWasSeen'
    BY <1>6 DEF NoneWasSeen, Typed, Steps, PairRooms, Target, RoomsAreMadeLast,
     RequestsAreValid, Pair, StoreMessage, Tick, table, Group, Direct, By, Others, Members
<1>7. ASSUME NEW c \in Call, TouchRoom(c) PROVE NoneWasSeen'
    BY <1>7 DEF NoneWasSeen, Typed, Steps, PairRooms, Target, RoomsAreMadeLast,
     RequestsAreValid, Pair, TouchRoom, table, Group, Direct, By, Others, Members
<1>8. ASSUME LoadMessages PROVE NoneWasSeen'
  <2>1. UNCHANGED <<request, rooms, step, seen>>
    BY <1>8 DEF LoadMessages, table
  <2>2. QED
    BY <2>1 DEF NoneWasSeen, PairRooms, Target, Group, Direct, By, Others, Members
<1>9. ASSUME NEW u \in Looker, NEW found \in SUBSET RoomsOf(u), Find(u, found)
      PROVE NoneWasSeen'
  <2>1. UNCHANGED <<request, rooms, step, seen>>
    BY <1>9 DEF Find, table
  <2>2. QED
    BY <2>1 DEF NoneWasSeen, PairRooms, Target, Group, Direct, By, Others, Members
<1>10. CASE UNCHANGED chatVars
    BY <1>10 DEF chatVars, NoneWasSeen, Typed, Steps, PairRooms, Target, RoomsAreMadeLast,
     RequestsAreValid, Pair, table, Group, Direct, By, Others, Members
<1>11. QED
  BY <1>1, <1>2, <1>3, <1>4, <1>5, <1>6, <1>7, <1>8, <1>9, <1>10
     DEF ChatsNext, CreateChat, ListChats, GetChat

(* Answers 200 and 201 name a room of the pair, which stays one.             *)
LEMMA AnswersAreRoomsKept ==
  ASSUME ChatsAssumption, IInv, [ChatsNext]_chatVars
  PROVE  AnswersAreRooms'
<1> USE ChatsAssumption, IInv DEF ChatsAssumption, IInv
<1>1. ASSUME NEW c \in Call, Begin(c) PROVE AnswersAreRooms'
    BY <1>1 DEF AnswersAreRooms, Typed, Steps, Answers, PairRooms, Target, RoomsAreMadeLast,
     RequestsAreValid, Pair, Begin, Reply, Goto, Invalid, table, Group, Direct, By, Others,
     Members
<1>2. ASSUME NEW c \in Call, Resolve(c) PROVE AnswersAreRooms'
    BY <1>2 DEF AnswersAreRooms, Typed, Steps, Answers, PairRooms, Target, RoomsAreMadeLast,
     RequestsAreValid, Pair, Resolve, Reply, Goto, table, Group, Direct, By, Others, Members
<1>3. ASSUME NEW c \in Call, Look(c) PROVE AnswersAreRooms'
  <2>1. UNCHANGED <<request, rooms>> /\ \A d \in Call \ {c} : step'[d] = step[d] /\ answer'[d] = answer[d]
    BY <1>3 DEF Look, Reply, Goto, table, Typed
  <2>2. Candidates(By(c), Target(c)) = PairRooms(c)
    BY <1>3, CandidatesAreThePair DEF Look, RequestsAreValid, Group, Direct
  <2>3. answer'[c].status \in {200, 201} => step'[c] = "done" /\ answer'[c].room \in PairRooms(c)
    <3>1. CASE Candidates(By(c), Target(c)) = {}
      <4>1. answer' = answer
        BY <1>3, <3>1 DEF Look
      <4>2. answer[c].status \notin {200, 201}
        BY <1>3 DEF Look, AnswersAreRooms
      <4>3. QED
        BY <4>1, <4>2
    <3>2. CASE Candidates(By(c), Target(c)) # {}
      <4>1. PICK r \in Candidates(By(c), Target(c)) : Reply(c, 200, r)
        BY <1>3, <3>2 DEF Look
      <4>2. answer'[c] = [status |-> 200, room |-> r] /\ step'[c] = "done"
        BY <4>1 DEF Reply, Goto, Typed
      <4>3. QED
        BY <2>2, <4>1, <4>2
    <3>3. QED
      BY <3>1, <3>2
  <2>4. QED
    BY <2>1, <2>3 DEF AnswersAreRooms, PairRooms, Target, Group, Direct, By, Others, Members
<1>4. ASSUME NEW c \in Call, CreateRoom(c) PROVE AnswersAreRooms'
    BY <1>4 DEF AnswersAreRooms, Typed, Steps, Answers, PairRooms, Target, RoomsAreMadeLast,
     RequestsAreValid, Pair, CreateRoom, InsertRoom, Tick, Reply, Goto, table, Group, Direct,
     By, Others, Members
<1>5. ASSUME NEW c \in Call, Fails(c) PROVE AnswersAreRooms'
    BY <1>5 DEF AnswersAreRooms, Typed, Steps, Answers, PairRooms, Target, RoomsAreMadeLast,
     RequestsAreValid, Pair, Fails, Reply, Goto, table, Group, Direct, By, Others, Members
<1>6. ASSUME NEW c \in Call, StoreMessage(c) PROVE AnswersAreRooms'
    BY <1>6 DEF AnswersAreRooms, Typed, Steps, Answers, PairRooms, Target, RoomsAreMadeLast,
     RequestsAreValid, Pair, StoreMessage, Tick, table, Group, Direct, By, Others, Members
<1>7. ASSUME NEW c \in Call, TouchRoom(c) PROVE AnswersAreRooms'
    BY <1>7 DEF AnswersAreRooms, Typed, Steps, Answers, PairRooms, Target, RoomsAreMadeLast,
     RequestsAreValid, Pair, TouchRoom, table, Group, Direct, By, Others, Members
<1>8. ASSUME LoadMessages PROVE AnswersAreRooms'
    BY <1>8 DEF AnswersAreRooms, Typed, Steps, Answers, PairRooms, Target, RoomsAreMadeLast,
     RequestsAreValid, Pair, LoadMessages, table, Group, Direct, By, Others, Members
<1>9. ASSUME NEW u \in Looker, NEW found \in SUBSET RoomsOf(u), Find(u, found)
      PROVE AnswersAreRooms'
    BY <1>9 DEF AnswersAreRooms, Typed, Steps, Answers, PairRooms, Target, RoomsAreMadeLast,
     RequestsAreValid, Pair, Find, NoList, RoomsOf, table, Group, Direct, By, Others, Members
<1>10. CASE UNCHANGED chatVars
    BY <1>10 DEF chatVars, AnswersAreRooms, Typed, Steps, Answers, PairRooms, Target,
     RoomsAreMadeLast, RequestsAreValid, Pair, table, Group, Direct, By, Others, Members
<1>11. QED
  BY <1>1, <1>2, <1>3, <1>4, <1>5, <1>6, <1>7, <1>8, <1>9, <1>10
     DEF ChatsNext, CreateChat, ListChats, GetChat

(* A room is used later and later, and its members stay.                     *)
LEMMA ListIsOfRoomsKept ==
  ASSUME ChatsAssumption, IInv, [ChatsNext]_chatVars
  PROVE  ListIsOfRooms'
<1> USE ChatsAssumption, IInv DEF ChatsAssumption, IInv
<1>1. ASSUME NEW c \in Call, Begin(c) PROVE ListIsOfRooms'
    BY <1>1 DEF ListIsOfRooms, Typed, Steps, RoomsAreMadeLast, TimesAreOfThePast, Touched,
     Range, Begin, Reply, Goto, Invalid, table, By, Others, Members
<1>2. ASSUME NEW c \in Call, Resolve(c) PROVE ListIsOfRooms'
    BY <1>2 DEF ListIsOfRooms, Typed, Steps, RoomsAreMadeLast, TimesAreOfThePast, Touched,
     Range, Resolve, Reply, Goto, table, By, Others, Members
<1>3. ASSUME NEW c \in Call, Look(c) PROVE ListIsOfRooms'
    BY <1>3 DEF ListIsOfRooms, Typed, Steps, RoomsAreMadeLast, TimesAreOfThePast, Touched,
     Range, Look, Reply, Goto, table, By, Others, Members
<1>4. ASSUME NEW c \in Call, CreateRoom(c) PROVE ListIsOfRooms'
    BY <1>4 DEF ListIsOfRooms, Typed, Steps, RoomsAreMadeLast, TimesAreOfThePast, Touched,
     Range, CreateRoom, InsertRoom, Tick, Reply, Goto, table, By, Others, Members
<1>5. ASSUME NEW c \in Call, Fails(c) PROVE ListIsOfRooms'
    BY <1>5 DEF ListIsOfRooms, Typed, Steps, RoomsAreMadeLast, TimesAreOfThePast, Touched,
     Range, Fails, Reply, Goto, table, By, Others, Members
<1>6. ASSUME NEW c \in Call, StoreMessage(c) PROVE ListIsOfRooms'
    BY <1>6 DEF ListIsOfRooms, Typed, Steps, RoomsAreMadeLast, TimesAreOfThePast, Touched,
     Range, StoreMessage, Tick, table, By, Others, Members
<1>7. ASSUME NEW c \in Call, TouchRoom(c) PROVE ListIsOfRooms'
    BY <1>7 DEF ListIsOfRooms, Typed, Steps, RoomsAreMadeLast, TimesAreOfThePast, Touched,
     Range, TouchRoom, table, By, Others, Members
<1>8. ASSUME LoadMessages PROVE ListIsOfRooms'
  <2>1. PICK s \in SetToSeqs(DOMAIN list.was) :
          list' = [list EXCEPT !.chats = s, !.used = [i \in DOMAIN s |-> Touched(s[i])]]
    BY <1>8 DEF LoadMessages
  <2>2. /\ list'.to = list.to /\ list'.was = list.was /\ list'.chats = s
        /\ list' = [to |-> list'.to, was |-> list'.was, chats |-> list'.chats, used |-> list'.used]
    BY <2>1 DEF ListIsOfRooms
  <2>3. Range(s) \subseteq DOMAIN list.was
    BY <2>1 DEF SetToSeqs, Range
  <2>4. UNCHANGED <<request, rooms, created, newest>>
    BY <1>8 DEF LoadMessages, table
  <2>5. QED
    BY <2>2, <2>3, <2>4 DEF ListIsOfRooms, Touched, Members, By, Others, Range
<1>9. ASSUME NEW u \in Looker, NEW found \in SUBSET RoomsOf(u), Find(u, found)
      PROVE ListIsOfRooms'
  <2>1. list' = [to |-> u, was |-> [r \in found |-> Touched(r)], chats |-> << >>, used |-> << >>]
    BY <1>9 DEF Find, NoList
  <2>2. UNCHANGED <<request, rooms, created, newest>>
    BY <1>9 DEF Find, table
  <2>3. \A r \in found : r \in rooms /\ u \in Members(r) /\ Touched(r) \in Nat
    BY DEF RoomsOf, Touched, Typed
  <2>4. Range(list'.chats) = {}
    BY <2>1 DEF Range
  <2>5. QED
    BY <2>1, <2>2, <2>3, <2>4 DEF ListIsOfRooms, Touched, Members, By, Others
<1>10. CASE UNCHANGED chatVars
    BY <1>10 DEF chatVars, ListIsOfRooms, Typed, Steps, RoomsAreMadeLast, TimesAreOfThePast,
     Touched, Range, table, By, Others, Members
<1>11. QED
  BY <1>1, <1>2, <1>3, <1>4, <1>5, <1>6, <1>7, <1>8, <1>9, <1>10
     DEF ChatsNext, CreateChat, ListChats, GetChat

(* The order of the answer is that of the last messages.                     *)
LEMMA ListIsSortedKept ==
  ASSUME ChatsAssumption, IInv, [ChatsNext]_chatVars
  PROVE  ListIsSorted'
<1> USE ChatsAssumption, IInv DEF ChatsAssumption, IInv
<1>1. ASSUME NEW c \in Call, Begin(c) PROVE ListIsSorted'
  BY <1>1 DEF ListIsSorted, ListIsOfRooms, Begin, Invalid, table
<1>2. ASSUME NEW c \in Call, Resolve(c) PROVE ListIsSorted'
  BY <1>2 DEF ListIsSorted, ListIsOfRooms, Resolve, table
<1>3. ASSUME NEW c \in Call, Look(c) PROVE ListIsSorted'
  BY <1>3 DEF ListIsSorted, ListIsOfRooms, Look, table
<1>4. ASSUME NEW c \in Call, CreateRoom(c) PROVE ListIsSorted'
  BY <1>4 DEF ListIsSorted, ListIsOfRooms, CreateRoom, InsertRoom, Tick, table
<1>5. ASSUME NEW c \in Call, Fails(c) PROVE ListIsSorted'
  BY <1>5 DEF ListIsSorted, ListIsOfRooms, Fails, table
<1>6. ASSUME NEW c \in Call, StoreMessage(c) PROVE ListIsSorted'
  BY <1>6 DEF ListIsSorted, ListIsOfRooms, StoreMessage, Tick, table
<1>7. ASSUME NEW c \in Call, TouchRoom(c) PROVE ListIsSorted'
  BY <1>7 DEF ListIsSorted, ListIsOfRooms, TouchRoom, table
<1>8. ASSUME LoadMessages PROVE ListIsSorted'
  <2>1. PICK s \in SetToSeqs(DOMAIN list.was) :
          /\ ByActivity(s)
          /\ list' = [list EXCEPT !.chats = s, !.used = [i \in DOMAIN s |-> Touched(s[i])]]
    BY <1>8 DEF LoadMessages
  <2>2. list'.was = list.was /\ list'.chats = s /\ list'.used = [i \in DOMAIN s |-> Touched(s[i])]
    BY <2>1 DEF ListIsOfRooms
  <2>3. \A i \in DOMAIN s : s[i] \in DOMAIN list.was
    BY <2>1 DEF SetToSeqs
  <2>4. ASSUME NEW i \in DOMAIN s, NEW j \in DOMAIN s, i < j
        PROVE  Touched(s[i]) >= list.was[s[j]]
    <3>1. Touched(s[i]) >= Touched(s[j])
      BY <2>1, <2>4 DEF ByActivity
    <3>2. list.was[s[j]] \in Nat /\ list.was[s[j]] <= Touched(s[j]) /\ Touched(s[i]) \in Nat /\ Touched(s[j]) \in Nat
      BY <2>3 DEF ListIsOfRooms, Touched, Typed
    <3>3. QED
      BY <3>1, <3>2
  <2>5. QED
    BY <2>2, <2>4 DEF ListIsSorted
<1>9. ASSUME NEW u \in Looker, NEW found \in SUBSET RoomsOf(u), Find(u, found)
      PROVE ListIsSorted'
  BY <1>9 DEF ListIsSorted, ListIsOfRooms, Find, NoList, table
<1>10. CASE UNCHANGED chatVars
  BY <1>10 DEF chatVars, ListIsSorted, ListIsOfRooms, table
<1>11. QED
  BY <1>1, <1>2, <1>3, <1>4, <1>5, <1>6, <1>7, <1>8, <1>9, <1>10
     DEF ChatsNext, CreateChat, ListChats, GetChat

-----------------------------------------------------------------------------
(* Nothing has happened in the beginning.                                    *)
LEMMA Initially ==
  ASSUME ChatsAssumption, ChatsInit
  PROVE  IInv
<1>1. Typed
  BY DEF ChatsAssumption, ChatsInit, Typed, NoRequest, NoAnswer, Answers, Steps
<1>2. TimesAreOfThePast /\ RequestsAreValid /\ RoomsAreMadeLast
  BY DEF ChatsInit, TimesAreOfThePast, RequestsAreValid, RoomsAreMadeLast
<1>3. NoneWasSeen /\ AnswersAreRooms
  BY DEF ChatsInit, NoneWasSeen, AnswersAreRooms, NoAnswer
<1>4. ListIsOfRooms /\ ListIsSorted
  BY DEF ChatsInit, NoList, ListIsOfRooms, ListIsSorted, Range
<1>5. QED
  BY <1>1, <1>2, <1>3, <1>4 DEF IInv

(* Every step keeps the invariant.                                           *)
LEMMA Kept ==
  ASSUME ChatsAssumption, IInv, [ChatsNext]_chatVars
  PROVE  IInv'
BY TypedKept, TimesAreOfThePastKept, RequestsAreValidKept, RoomsAreMadeLastKept,
   NoneWasSeenKept,
   AnswersAreRoomsKept, ListIsOfRoomsKept, ListIsSortedKept DEF IInv

(* The inductive invariant holds for any users, calls and requests.          *)
THEOREM Invariance ==
  ASSUME ChatsAssumption
  PROVE  ChatsSpec => []IInv
<1>1. ChatsInit => IInv
  BY Initially
<1>2. IInv /\ [ChatsNext]_chatVars => IInv'
  BY Kept
<1>3. QED
  BY <1>1, <1>2, PTL DEF ChatsSpec

(* Whoever asks for a direct chat gets a room of exactly the two, and a room *)
(* is made beside another of the same pair only by a call that began before  *)
(* that one was there (createChat, chats.service.ts:188-207).                *)
THEOREM RoomsArePairs ==
  ASSUME ChatsAssumption
  PROVE  ChatsSpec => []OneRoomUnlessTogether
<1>1. IInv => OneRoomUnlessTogether
  BY DEF IInv, NoneWasSeen, AnswersAreRooms, OneRoomUnlessTogether
<1>2. QED
  BY <1>1, Invariance, PTL

(* A list of chats is ordered by the last use of its rooms, and holds the    *)
(* caller's rooms alone (attachPendingLatestMessages, chats.service.ts:154). *)
THEOREM ListsAreByActivity ==
  ASSUME ChatsAssumption
  PROVE  ChatsSpec => []ListIsByActivity
<1>1. IInv => ListIsByActivity
  BY DEF IInv, ListIsOfRooms, ListIsSorted, ListIsByActivity
<1>2. QED
  BY <1>1, Invariance, PTL
=============================================================================
