---------------------------- MODULE ServicesProofs ----------------------------
(***************************************************************************)
(* What the parts of Services keep, for any calls, requests and bounds.    *)
(*                                                                         *)
(* While a part runs, the others rest: a step of Services is a step of the *)
(* part or leaves its variables alone.  The invariants of Accounts,        *)
(* RateLimit, History and LocalRateLimit are shown here; what RestMessages,*)
(* Chats and PresenceFeed keep is shown in RestProofs, ChatsProofs and     *)
(* PresenceProofs, and carried over.                                       *)
(***************************************************************************)
EXTENDS Services, ChatsProofs, FiniteSetTheorems, TLAPS

-----------------------------------------------------------------------------
(* RestMessages                                                               *)
Rest == INSTANCE RestProofs WITH
          MaxTime <- MaxCreatedAt,
          lastAt <- roomAt, faults <- restFaults, crashes <- restCrashes

LEMMA RestSame ==
  /\ P!Init => Rest!Init
  /\ P!AnswersAgree <=> Rest!AnswersAgree
  /\ P!OneAnnouncement <=> Rest!OneAnnouncement
  /\ P!EventsFollowTheRoom <=> Rest!EventsFollowTheRoom
  /\ P!ContiguousSequences <=> Rest!ContiguousSequences
<1>1. P!Init => Rest!Init
  BY DEF P!Init, Rest!Init, P!NoMsg, Rest!NoMsg
<1>2. P!AnswersAgree <=> Rest!AnswersAgree
  BY DEF P!AnswersAgree, Rest!AnswersAgree
<1>3. P!OneAnnouncement <=> Rest!OneAnnouncement
  BY DEF P!OneAnnouncement, Rest!OneAnnouncement
<1>4. P!EventsFollowTheRoom <=> Rest!EventsFollowTheRoom
  <2>1. P!Silent = Rest!Silent
    BY DEF P!Silent, Rest!Silent
  <2>2. ASSUME NEW S PROVE P!Cardinality(S) = Rest!Cardinality(S)
    BY DEF P!Cardinality, Rest!Cardinality
  <2>3. QED
    BY <2>1, <2>2 DEF P!EventsFollowTheRoom, Rest!EventsFollowTheRoom
<1>5. P!ContiguousSequences <=> Rest!ContiguousSequences
  <2>1. \A q \in Req : P!Stored(q) <=> Rest!Stored(q)
    BY DEF P!Stored, Rest!Stored, P!NoMsg, Rest!NoMsg
  <2>2. {q \in Req : P!Stored(q)} = {q \in Req : Rest!Stored(q)}
    BY <2>1
  <2>3. ASSUME NEW S PROVE P!Cardinality(S) = Rest!Cardinality(S)
    BY DEF P!Cardinality, Rest!Cardinality
  <2>4. QED
    BY <2>2, <2>3 DEF P!ContiguousSequences, Rest!ContiguousSequences
<1>6. QED
  BY <1>1, <1>2, <1>3, <1>4, <1>5

LEMMA RestNext == P!Next => Rest!Next
  BY DEF P!Next, Rest!Next, P!CreateMessage, Rest!CreateMessage, P!Crash, Rest!Crash,
    P!ExpireCache, Rest!ExpireCache, P!WriterPersists, Rest!WriterPersists,
    P!CheckMember, Rest!CheckMember, P!ReadCache, Rest!ReadCache,
    P!ReadCacheFails, Rest!ReadCacheFails, P!CreateRow, Rest!CreateRow,
    P!Duplicate, Rest!Duplicate, P!FindRow, Rest!FindRow,
    P!Touch, Rest!Touch, P!Publish, Rest!Publish, P!QueryFails, Rest!QueryFails,
    P!Remember, Rest!Remember, P!RememberFails, Rest!RememberFails,
    P!PublishFails, Rest!PublishFails, P!Continue, Rest!Continue, P!Publishes, Rest!Publishes,
    P!Answer, Rest!Answer, P!To, Rest!To, P!Insert, Rest!Insert, P!Stored, Rest!Stored,
    P!NoMsg, Rest!NoMsg, P!Fault, Rest!Fault, P!Later, Rest!Later, P!Time, Rest!Time,
    P!RollBack, Rest!RollBack, P!db, Rest!db, P!local, Rest!local

LEMMA RestSpec == ServicesSpec => Rest!Spec
<1>1. ServicesInit => Rest!Init
  BY RestSame DEF ServicesInit
<1>2. [ServicesNext]_allVars => [Rest!Next]_Rest!vars
  <2>1. RestPart => Rest!Next
    BY RestNext DEF RestPart
  <2>2. UNCHANGED restVars => UNCHANGED Rest!vars
    BY DEF restVars, Rest!vars
  <2>3. QED
    BY <2>1, <2>2 DEF ServicesNext, allVars, HistoryPart, ChatsPart, AccountsPart, RatePart,
      LocalPart, FeedPart
<1>3. QED
  BY <1>1, <1>2, PTL DEF ServicesSpec, Rest!Spec

LEMMA RestParameters == Rest!RestAssumption
  BY ServicesAssumption DEF Rest!RestAssumption, P!RestAssumption

(* REST and the writer number the messages of a room without a gap.          *)
THEOREM RestSequencesAreContiguous == ServicesSpec => []ContiguousSequences
<1>1. Rest!Spec => []Rest!ContiguousSequences
  BY RestParameters, Rest!SequencesAreContiguous
<1>2. Rest!ContiguousSequences => ContiguousSequences
  BY RestSame DEF ContiguousSequences
<1>3. QED
  BY <1>1, <1>2, RestSpec, PTL

(* Every answer to a request, and every cached one, is the one row there is. *)
THEOREM RestAnswersAgree == ServicesSpec => []AnswersAgree
<1>1. Rest!Spec => []Rest!AnswersAgree
  BY RestParameters, Rest!AnswersAlwaysAgree
<1>2. Rest!AnswersAgree => AnswersAgree
  BY RestSame DEF AnswersAgree
<1>3. QED
  BY <1>1, <1>2, RestSpec, PTL

(* A request is announced once, by chat-service or by the writer's outbox.   *)
THEOREM RestAnnouncesOnce == ServicesSpec => []OneAnnouncement
<1>1. Rest!Spec => []Rest!OneAnnouncement
  BY RestParameters, Rest!AnnouncedOnce
<1>2. Rest!OneAnnouncement => OneAnnouncement
  BY RestSame DEF OneAnnouncement
<1>3. QED
  BY <1>1, <1>2, RestSpec, PTL

(* A message that has been announced is covered by Room.lastMessageAt, and   *)
(* no more touches and events are lost than calls failed or died.            *)
THEOREM RestEventsFollowTheRoom == ServicesSpec => []EventsFollowTheRoom
<1>1. Rest!Spec => []Rest!EventsFollowTheRoom
  BY RestParameters, Rest!EventsAlwaysFollowTheRoom
<1>2. Rest!EventsFollowTheRoom => EventsFollowTheRoom
  BY RestSame DEF EventsFollowTheRoom
<1>3. QED
  BY <1>1, <1>2, RestSpec, PTL

-----------------------------------------------------------------------------
(* Accounts                                                                   *)

(* How far a call has come tells what it is; whoever is a user has           *)
(* registered; and what is looked back at was there when the call began.     *)
CallInStep(c) ==
  /\ aStage[c] = "idle" => aRequest[c] = A!NoRequest
  /\ aStage[c] # "done" => aAnswer[c] = A!Pending
  /\ aStage[c] \in {"find", "create"} => aRequest[c].op = "register"
  /\ aStage[c] = "read" => aRequest[c].op \in {"login", "refresh", "me", "other"}
  /\ aStage[c] = "write" => aRequest[c].op \in {"update", "avatar"}
  /\ c \in users => aRequest[c].op = "register" /\ aStage[c] = "done"
  /\ c \notin known[c]

(* The two unique columns of User.                                           *)
NamesAreUnique ==
  \A u, v \in users : u # v => A!Name(u) # A!Name(v) /\ A!Mail(u) # A!Mail(v)

Matches(c, u) == A!Mail(u) = A!Mail(c) /\ A!Secret(u) = A!Secret(c)

(* What a call was answered is so.                                           *)
AnsweredRightly(c) ==
  /\ aRequest[c].op = "register" =>
       /\ aAnswer[c].status = 201 => aAnswer[c].user = c /\ c \in users
       /\ aAnswer[c].status = 409 => A!Taken(c) \ {c} # {}
  /\ aRequest[c].op = "login" =>
       /\ aAnswer[c].status = 200 => aAnswer[c].user \in users /\ Matches(c, aAnswer[c].user)
       /\ aAnswer[c].status = 401 => \A u \in known[c] : ~Matches(c, u)
  /\ aRequest[c].op \in {"refresh", "me", "update", "avatar"} /\ aAnswer[c].status = 200 =>
       aAnswer[c].user = token[c]

AccountsInvariant ==
  /\ A!AccountsTypeOK
  /\ NamesAreUnique
  /\ \A c \in Client : CallInStep(c) /\ AnsweredRightly(c)

LEMMA AccountParameters ==
  /\ MayAccount \in [Client -> SUBSET AccountRequest]
  /\ \A r \in AccountRequest :
       r.op \in {"register", "login", "refresh", "me", "other", "update", "avatar"}
  /\ Nobody \notin Client /\ MaxFaults \in Nat
  BY ServicesAssumption DEF A!AccountsAssumption

(* The invariant says what is promised.                                      *)
LEMMA TokensFromInvariant == AccountsInvariant => TokensNameTheirUser
<1> SUFFICES ASSUME AccountsInvariant PROVE A!TokensNameTheirUser
  BY DEF TokensNameTheirUser
<1>1. \A u, v \in users : u # v => A!Name(u) # A!Name(v) /\ A!Mail(u) # A!Mail(v)
  BY DEF AccountsInvariant, NamesAreUnique
<1>2. ASSUME NEW c \in Client
      PROVE  CallInStep(c) /\ AnsweredRightly(c) /\ known[c] \subseteq users
  BY DEF AccountsInvariant, A!AccountsTypeOK
<1>3. ASSUME NEW c \in Client, c \in users PROVE known[c] \cap A!Taken(c) = {}
  <2>1. \A u \in known[c] : u # c /\ u \in users
    BY <1>2 DEF CallInStep
  <2>2. QED
    BY <1>1, <1>3, <2>1 DEF A!Taken
<1>4. ASSUME NEW c \in Client, aRequest[c].op = "login", aAnswer[c].status = 200
      PROVE  {u \in users : Matches(c, u)} = {aAnswer[c].user}
  <2>1. aAnswer[c].user \in users /\ Matches(c, aAnswer[c].user)
    BY <1>2, <1>4 DEF AnsweredRightly
  <2>2. \A u \in users : Matches(c, u) => u = aAnswer[c].user
    BY <1>1, <2>1 DEF Matches
  <2>3. QED
    BY <2>1, <2>2
<1>5. ASSUME NEW c \in Client
      PROVE  /\ aRequest[c].op = "register" =>
                  /\ aAnswer[c].status = 201 => aAnswer[c].user = c /\ c \in users
                  /\ aAnswer[c].status = 409 => A!Taken(c) \ {c} # {}
                  /\ c \in users => known[c] \cap A!Taken(c) = {}
             /\ aRequest[c].op = "login" =>
                  /\ aAnswer[c].status = 200 => {u \in users : Matches(c, u)} = {aAnswer[c].user}
                  /\ aAnswer[c].status = 401 => \A u \in known[c] : ~Matches(c, u)
             /\ aRequest[c].op \in {"refresh", "me", "update", "avatar"} /\ aAnswer[c].status = 200 =>
                  aAnswer[c].user = token[c]
  BY <1>2, <1>3, <1>4 DEF AnsweredRightly
<1>6. QED
  BY <1>1, <1>5 DEF A!TokensNameTheirUser, Matches

Statuses == {0, 200, 201, 400, 401, 404, 409, 429, 500}
AccountStages == {"idle", "find", "create", "read", "write", "done"}

(* What a step of a call does: it goes on or is answered; only a registration*)
(* whose name and address are free makes a user; the rest stays.             *)
Inserts(c) == aStage[c] = "create" /\ A!Unique(c) /\ users' = users \cup {c}

AccountStep(c) ==
  /\ aStage[c] # "done" /\ aStage'[c] # "idle"
  /\ aRequest'[c].op \notin {"none"}
  /\ aStage[c] # "idle" => aRequest'[c] = aRequest[c] /\ token'[c] = token[c] /\ known'[c] = known[c]
  /\ users' = users \/ Inserts(c)
  /\ \A d \in Client : d # c =>
       /\ aRequest'[d] = aRequest[d] /\ token'[d] = token[d] /\ aStage'[d] = aStage[d]
       /\ aAnswer'[d] = aAnswer[d] /\ known'[d] = known[d]

(* A call that is answered, and a call that goes on.                         *)
Moved(c) ==
  /\ aStage' \in [Client -> AccountStages]
  /\ aAnswer' \in [Client -> [status : Statuses, user : users' \cup {Nobody}]]
  /\ \A d \in Client : d # c => aStage'[d] = aStage[d] /\ aAnswer'[d] = aAnswer[d]

LEMMA ReplyMoves ==
  ASSUME A!AccountsTypeOK, NEW c \in Client, users \subseteq users',
         NEW s \in Statuses, NEW u \in users' \cup {Nobody}, A!Reply(c, s, u)
  PROVE  /\ Moved(c)
         /\ aStage'[c] = "done" /\ aAnswer'[c].status = s /\ aAnswer'[c].user = u
<1>1. /\ aStage \in [Client -> AccountStages]
      /\ aAnswer \in [Client -> [status : Statuses, user : users \cup {Nobody}]]
  BY DEF A!AccountsTypeOK, AccountStages, Statuses
<1>2. [status : Statuses, user : users \cup {Nobody}] \subseteq [status : Statuses, user : users' \cup {Nobody}]
  OBVIOUS
<1>3. aAnswer \in [Client -> [status : Statuses, user : users' \cup {Nobody}]]
  BY <1>1, <1>2
<1>4. [status |-> s, user |-> u] \in [status : Statuses, user : users' \cup {Nobody}]
  OBVIOUS
<1>5. /\ aAnswer' = [aAnswer EXCEPT ![c] = [status |-> s, user |-> u]]
      /\ aStage' = [aStage EXCEPT ![c] = "done"]
  BY DEF A!Reply
<1>6. QED
  BY <1>1, <1>3, <1>4, <1>5 DEF AccountStages, Moved

LEMMA AwaitMoves ==
  ASSUME A!AccountsTypeOK, NEW c \in Client, users' = users,
         NEW s \in AccountStages, A!Await(c, s)
  PROVE  Moved(c) /\ aStage'[c] = s /\ aAnswer' = aAnswer
  BY DEF A!Await, A!AccountsTypeOK, AccountStages, Statuses, Moved

(* Which first query belongs to which operation.                             *)
LEMMA FirstQueries ==
  ASSUME NEW r \in AccountRequest
  PROVE  /\ A!FirstQuery[r.op] \in {"find", "read", "write"} /\ r.op # "none"
         /\ A!FirstQuery[r.op] = "find" => r.op = "register"
         /\ A!FirstQuery[r.op] = "read" => r.op \in {"login", "refresh", "me", "other"}
         /\ A!FirstQuery[r.op] = "write" => r.op \in {"update", "avatar"}
  BY AccountParameters DEF A!FirstQuery

(* A token is that of a user.                                                *)
LEMMA TokensAreOfUsers == A!AccountsTypeOK => A!SignToken \subseteq users
  BY DEF A!AccountsTypeOK, A!SignToken

(* A new call, with all that is known of it.                                 *)
LEMMA ArriveSteps ==
  ASSUME AccountsInvariant, NEW c \in Client, A!Arrive(c)
  PROVE  /\ A!AccountsTypeOK' /\ AccountStep(c)
         /\ CallInStep(c)' /\ AnsweredRightly(c)'
<1>1. A!AccountsTypeOK /\ CallInStep(c)
  BY DEF AccountsInvariant
<1>2. PICK r \in MayAccount[c], u \in A!SignToken \cup {Nobody} :
        /\ A!NeedsToken(r) \/ u = Nobody
        /\ aRequest' = [aRequest EXCEPT ![c] = r]
        /\ token' = [token EXCEPT ![c] = u]
        /\ \/ A!Reply(c, 429, Nobody)
           \/ A!Unauthorized(r, u) /\ A!Reply(c, 401, Nobody)
           \/ ~A!Unauthorized(r, u) /\ A!Invalid(r) /\ A!Reply(c, 400, Nobody)
           \/ ~A!Unauthorized(r, u) /\ ~A!Invalid(r) /\ A!Await(c, A!FirstQuery[r.op])
  BY DEF A!Arrive
<1>3. r \in AccountRequest /\ u \in users \cup {Nobody}
  BY <1>1, <1>2, AccountParameters, TokensAreOfUsers
<1>4. /\ aStage[c] = "idle" /\ known' = [known EXCEPT ![c] = users]
      /\ users' = users /\ display' = display /\ aFaults' = aFaults
  BY DEF A!Arrive
<1>7. A!FirstQuery[r.op] \in AccountStages /\ A!FirstQuery[r.op] \in {"find", "read", "write"}
  BY <1>3, FirstQueries DEF AccountStages
<1>8. /\ aRequest \in [Client -> AccountRequest \cup {A!NoRequest}]
      /\ token \in [Client -> users \cup {Nobody}] /\ known \in [Client -> SUBSET users]
  BY <1>1 DEF A!AccountsTypeOK
<1>9. /\ aRequest' \in [Client -> AccountRequest \cup {A!NoRequest}]
      /\ token' \in [Client -> users' \cup {Nobody}] /\ known' \in [Client -> SUBSET users']
      /\ aRequest'[c] = r /\ known'[c] = users /\ token'[c] = u
      /\ \A d \in Client : d # c => aRequest'[d] = aRequest[d] /\ token'[d] = token[d] /\ known'[d] = known[d]
  BY <1>2, <1>3, <1>4, <1>8
<1>10. /\ Moved(c)
       /\ \/ /\ aStage'[c] = "done" /\ aAnswer'[c].status \in {429, 401, 400}
             /\ aAnswer'[c].status = 401 => A!NeedsToken(r)
          \/ aStage'[c] = A!FirstQuery[r.op] /\ aAnswer' = aAnswer
  <2>1. users \subseteq users' /\ Nobody \in users' \cup {Nobody} /\ {429, 401, 400} \subseteq Statuses
    BY <1>4 DEF Statuses
  <2>2. CASE A!Reply(c, 429, Nobody)
    BY <1>1, <2>1, <2>2, ReplyMoves
  <2>3. CASE A!Reply(c, 400, Nobody)
    BY <1>1, <2>1, <2>3, ReplyMoves
  <2>4. CASE A!Unauthorized(r, u) /\ A!Reply(c, 401, Nobody)
    <3>1. A!NeedsToken(r)
      BY <2>4 DEF A!Unauthorized
    <3>2. QED
      BY <1>1, <2>1, <2>4, <3>1, ReplyMoves
  <2>5. CASE A!Await(c, A!FirstQuery[r.op])
    BY <1>1, <1>4, <1>7, <2>5, AwaitMoves
  <2>6. QED
    BY <1>2, <2>2, <2>3, <2>4, <2>5
<1>11. /\ aStage' \in [Client -> AccountStages]
       /\ aAnswer' \in [Client -> [status : Statuses, user : users' \cup {Nobody}]]
       /\ \A d \in Client : d # c => aStage'[d] = aStage[d] /\ aAnswer'[d] = aAnswer[d]
  BY <1>10 DEF Moved
<1>12. A!AccountsTypeOK'
  BY <1>1, <1>4, <1>9, <1>11 DEF A!AccountsTypeOK, AccountStages, Statuses
<1>13. r.op # "none" /\ aStage'[c] # "idle"
  BY <1>3, <1>7, <1>10, FirstQueries
<1>14. AccountStep(c)
  BY <1>4, <1>9, <1>11, <1>13 DEF AccountStep
<1>15. c \notin users
  BY <1>1, <1>4 DEF CallInStep
<1>16. aAnswer[c] = A!Pending
  BY <1>1, <1>4 DEF CallInStep
<1>17. CallInStep(c)'
  BY <1>3, <1>4, <1>9, <1>10, <1>15, <1>16, FirstQueries DEF CallInStep
<1>18. aAnswer'[c].status \in {429, 401, 400, 0} /\ (aAnswer'[c].status = 401 => A!NeedsToken(r))
  BY <1>10, <1>16 DEF A!Pending
<1>19. AnsweredRightly(c)'
  BY <1>9, <1>18 DEF AnsweredRightly, A!NeedsToken
<1>20. QED
  BY <1>12, <1>14, <1>17, <1>19

(* A query of a call that ends with its answer.                              *)
LEMMA AnswerSteps ==
  ASSUME AccountsInvariant, NEW c \in Client, aStage[c] \in {"find", "create", "read", "write"},
         users' = users \/ Inserts(c), UNCHANGED <<aRequest, token, known>>,
         display' \in [Client -> Client \cup {Nobody}], aFaults' \in 0..MaxFaults,
         NEW s \in Statuses, NEW u \in users' \cup {Nobody}, A!Reply(c, s, u)
  PROVE  /\ A!AccountsTypeOK' /\ AccountStep(c) /\ CallInStep(c)'
         /\ aAnswer'[c].status = s /\ aAnswer'[c].user = u
<1>1. A!AccountsTypeOK /\ CallInStep(c) /\ users \subseteq users'
  BY DEF AccountsInvariant, Inserts
<1>2. /\ Moved(c)
      /\ aStage'[c] = "done" /\ aAnswer'[c].status = s /\ aAnswer'[c].user = u
  BY <1>1, ReplyMoves
<1>3. users' \subseteq Client /\ (users' # users => aStage[c] = "create" /\ users' = users \cup {c})
  BY <1>1 DEF A!AccountsTypeOK, Inserts
<1>4. /\ token' \in [Client -> users' \cup {Nobody}] /\ known' \in [Client -> SUBSET users']
      /\ aRequest' \in [Client -> AccountRequest \cup {A!NoRequest}]
  BY <1>1 DEF A!AccountsTypeOK
<1>5. A!AccountsTypeOK'
  BY <1>2, <1>3, <1>4 DEF A!AccountsTypeOK, Moved, AccountStages, Statuses
<1>6. aRequest[c].op # "none"
  BY <1>1 DEF CallInStep
<1>7. AccountStep(c)
  BY <1>2, <1>6 DEF AccountStep, Moved
<1>8. CallInStep(c)'
  BY <1>1, <1>2, <1>3 DEF CallInStep
<1>9. QED
  BY <1>2, <1>5, <1>7, <1>8

(* The queries, one by one.                                                  *)
Advances(c) == A!AccountsTypeOK' /\ AccountStep(c) /\ CallInStep(c)' /\ AnsweredRightly(c)'

LEMMA QueriesStep ==
  ASSUME AccountsInvariant, NEW c \in Client,
         \/ A!FindUserByEmailOrUsername(c) \/ A!CreateUser(c) \/ A!QueryFails(c)
         \/ A!FindUserByEmail(c) \/ A!FindUserById(c) \/ A!UpdateUser(c)
  PROVE  Advances(c)
<1>1. A!AccountsTypeOK /\ CallInStep(c) /\ AnsweredRightly(c)
  BY DEF AccountsInvariant
<1>2. /\ display \in [Client -> Client \cup {Nobody}] /\ aFaults \in 0..MaxFaults
      /\ token[c] \in users \cup {Nobody} /\ users \subseteq Client /\ MaxFaults \in Nat
      /\ known[c] \subseteq users
  BY <1>1, AccountParameters DEF A!AccountsTypeOK
<1>3. ASSUME NEW s \in Statuses, NEW u \in users \cup {Nobody}, A!Reply(c, s, u), A!Quiet,
             aStage[c] \in {"find", "create", "read", "write"}
      PROVE  /\ A!AccountsTypeOK' /\ AccountStep(c) /\ CallInStep(c)'
             /\ aAnswer'[c].status = s /\ aAnswer'[c].user = u
             /\ users' = users /\ aRequest' = aRequest /\ token' = token /\ known' = known
  <2>1. UNCHANGED <<users, display, aRequest, token, aFaults, known>>
    BY <1>3 DEF A!Quiet
  <2>2. u \in users' \cup {Nobody} /\ display' \in [Client -> Client \cup {Nobody}] /\ aFaults' \in 0..MaxFaults
    BY <1>2, <2>1
  <2>3. QED
    BY <1>3, <2>1, <2>2, AnswerSteps
<1>4. A!Renamed(c) \in [Client -> Client \cup {Nobody}]
  BY <1>2 DEF A!Renamed
<1>5. {200, 201, 401, 404, 409, 500} \subseteq Statuses /\ Nobody \in users \cup {Nobody}
  BY DEF Statuses
<1>6. CASE A!FindUserByEmailOrUsername(c)
  <2>1. aRequest[c].op = "register" /\ aStage[c] = "find" /\ A!Quiet
    BY <1>6 DEF A!FindUserByEmailOrUsername, A!At
  <2>2. UNCHANGED <<users, display, aRequest, token, aFaults, known>>
    BY <2>1 DEF A!Quiet
  <2>3. c \notin users
    BY <1>1, <2>1 DEF CallInStep
  <2>4. CASE A!Taken(c) # {}
    <3>1. A!Reply(c, 409, Nobody)
      BY <1>6, <2>4 DEF A!FindUserByEmailOrUsername
    <3>2. /\ A!AccountsTypeOK' /\ AccountStep(c) /\ CallInStep(c)'
          /\ aAnswer'[c].status = 409
      BY <1>3, <1>5, <2>1, <3>1
    <3>3. A!Taken(c)' = A!Taken(c) /\ c \notin A!Taken(c)
      BY <2>2, <2>3 DEF A!Taken, A!Name, A!Mail
    <3>4. AnsweredRightly(c)'
      BY <2>1, <2>2, <2>4, <3>2, <3>3 DEF AnsweredRightly
    <3>5. QED
      BY <3>2, <3>4 DEF Advances
  <2>5. CASE A!Taken(c) = {}
    <3>1. A!Await(c, "create")
      BY <1>6, <2>5 DEF A!FindUserByEmailOrUsername
    <3>2. Moved(c) /\ aStage'[c] = "create" /\ aAnswer' = aAnswer
      BY <1>1, <2>2, <3>1, AwaitMoves DEF AccountStages
    <3>3. A!AccountsTypeOK'
      BY <1>1, <2>2, <3>2 DEF A!AccountsTypeOK, Moved, AccountStages, Statuses
    <3>4. AccountStep(c)
      BY <2>1, <2>2, <3>2 DEF AccountStep, Moved
    <3>5. CallInStep(c)'
      BY <1>1, <2>1, <2>2, <2>3, <3>2 DEF CallInStep
    <3>6. aAnswer'[c].status = 0
      BY <1>1, <2>1, <3>2 DEF CallInStep, A!Pending
    <3>7. AnsweredRightly(c)'
      BY <2>1, <2>2, <3>6 DEF AnsweredRightly
    <3>8. QED
      BY <3>3, <3>4, <3>5, <3>7 DEF Advances
  <2>6. QED
    BY <2>4, <2>5
<1>7. CASE A!CreateUser(c)
  <2>1. /\ aRequest[c].op = "register" /\ aStage[c] = "create"
        /\ UNCHANGED <<aRequest, token, aFaults, known>>
    BY <1>7 DEF A!CreateUser, A!At
  <2>2. CASE A!Unique(c)
    <3>1. users' = users \cup {c} /\ display' = [display EXCEPT ![c] = c] /\ A!Reply(c, 201, c)
      BY <1>7, <2>2 DEF A!CreateUser, A!Insert
    <3>2. /\ Inserts(c) /\ display' \in [Client -> Client \cup {Nobody}] /\ aFaults' \in 0..MaxFaults
          /\ c \in users' \cup {Nobody} /\ UNCHANGED <<aRequest, token, known>>
          /\ aStage[c] \in {"find", "create", "read", "write"}
      BY <1>2, <2>1, <2>2, <3>1 DEF Inserts
    <3>3. /\ A!AccountsTypeOK' /\ AccountStep(c) /\ CallInStep(c)'
          /\ aAnswer'[c].status = 201 /\ aAnswer'[c].user = c
      BY <1>5, <3>1, <3>2, AnswerSteps
    <3>4. AnsweredRightly(c)'
      BY <2>1, <3>1, <3>3 DEF AnsweredRightly
    <3>5. QED
      BY <3>3, <3>4 DEF Advances
  <2>3. CASE ~ A!Unique(c)
    <3>1. UNCHANGED <<users, display>> /\ A!Reply(c, 500, Nobody)
      BY <1>7, <2>3 DEF A!CreateUser
    <3>2. A!Quiet
      BY <2>1, <3>1 DEF A!Quiet
    <3>3. /\ A!AccountsTypeOK' /\ AccountStep(c) /\ CallInStep(c)'
          /\ aAnswer'[c].status = 500
      BY <1>3, <1>5, <2>1, <3>1, <3>2
    <3>4. AnsweredRightly(c)'
      BY <2>1, <3>3 DEF AnsweredRightly
    <3>5. QED
      BY <3>3, <3>4 DEF Advances
  <2>4. QED
    BY <2>2, <2>3
<1>8. CASE A!QueryFails(c)
  <2>1. /\ aStage[c] \in {"find", "create", "read", "write"} /\ A!Reply(c, 500, Nobody)
        /\ UNCHANGED <<aRequest, token, known>>
        /\ aFaults < MaxFaults /\ aFaults' = aFaults + 1
    BY <1>8 DEF A!QueryFails
  <2>2. aFaults' \in 0..MaxFaults
    BY <1>2, <2>1
  <2>3. /\ users' = users \/ Inserts(c)
        /\ display' \in [Client -> Client \cup {Nobody}]
    <3>1. CASE UNCHANGED <<users, display>>
      BY <1>2, <3>1
    <3>2. CASE aStage[c] = "create" /\ A!Unique(c) /\ A!Insert(c)
      BY <1>2, <3>2 DEF A!Insert, Inserts
    <3>3. CASE aStage[c] = "write" /\ display' = A!Renamed(c) /\ UNCHANGED users
      BY <1>4, <3>3
    <3>4. QED
      BY <1>8, <3>1, <3>2, <3>3 DEF A!QueryFails
  <2>4. Nobody \in users' \cup {Nobody}
    OBVIOUS
  <2>5. /\ A!AccountsTypeOK' /\ AccountStep(c) /\ CallInStep(c)'
        /\ aAnswer'[c].status = 500
    BY <1>5, <2>1, <2>2, <2>3, <2>4, AnswerSteps
  <2>6. AnsweredRightly(c)'
    BY <2>5 DEF AnsweredRightly
  <2>7. QED
    BY <2>5, <2>6 DEF Advances
<1>9. CASE A!FindUserByEmail(c)
  <2>1. aRequest[c].op = "login" /\ aStage[c] = "read" /\ A!Quiet
    BY <1>9 DEF A!FindUserByEmail, A!At
  <2>2. CASE \A u \in users : ~ Matches(c, u)
    <3>1. {u \in users : A!Mail(u) = A!Mail(c) /\ A!Secret(u) = A!Secret(c)} = {}
      BY <2>2 DEF Matches
    <3>2. A!Reply(c, 401, Nobody)
      BY <1>9, <3>1 DEF A!FindUserByEmail
    <3>3. /\ A!AccountsTypeOK' /\ AccountStep(c) /\ CallInStep(c)'
          /\ aAnswer'[c].status = 401 /\ aRequest' = aRequest /\ known' = known
      BY <1>3, <1>5, <2>1, <3>2
    <3>4. AnsweredRightly(c)'
      BY <1>2, <2>1, <2>2, <3>3 DEF AnsweredRightly, Matches, A!Mail, A!Secret
    <3>5. QED
      BY <3>3, <3>4 DEF Advances
  <2>3. CASE \E u \in users : Matches(c, u)
    <3>1. PICK u \in users : Matches(c, u) /\ A!Reply(c, 200, u)
      BY <1>9, <2>3 DEF A!FindUserByEmail, Matches
    <3>2. /\ A!AccountsTypeOK' /\ AccountStep(c) /\ CallInStep(c)'
          /\ aAnswer'[c].status = 200 /\ aAnswer'[c].user = u
          /\ aRequest' = aRequest /\ users' = users
      BY <1>3, <1>5, <2>1, <3>1
    <3>3. AnsweredRightly(c)'
      BY <2>1, <3>1, <3>2 DEF AnsweredRightly, Matches, A!Mail, A!Secret
    <3>4. QED
      BY <3>2, <3>3 DEF Advances
  <2>4. QED
    BY <2>2, <2>3
<1>10. CASE A!FindUserById(c)
  <2>1. aRequest[c].op \in {"refresh", "me", "other"} /\ aStage[c] = "read" /\ A!Quiet
    BY <1>10 DEF A!FindUserById
  <2>2. CASE A!Wanted(c) \in users
    <3>1. A!Reply(c, 200, A!Wanted(c))
      BY <1>10, <2>2 DEF A!FindUserById
    <3>2. PICK u \in users : u = A!Wanted(c)
      BY <2>2
    <3>3. A!Reply(c, 200, u)
      BY <3>1, <3>2 DEF A!Reply
    <3>4. /\ A!AccountsTypeOK' /\ AccountStep(c) /\ CallInStep(c)'
          /\ aAnswer'[c].status = 200 /\ aAnswer'[c].user = u
          /\ aRequest' = aRequest /\ token' = token
      BY <1>3, <1>5, <2>1, <3>3
    <3>5. AnsweredRightly(c)'
      BY <2>1, <3>2, <3>4 DEF AnsweredRightly, A!Wanted
    <3>6. QED
      BY <3>4, <3>5 DEF Advances
  <2>3. CASE A!Wanted(c) \notin users
    <3>1. A!Reply(c, 404, Nobody)
      BY <1>10, <2>3 DEF A!FindUserById
    <3>2. /\ A!AccountsTypeOK' /\ AccountStep(c) /\ CallInStep(c)'
          /\ aAnswer'[c].status = 404 /\ aRequest' = aRequest
      BY <1>3, <1>5, <2>1, <3>1
    <3>3. AnsweredRightly(c)'
      BY <2>1, <3>2 DEF AnsweredRightly
    <3>4. QED
      BY <3>2, <3>3 DEF Advances
  <2>4. QED
    BY <2>2, <2>3
<1>11. CASE A!UpdateUser(c)
  <2>1. /\ aStage[c] = "write" /\ display' = A!Renamed(c) /\ A!Reply(c, 200, token[c])
        /\ UNCHANGED <<users, aRequest, token, aFaults, known>>
    BY <1>11 DEF A!UpdateUser
  <2>2. PICK u \in users \cup {Nobody} : u = token[c]
    BY <1>2
  <2>3. A!Reply(c, 200, u) /\ u \in users' \cup {Nobody}
    BY <2>1, <2>2 DEF A!Reply
  <2>4. /\ users' = users \/ Inserts(c)
        /\ display' \in [Client -> Client \cup {Nobody}] /\ aFaults' \in 0..MaxFaults
    BY <1>2, <1>4, <2>1
  <2>5. /\ A!AccountsTypeOK' /\ AccountStep(c) /\ CallInStep(c)'
        /\ aAnswer'[c].status = 200 /\ aAnswer'[c].user = u
    BY <1>5, <2>1, <2>3, <2>4, AnswerSteps
  <2>6. aRequest[c].op \in {"update", "avatar"}
    BY <1>1, <2>1 DEF CallInStep
  <2>7. AnsweredRightly(c)'
    BY <2>1, <2>2, <2>5, <2>6 DEF AnsweredRightly
  <2>8. QED
    BY <2>5, <2>7 DEF Advances
<1>12. QED
  BY <1>6, <1>7, <1>8, <1>9, <1>10, <1>11

(* The others are not touched, and a new user takes nobody's name.           *)
LEMMA OthersStay ==
  ASSUME AccountsInvariant, NEW c \in Client, AccountStep(c)
  PROVE  /\ NamesAreUnique'
         /\ \A d \in Client : d # c => CallInStep(d)' /\ AnsweredRightly(d)'
<1>1. /\ A!AccountsTypeOK /\ NamesAreUnique /\ users \subseteq Client
      /\ \A d \in Client : CallInStep(d) /\ AnsweredRightly(d) /\ known[d] \subseteq users
  BY DEF AccountsInvariant, A!AccountsTypeOK
<1>2. c \notin users /\ users \subseteq users' /\ users' \subseteq users \cup {c}
  BY <1>1 DEF AccountStep, CallInStep, Inserts
<1>3. \A u \in Client \ {c} : aRequest'[u] = aRequest[u]
  BY DEF AccountStep
<1>4. NamesAreUnique'
  <2>1. CASE users' = users
    BY <1>1, <1>2, <1>3, <2>1 DEF NamesAreUnique, A!Name, A!Mail
  <2>2. CASE Inserts(c)
    <3>1. \A u \in users : A!Name(u) # A!Name(c) /\ A!Mail(u) # A!Mail(c)
      BY <2>2 DEF Inserts, A!Unique, A!Taken
    <3>2. aRequest'[c] = aRequest[c] /\ users' = users \cup {c}
      BY <2>2 DEF Inserts, AccountStep
    <3>3. \A u \in users' : aRequest'[u] = aRequest[u]
      BY <1>1, <1>2, <1>3, <3>2
    <3>4. QED
      BY <1>1, <3>1, <3>2, <3>3 DEF NamesAreUnique, A!Name, A!Mail
  <2>3. QED
    BY <2>1, <2>2 DEF AccountStep
<1>5. ASSUME NEW d \in Client, d # c PROVE CallInStep(d)' /\ AnsweredRightly(d)'
  <2>1. /\ CallInStep(d) /\ AnsweredRightly(d) /\ known[d] \subseteq users
        /\ aRequest'[d] = aRequest[d] /\ token'[d] = token[d] /\ aStage'[d] = aStage[d]
        /\ aAnswer'[d] = aAnswer[d] /\ known'[d] = known[d]
    BY <1>1, <1>5 DEF AccountStep
  <2>2. CallInStep(d)'
    BY <1>2, <1>5, <2>1 DEF CallInStep
  <2>3. \A u \in users : aRequest'[u] = aRequest[u]
    BY <1>1, <1>2, <1>3
  <2>4. A!Taken(d) \subseteq A!Taken(d)'
    BY <1>2, <2>1, <2>3 DEF A!Taken, A!Name, A!Mail
  <2>5. \A u \in users : Matches(d, u)' <=> Matches(d, u)
    BY <2>1, <2>3 DEF Matches, A!Mail, A!Secret
  <2>6. (aAnswer[d].status = 409 /\ A!Taken(d) \ {d} # {}) => A!Taken(d)' \ {d} # {}
    BY <2>4
  <2>7. aAnswer'[d].user \in users => aAnswer'[d].user \in users'
    BY <1>2
  <2>8. (\A u \in known[d] : ~Matches(d, u)) => \A u \in known'[d] : ~Matches(d, u)'
    BY <2>1, <2>5
  <2>9. ASSUME aAnswer[d].user \in users, Matches(d, aAnswer[d].user)
        PROVE  aAnswer'[d].user \in users' /\ Matches(d, aAnswer[d].user)'
    <3>1. PICK u \in users : u = aAnswer[d].user
      BY <2>9
    <3>2. Matches(d, u)'
      BY <2>5, <2>9, <3>1
    <3>3. QED
      BY <2>1, <2>7, <3>1, <3>2 DEF Matches
  <2>10. QED
    BY <1>2, <2>1, <2>2, <2>6, <2>8, <2>9 DEF AnsweredRightly
<1>6. QED
  BY <1>4, <1>5

LEMMA AccountsKept == AccountsInvariant /\ [A!AccountsNext]_accountVars => AccountsInvariant'
<1> SUFFICES ASSUME AccountsInvariant, [A!AccountsNext]_accountVars PROVE AccountsInvariant'
  OBVIOUS
<1>1. ASSUME NEW c \in Client, Advances(c) PROVE AccountsInvariant'
  <2>1. /\ A!AccountsTypeOK' /\ AccountStep(c) /\ CallInStep(c)' /\ AnsweredRightly(c)'
    BY <1>1 DEF Advances
  <2>2. /\ NamesAreUnique'
        /\ \A d \in Client : d # c => CallInStep(d)' /\ AnsweredRightly(d)'
    BY <2>1, OthersStay
  <2>3. QED
    BY <2>1, <2>2 DEF AccountsInvariant
<1>2. ASSUME NEW c \in Client, A!Arrive(c) PROVE Advances(c)
  BY <1>2, ArriveSteps DEF Advances
<1>3. CASE UNCHANGED accountVars
  BY <1>3 DEF accountVars, AccountsInvariant, A!AccountsTypeOK, NamesAreUnique, CallInStep,
    AnsweredRightly, Matches, A!Name, A!Mail, A!Secret, A!Taken
<1>4. QED
  BY <1>1, <1>2, <1>3, QueriesStep DEF A!AccountsNext, A!Register, A!Profile

LEMMA AccountsStart == A!AccountsInit => AccountsInvariant
<1> SUFFICES ASSUME A!AccountsInit PROVE AccountsInvariant
  OBVIOUS
<1>1. /\ A!Pending \in [status : Statuses, user : {Nobody}]
      /\ A!Pending.status = 0 /\ A!NoRequest.op = "none" /\ MaxFaults \in Nat
  BY AccountParameters DEF A!Pending, A!NoRequest, Statuses
<1>2. A!AccountsTypeOK
  BY <1>1 DEF A!AccountsInit, A!AccountsTypeOK, Statuses
<1>3. NamesAreUnique
  BY DEF A!AccountsInit, NamesAreUnique
<1>4. ASSUME NEW c \in Client PROVE CallInStep(c) /\ AnsweredRightly(c)
  BY <1>1 DEF A!AccountsInit, CallInStep, AnsweredRightly
<1>5. QED
  BY <1>2, <1>3, <1>4 DEF AccountsInvariant

(* user-service is in a state its invariant describes.                       *)
THEOREM AccountsInvariance == ServicesSpec => []AccountsInvariant
<1>1. ServicesInit => AccountsInvariant
  BY AccountsStart DEF ServicesInit
<1>2. AccountsInvariant /\ [ServicesNext]_allVars => AccountsInvariant'
  <2>1. [ServicesNext]_allVars => [A!AccountsNext]_accountVars
    BY DEF ServicesNext, allVars, RestPart, HistoryPart, ChatsPart, AccountsPart, RatePart,
      LocalPart, FeedPart
  <2>2. QED
    BY <2>1, AccountsKept
<1>3. QED
  BY <1>1, <1>2, PTL DEF ServicesSpec

(* A token names the one user its bearer proved to be, and refusals are true,*)
(* however registrations, logins and failures interleave between their       *)
(* queries (auth.service.ts).                                                *)
THEOREM TokensAlwaysNameTheirUser == ServicesSpec => []TokensNameTheirUser
<1>1. AccountsInvariant => TokensNameTheirUser
  BY TokensFromInvariant
<1>2. QED
  BY <1>1, AccountsInvariance, PTL

-----------------------------------------------------------------------------
(* RateLimit                                                                  *)

(* The calls a window has counted, and those of them that pass or, once the  *)
(* time to live is set, will.                                                *)
CountedIn(w) == {c \in Client : counted[c] = {w}}
PassIn(w) == {c \in CountedIn(w) : rStage[c] = "passed" \/ (rStage[c] = "expire" /\ R!Allowed(1))}

WindowHolds(w) ==
  /\ IsFiniteSet(CountedIn(w))
  /\ Cardinality(PassIn(w)) <= RestLimit
  /\ \A c \in CountedIn(w) : rStage[c] = "refused" =>
       rFaults + Cardinality(CountedIn(w)) > RestLimit

(* The counter of the running window is between the calls that pass and all  *)
(* calls it may have counted, those without an answer included.              *)
RateInvariant ==
  /\ R!RateTypeOK
  /\ \A c \in Client :
       /\ rStage[c] = "idle" => counted[c] = {}
       /\ counted[c] \subseteq 0..window
  /\ \A w \in 0..window : WindowHolds(w)
  /\ Cardinality(PassIn(window)) <= count
  /\ count <= Cardinality(CountedIn(window)) + rFaults

RateStages == {"idle", "expire", "passed", "refused", "unchecked", "dead"}

LEMMA RateParameters == RestLimit \in Nat /\ MaxFaults \in Nat /\ MaxCrashes \in Nat
  BY ServicesAssumption DEF R!RateLimitAssumption

LEMMA RateFromInvariant == RateInvariant => RedisLimitHolds
<1> SUFFICES ASSUME RateInvariant, NEW w \in 0..window
    PROVE  /\ R!Cardinality({c \in Client : rStage[c] = "passed" /\ counted[c] = {w}}) <= RestLimit
           /\ {c \in Client : rStage[c] = "refused" /\ counted[c] = {w}} # {} =>
                rFaults + R!Cardinality(CountedIn(w)) > RestLimit
  BY DEF RedisLimitHolds, R!RedisLimitHolds, CountedIn
<1>1. ASSUME NEW S PROVE R!Cardinality(S) = Cardinality(S)
  BY DEF R!Cardinality, Cardinality
<1>2. WindowHolds(w)
  BY DEF RateInvariant
<1>3. IsFiniteSet(CountedIn(w)) /\ IsFiniteSet(PassIn(w)) /\ Cardinality(PassIn(w)) \in Nat
  BY <1>2, FS_Subset, FS_CardinalityType DEF WindowHolds, PassIn
<1>4. {c \in Client : rStage[c] = "passed" /\ counted[c] = {w}} \subseteq PassIn(w)
  BY DEF PassIn, CountedIn
<1>5. /\ Cardinality({c \in Client : rStage[c] = "passed" /\ counted[c] = {w}}) <= Cardinality(PassIn(w))
      /\ Cardinality({c \in Client : rStage[c] = "passed" /\ counted[c] = {w}}) \in Nat
  BY <1>3, <1>4, FS_Subset, FS_CardinalityType
<1>6. Cardinality({c \in Client : rStage[c] = "passed" /\ counted[c] = {w}}) <= RestLimit
  BY <1>2, <1>3, <1>5, RateParameters DEF WindowHolds
<1>7. ASSUME NEW c \in Client, rStage[c] = "refused", counted[c] = {w}
      PROVE  rFaults + Cardinality(CountedIn(w)) > RestLimit
  BY <1>2, <1>7 DEF WindowHolds, CountedIn
<1>8. QED
  BY <1>1, <1>6, <1>7

(* Calls that leave or resume a window without being counted anew.           *)
LEMMA WindowStays ==
  ASSUME RateInvariant, counted' = counted, rFaults' \in Nat, rFaults' >= rFaults, NEW w \in 0..window,
         PassIn(w)' \subseteq PassIn(w),
         \A c \in CountedIn(w) : rStage'[c] = "refused" /\ rStage[c] # "refused" => RestLimit = 0
  PROVE  /\ WindowHolds(w)'
         /\ CountedIn(w)' = CountedIn(w)
         /\ Cardinality(PassIn(w)') <= Cardinality(PassIn(w))
         /\ Cardinality(CountedIn(w)) \in Nat
         /\ Cardinality(PassIn(w)) \in Nat /\ Cardinality(PassIn(w)') \in Nat
<1>1. WindowHolds(w) /\ rFaults \in Nat
  BY DEF RateInvariant, R!RateTypeOK
<1>2. CountedIn(w)' = CountedIn(w)
  BY DEF CountedIn
<1>3. IsFiniteSet(CountedIn(w)) /\ IsFiniteSet(PassIn(w)) /\ Cardinality(CountedIn(w)) \in Nat
  BY <1>1, FS_Subset, FS_CardinalityType DEF WindowHolds, PassIn
<1>4. /\ Cardinality(PassIn(w)') <= Cardinality(PassIn(w))
      /\ Cardinality(PassIn(w)) \in Nat /\ Cardinality(PassIn(w)') \in Nat
  BY <1>3, FS_Subset, FS_CardinalityType
<1>5. Cardinality(PassIn(w)') <= RestLimit
  BY <1>1, <1>4, RateParameters DEF WindowHolds
<1>6. ASSUME NEW c \in CountedIn(w), rStage'[c] = "refused"
      PROVE  rFaults' + Cardinality(CountedIn(w)) > RestLimit
  <2>1. CASE rStage[c] = "refused"
    <3>1. rFaults + Cardinality(CountedIn(w)) > RestLimit
      BY <1>1, <2>1 DEF WindowHolds
    <3>2. QED
      BY <1>1, <1>3, <3>1, RateParameters
  <2>2. CASE rStage[c] # "refused"
    <3>1. RestLimit = 0
      BY <1>6, <2>2
    <3>2. Cardinality(CountedIn(w)) # 0
      BY <1>3, FS_EmptySet
    <3>3. QED
      BY <1>3, <3>1, <3>2
  <2>3. QED
    BY <2>1, <2>2
<1>7. WindowHolds(w)'
  BY <1>2, <1>3, <1>5, <1>6 DEF WindowHolds
<1>8. QED
  BY <1>2, <1>3, <1>4, <1>7

LEMMA WindowsStay ==
  ASSUME RateInvariant, R!RateTypeOK', counted' = counted, rFaults' >= rFaults, window' = window,
         \A w \in 0..window : PassIn(w)' \subseteq PassIn(w),
         \A c \in Client : rStage'[c] = "refused" /\ rStage[c] # "refused" => RestLimit = 0,
         \A c \in Client : rStage'[c] = "idle" => rStage[c] = "idle",
         count' \in {count, count + 1}, count' = count + 1 => rFaults' = rFaults + 1
  PROVE  RateInvariant'
<1>1. rFaults' \in Nat /\ rFaults \in Nat /\ count \in Nat /\ window \in Nat
  BY RateParameters DEF RateInvariant, R!RateTypeOK
<1>2. \A w \in 0..window :
        /\ WindowHolds(w)'
        /\ CountedIn(w)' = CountedIn(w)
        /\ Cardinality(PassIn(w)') <= Cardinality(PassIn(w))
        /\ Cardinality(CountedIn(w)) \in Nat
        /\ Cardinality(PassIn(w)) \in Nat /\ Cardinality(PassIn(w)') \in Nat
  <2> SUFFICES ASSUME NEW w \in 0..window
      PROVE  /\ WindowHolds(w)'
             /\ CountedIn(w)' = CountedIn(w)
             /\ Cardinality(PassIn(w)') <= Cardinality(PassIn(w))
             /\ Cardinality(CountedIn(w)) \in Nat
             /\ Cardinality(PassIn(w)) \in Nat /\ Cardinality(PassIn(w)') \in Nat
    OBVIOUS
  <2>1. \A c \in CountedIn(w) : rStage'[c] = "refused" /\ rStage[c] # "refused" => RestLimit = 0
    BY DEF CountedIn
  <2>2. QED
    BY <1>1, <2>1, WindowStays
<1>3. \A w \in (0..window)' : WindowHolds(w)'
  BY <1>2
<1>4. /\ Cardinality(PassIn(window)') <= Cardinality(PassIn(window))
      /\ Cardinality(CountedIn(window)') = Cardinality(CountedIn(window))
      /\ Cardinality(CountedIn(window)) \in Nat
      /\ Cardinality(PassIn(window)) \in Nat /\ Cardinality(PassIn(window)') \in Nat
  BY <1>1, <1>2
<1>5. /\ Cardinality(PassIn(window)) <= count
      /\ count <= Cardinality(CountedIn(window)) + rFaults
  BY DEF RateInvariant
<1>6. /\ Cardinality(PassIn(window)') <= count'
      /\ count' <= Cardinality(CountedIn(window)') + rFaults'
  BY <1>1, <1>4, <1>5
<1>7. \A c \in Client :
        /\ rStage'[c] = "idle" => counted'[c] = {}
        /\ counted'[c] \subseteq 0..window'
  BY DEF RateInvariant
<1>8. QED
  BY <1>3, <1>6, <1>7 DEF RateInvariant

(* A check that is counted: only its own window changes.                     *)
LEMMA IncrKeeps == ASSUME RateInvariant, NEW c \in Client, R!Incr(c) PROVE RateInvariant'
<1> DEFINE n == count + 1
           s == IF n = 1 THEN "expire" ELSE IF n <= RestLimit THEN "passed" ELSE "refused"
<1>1. /\ rStage[c] = "idle" /\ counted[c] = {}
      /\ rStage' = [rStage EXCEPT ![c] = s]
      /\ counted' = [counted EXCEPT ![c] = {window}]
      /\ count' = n /\ window' = window /\ rFaults' = rFaults
      /\ expires' = expires /\ rCrashes' = rCrashes
  BY DEF RateInvariant, R!Incr, R!Become, R!First, R!Verdict, R!Allowed
<1>2. /\ count \in Nat /\ window \in Nat /\ rFaults \in Nat /\ RestLimit \in Nat /\ n \in Nat
      /\ rStage \in [Client -> RateStages] /\ counted \in [Client -> SUBSET Nat]
      /\ rFaults \in 0..MaxFaults /\ rCrashes \in 0..MaxCrashes
      /\ expires \in BOOLEAN
  BY RateParameters DEF RateInvariant, R!RateTypeOK, RateStages
<1> HIDE DEF n
<1>3. /\ rStage'[c] = s /\ counted'[c] = {window}
      /\ \A d \in Client : d # c => rStage'[d] = rStage[d] /\ counted'[d] = counted[d]
  BY <1>1, <1>2
<1>4. R!RateTypeOK'
  <2>1. rStage' \in [Client -> RateStages] /\ counted' \in [Client -> SUBSET Nat]
    BY <1>1, <1>2 DEF RateStages
  <2>2. QED
    BY <1>1, <1>2, <2>1 DEF R!RateTypeOK, RateStages
<1>5. \A d \in Client :
        /\ rStage'[d] = "idle" => counted'[d] = {}
        /\ counted'[d] \subseteq 0..window'
  BY <1>1, <1>2, <1>3 DEF RateInvariant
<1>6. ASSUME NEW w \in 0..window, w # window PROVE WindowHolds(w)'
  <2>1. CountedIn(w)' = CountedIn(w) /\ c \notin CountedIn(w)
    BY <1>1, <1>3, <1>6 DEF CountedIn
  <2>2. PassIn(w)' = PassIn(w)
    BY <1>3, <2>1 DEF PassIn, CountedIn
  <2>3. \A d \in CountedIn(w) : rStage'[d] = rStage[d]
    BY <1>3, <2>1 DEF CountedIn
  <2>4. WindowHolds(w)
    BY DEF RateInvariant
  <2>5. QED
    BY <1>1, <2>1, <2>2, <2>3, <2>4 DEF WindowHolds
<1> DEFINE K == CountedIn(window)
           B == PassIn(window)
<1>7. WindowHolds(window) /\ Cardinality(B) <= count /\ count <= Cardinality(K) + rFaults
  BY <1>2 DEF RateInvariant
<1>8. IsFiniteSet(K) /\ IsFiniteSet(B) /\ Cardinality(K) \in Nat /\ Cardinality(B) \in Nat
  BY <1>7, FS_Subset, FS_CardinalityType DEF WindowHolds, PassIn
<1>9. K' = K \cup {c} /\ c \notin K /\ c \notin B
  BY <1>1, <1>3 DEF CountedIn, PassIn
<1>10. IsFiniteSet(K') /\ Cardinality(K') = Cardinality(K) + 1
  BY <1>8, <1>9, FS_AddElement
<1>11. /\ s = "expire" => n = 1
       /\ s = "passed" => n <= RestLimit
       /\ s = "refused" => n > RestLimit
       /\ s # "idle" /\ (s = "passed" \/ s = "expire" \/ s = "refused")
  BY <1>2
<1>12. B' = {d \in K' : rStage'[d] = "passed" \/ (rStage'[d] = "expire" /\ 1 <= RestLimit)}
  BY <1>1 DEF PassIn, R!Allowed
<1>13. B = {d \in K : rStage[d] = "passed" \/ (rStage[d] = "expire" /\ 1 <= RestLimit)}
  BY DEF PassIn, R!Allowed
<1>14. \A d \in K : rStage'[d] = rStage[d]
  BY <1>3, <1>9 DEF CountedIn
<1> HIDE DEF K, B, s
<1>15. B' \subseteq B \cup {c} /\ (c \in B' => s = "passed" \/ (s = "expire" /\ 1 <= RestLimit))
  BY <1>3, <1>9, <1>12, <1>13, <1>14
<1>16. IsFiniteSet(B') /\ Cardinality(B') <= n /\ Cardinality(B') <= RestLimit /\ Cardinality(B') \in Nat
  <2>1. CASE c \in B'
    <3>1. n <= RestLimit
      BY <1>2, <1>11, <1>15, <2>1
    <3>2. IsFiniteSet(B \cup {c}) /\ Cardinality(B \cup {c}) = Cardinality(B) + 1
      BY <1>8, <1>9, FS_AddElement
    <3>3. IsFiniteSet(B') /\ Cardinality(B') <= Cardinality(B \cup {c}) /\ Cardinality(B') \in Nat
      BY <1>15, <3>2, FS_Subset, FS_CardinalityType
    <3>4. QED
      BY <1>2, <1>7, <1>8, <3>1, <3>2, <3>3 DEF n
  <2>2. CASE c \notin B'
    <3>1. B' \subseteq B
      BY <1>15, <2>2
    <3>2. IsFiniteSet(B') /\ Cardinality(B') <= Cardinality(B) /\ Cardinality(B') \in Nat
      BY <1>8, <3>1, FS_Subset, FS_CardinalityType
    <3>3. Cardinality(B) <= RestLimit
      BY <1>7 DEF WindowHolds, B
    <3>4. QED
      BY <1>2, <1>7, <1>8, <3>2, <3>3 DEF n
  <2>3. QED
    BY <2>1, <2>2
<1>17. ASSUME NEW d \in K', rStage'[d] = "refused"
       PROVE  rFaults' + Cardinality(K') > RestLimit
  <2>1. CASE d = c
    <3>1. n > RestLimit
      BY <1>3, <1>11, <1>17, <2>1
    <3>2. QED
      BY <1>1, <1>2, <1>7, <1>8, <1>10, <3>1 DEF n
  <2>2. CASE d # c
    <3>1. d \in K /\ rStage[d] = "refused"
      BY <1>9, <1>14, <1>17, <2>2
    <3>2. rFaults + Cardinality(K) > RestLimit
      BY <1>7, <3>1 DEF WindowHolds, K
    <3>3. QED
      BY <1>1, <1>2, <1>8, <1>10, <3>2
  <2>3. QED
    BY <2>1, <2>2
<1>18. WindowHolds(window)'
  BY <1>10, <1>16, <1>17 DEF WindowHolds, K, B
<1>19. \A w \in (0..window)' : WindowHolds(w)'
  <2>1. ASSUME NEW w \in 0..window, w = window PROVE WindowHolds(w)'
    BY <1>1, <1>18, <2>1
  <2>2. QED
    BY <1>1, <1>6, <2>1
<1>20. /\ Cardinality(B') <= count'
       /\ count' <= Cardinality(K') + rFaults'
  BY <1>1, <1>2, <1>7, <1>8, <1>10, <1>16 DEF n
<1>21. QED
  BY <1>4, <1>5, <1>19, <1>20 DEF RateInvariant, K, B

(* The end of a window: the next one has counted nobody yet.                 *)
LEMMA WindowEndKeeps == ASSUME RateInvariant, R!WindowEnds PROVE RateInvariant'
<1>1. /\ count' = 0 /\ expires' = FALSE /\ window' = window + 1
      /\ rStage' = rStage /\ rFaults' = rFaults /\ rCrashes' = rCrashes
      /\ counted' = counted
  BY DEF R!WindowEnds
<1>2. window \in Nat /\ rFaults \in Nat /\ RestLimit \in Nat /\ R!RateTypeOK'
  <2>1. R!RateTypeOK /\ 0..MaxFaults \subseteq Nat
    BY RateParameters DEF RateInvariant
  <2>2. window \in Nat /\ rFaults \in Nat /\ 0 \in Nat /\ window + 1 \in Nat
    BY <2>1 DEF R!RateTypeOK
  <2>3. QED
    BY <1>1, <2>1, <2>2, RateParameters DEF R!RateTypeOK
<1>3. \A d \in Client :
        /\ rStage'[d] = "idle" => counted'[d] = {}
        /\ counted'[d] \subseteq 0..window'
  BY <1>1, <1>2 DEF RateInvariant
<1>4. ASSUME NEW w \in 0..window PROVE WindowHolds(w)'
  BY <1>1 DEF RateInvariant, WindowHolds, PassIn, CountedIn, R!Allowed
<1>5. CountedIn(window)' = {} /\ PassIn(window)' = {}
  <2>1. \A d \in Client : counted[d] \subseteq 0..window
    BY DEF RateInvariant
  <2>2. \A d \in Client : counted[d] # {window + 1}
    BY <1>2, <2>1
  <2>3. QED
    BY <1>1, <2>2 DEF CountedIn, PassIn
<1>6. /\ IsFiniteSet(CountedIn(window)') /\ Cardinality(PassIn(window)') = 0
      /\ Cardinality(CountedIn(window)') = 0
  BY <1>5, FS_EmptySet
<1>7. WindowHolds(window)'
  BY <1>1, <1>2, <1>5, <1>6 DEF WindowHolds
<1>8. \A w \in 0..window' : WindowHolds(w)'
  <2>1. 0..window' = 0..window \cup {window + 1}
    BY <1>1, <1>2
  <2>2. ASSUME NEW w \in {window + 1} PROVE WindowHolds(w)'
    <3>1. w = window'
      BY <1>1
    <3>2. QED
      BY <1>7, <3>1 DEF WindowHolds, CountedIn, PassIn
  <2>3. QED
    BY <1>4, <2>1, <2>2
<1>9. /\ Cardinality(PassIn(window)') <= count'
      /\ count' <= Cardinality(CountedIn(window)') + rFaults'
  BY <1>1, <1>2, <1>5, <1>6
<1>10. QED
  BY <1>2, <1>3, <1>8, <1>9 DEF RateInvariant

(* The steps that count nobody: a failed command, an answer to expire, the   *)
(* death of a process.                                                       *)
LEMMA UncountedKeeps ==
  ASSUME RateInvariant, NEW c \in Client,
         R!IncrFails(c) \/ R!Expire(c) \/ R!ExpireFails(c) \/ R!Dies(c)
  PROVE  RateInvariant'
<1> DEFINE Out == {"unchecked", "dead", "refused", "passed"}
<1>1. /\ count \in Nat /\ window \in Nat /\ rFaults \in Nat /\ RestLimit \in Nat
      /\ rStage \in [Client -> RateStages] /\ counted \in [Client -> SUBSET Nat]
      /\ rFaults \in 0..MaxFaults /\ rCrashes \in 0..MaxCrashes
      /\ expires \in BOOLEAN /\ MaxFaults \in Nat /\ MaxCrashes \in Nat
  BY RateParameters DEF RateInvariant, R!RateTypeOK, RateStages
<1>2. /\ counted' = counted /\ window' = window
      /\ rFaults' \in {rFaults, rFaults + 1} /\ rFaults' <= MaxFaults
      /\ rCrashes' \in {rCrashes, rCrashes + 1} /\ rCrashes' <= MaxCrashes
      /\ expires' \in BOOLEAN
      /\ count' \in {count, count + 1} /\ (count' = count + 1 => rFaults' = rFaults + 1)
  <2>1. CASE R!IncrFails(c)
    <3>1. /\ counted' = counted /\ window' = window
          /\ rFaults' = rFaults + 1 /\ rFaults < MaxFaults
          /\ rCrashes' = rCrashes /\ expires' = expires
          /\ count' \in {count, count + 1}
      BY <2>1 DEF R!IncrFails, R!Fault
    <3>2. QED
      BY <1>1, <3>1
  <2>2. CASE R!Expire(c)
    BY <1>1, <2>2 DEF R!Expire
  <2>3. CASE R!ExpireFails(c)
    BY <1>1, <2>3 DEF R!ExpireFails, R!Fault
  <2>4. CASE R!Dies(c)
    BY <1>1, <2>4 DEF R!Dies
  <2>5. QED
    BY <2>1, <2>2, <2>3, <2>4
<1>3. \E s \in Out :
        /\ rStage' = [rStage EXCEPT ![c] = s]
        /\ s = "passed" => rStage[c] = "expire" /\ R!Allowed(1)
        /\ s = "refused" => RestLimit = 0
  <2>1. CASE R!IncrFails(c)
    BY <2>1 DEF R!IncrFails, R!Become
  <2>2. CASE R!Expire(c)
    <3>1. rStage[c] = "expire" /\ rStage' = [rStage EXCEPT ![c] = R!Verdict(1)]
      BY <2>2 DEF R!Expire, R!Become
    <3>2. CASE R!Allowed(1)
      BY <3>1, <3>2 DEF R!Verdict
    <3>3. CASE ~R!Allowed(1)
      <4>1. RestLimit = 0
        BY <1>1, <3>3 DEF R!Allowed
      <4>2. QED
        BY <3>1, <3>3, <4>1 DEF R!Verdict
    <3>4. QED
      BY <3>2, <3>3
  <2>3. CASE R!ExpireFails(c)
    BY <2>3 DEF R!ExpireFails, R!Become
  <2>4. CASE R!Dies(c)
    BY <2>4 DEF R!Dies, R!Become
  <2>5. QED
    BY <2>1, <2>2, <2>3, <2>4
<1>4. PICK s \in Out :
        /\ rStage' = [rStage EXCEPT ![c] = s]
        /\ s = "passed" => rStage[c] = "expire" /\ R!Allowed(1)
        /\ s = "refused" => RestLimit = 0
  BY <1>3
<1>5. /\ rStage'[c] = s /\ s # "idle" /\ s # "expire"
      /\ \A d \in Client : d # c => rStage'[d] = rStage[d]
  BY <1>1, <1>4
<1>6. R!RateTypeOK'
  <2>1. rStage' \in [Client -> RateStages]
    BY <1>1, <1>4 DEF RateStages
  <2>2. count' \in Nat /\ rFaults' \in 0..MaxFaults /\ rCrashes' \in 0..MaxCrashes
    BY <1>1, <1>2
  <2>3. QED
    BY <1>1, <1>2, <2>1, <2>2 DEF R!RateTypeOK, RateStages
<1>7. \A w \in 0..window : PassIn(w)' \subseteq PassIn(w)
  BY <1>2, <1>4, <1>5 DEF PassIn, CountedIn, R!Allowed
<1>8. /\ \A d \in Client : rStage'[d] = "refused" /\ rStage[d] # "refused" => RestLimit = 0
      /\ \A d \in Client : rStage'[d] = "idle" => rStage[d] = "idle"
  BY <1>4, <1>5
<1>9. rFaults' >= rFaults
  BY <1>1, <1>2
<1>10. QED
  BY <1>2, <1>6, <1>7, <1>8, <1>9, WindowsStay

LEMMA RateKept == RateInvariant /\ [R!RateNext]_rateVars => RateInvariant'
<1> SUFFICES ASSUME RateInvariant, [R!RateNext]_rateVars PROVE RateInvariant'
  OBVIOUS
<1>1. CASE R!WindowEnds
  BY <1>1, WindowEndKeeps
<1>2. ASSUME NEW c \in Client, R!CheckRateLimit(c) \/ R!Dies(c) PROVE RateInvariant'
  BY <1>2, IncrKeeps, UncountedKeeps DEF R!CheckRateLimit
<1>3. CASE UNCHANGED rateVars
  BY <1>3 DEF rateVars, RateInvariant, R!RateTypeOK, WindowHolds, PassIn, CountedIn, R!Allowed
<1>4. QED
  BY <1>1, <1>2, <1>3 DEF R!RateNext

LEMMA RateStart == R!RateInit => RateInvariant
<1> SUFFICES ASSUME R!RateInit PROVE RateInvariant
  OBVIOUS
<1>1. /\ count = 0 /\ expires = FALSE /\ rStage = [c \in Client |-> "idle"] /\ rFaults = 0
      /\ rCrashes = 0 /\ window = 0 /\ counted = [c \in Client |-> {}]
  BY DEF R!RateInit
<1>2. R!RateTypeOK
  <2>1. 0 \in Nat /\ 0 \in 0..MaxFaults /\ 0 \in 0..MaxCrashes
    BY RateParameters
  <2>2. rStage \in [Client -> RateStages] /\ counted \in [Client -> SUBSET Nat]
    BY <1>1 DEF RateStages
  <2>3. QED
    BY <1>1, <2>1, <2>2 DEF R!RateTypeOK, RateStages
<1>3. \A w \in {0} : CountedIn(w) = {} /\ PassIn(w) = {}
  BY <1>1 DEF CountedIn, PassIn
<1>4. IsFiniteSet({}) /\ Cardinality({}) = 0
  BY FS_EmptySet
<1>5. WindowHolds(0) /\ 0..window = {0}
  BY <1>1, <1>3, <1>4, RateParameters DEF WindowHolds
<1>6. Cardinality(PassIn(window)) <= count /\ count <= Cardinality(CountedIn(window)) + rFaults
  BY <1>1, <1>3, <1>4
<1>7. QED
  BY <1>1, <1>2, <1>5, <1>6 DEF RateInvariant

(* Of a window the counter of Redis is never below the calls that pass and   *)
(* never above all that may have been counted, whatever fails and whoever    *)
(* dies between incr and expire (rate-limit.ts:23-26).                       *)
THEOREM RateInvariance == ServicesSpec => []RateInvariant
<1>1. ServicesInit => RateInvariant
  BY RateStart DEF ServicesInit
<1>2. RateInvariant /\ [ServicesNext]_allVars => RateInvariant'
  <2>1. [ServicesNext]_allVars => [R!RateNext]_rateVars
    BY DEF ServicesNext, allVars, RestPart, HistoryPart, ChatsPart, AccountsPart, RatePart,
      LocalPart, FeedPart
  <2>2. QED
    BY <2>1, RateKept
<1>3. QED
  BY <1>1, <1>2, PTL DEF ServicesSpec

(* No interleaving of processes lets more than the limit of a window pass by *)
(* their count, and none is refused in a window that did not see too many.   *)
THEOREM RedisLimitAlwaysHolds == ServicesSpec => []RedisLimitHolds
<1>1. RateInvariant => RedisLimitHolds
  BY RateFromInvariant
<1>2. QED
  BY <1>1, RateInvariance, PTL

-----------------------------------------------------------------------------
(* History                                                                    *)

LastPage(r) == pages[r][Len(pages[r])]
Going == {"member", "cursor", "query", "page"}

PagesDescend(r) ==
  \A i, j \in DOMAIN pages[r] : i < j => \A m \in pages[r][i], k \in pages[r][j] : hAt[k] < hAt[m]

Seen(r, m) == m \in H!Shown(r) \/ H!TiedWithACursor(r, m)

(* What the scroll is about and has not shown lies below the last page.      *)
RestIsBelow(r) ==
  \A m \in H!Wanted(r) : Seen(r, m) \/ \A o \in H!Oldest(LastPage(r)) : hAt[m] < hAt[o]

ScrollsRightly(r) ==
  /\ pages[r] \in Seq(SUBSET Req)
  /\ PagesDescend(r)
  /\ hStage[r] = "idle" => pages[r] = << >>
  /\ hStage[r] = "page" => pages[r] # << >>
  /\ hStage[r] \in {"member", "cursor", "query"} /\ pages[r] # << >> =>
       \E o \in H!Oldest(LastPage(r)) : cursor[r] = {o}
  /\ hStage[r] = "query" /\ pages[r] = << >> => before[r] = from[r]
  /\ hStage[r] = "query" /\ pages[r] # << >> =>
       \E o \in H!Oldest(LastPage(r)) : before[r] = hAt[o]
  /\ hStage[r] \in Going /\ pages[r] # << >> => RestIsBelow(r)
  /\ hStage[r] = "end" => \A m \in H!Wanted(r) : Seen(r, m)

HistoryTyped ==
  /\ H!TypeOK
  /\ cursor = [r \in Reader |-> cursor[r]] /\ began = [r \in Reader |-> began[r]]
  /\ pages = [r \in Reader |-> pages[r]]

HistoryInvariant ==
  /\ HistoryTyped
  /\ IsFiniteSet(H!Committed)
  /\ \A r \in Reader : ScrollsRightly(r)

LEMMA HistoryParameters ==
  /\ Default \in Nat \ {0} /\ MaxPage \in Nat \ {0} /\ MaxCreatedAt \in Nat \ {0}
  /\ PageLimit \subseteq Nat
  BY ServicesAssumption DEF H!HistoryAssumption

LEMMA ScrollFromInvariant == HistoryInvariant => ScrollIsExact
  BY DEF ScrollIsExact, H!ScrollIsExact, HistoryInvariant, ScrollsRightly, PagesDescend, Seen

(* A page is never empty while there are messages for it.                    *)
LEMMA PagesAreFilled ==
  ASSUME NEW S, IsFiniteSet(S), NEW n \in PageLimit \cup {0}, {} \in H!Newest(S, H!PageSize(n))
  PROVE  S = {}
<1>1. n \in Nat /\ H!PageSize(n) \in Nat \ {0}
  BY HistoryParameters DEF H!PageSize
<1>2. ASSUME NEW T PROVE H!Cardinality(T) = Cardinality(T)
  BY DEF H!Cardinality, Cardinality
<1>3. Cardinality({}) = (IF Cardinality(S) < H!PageSize(n) THEN Cardinality(S) ELSE H!PageSize(n))
  BY <1>2 DEF H!Newest
<1>4. Cardinality({}) = 0 /\ Cardinality(S) \in Nat /\ (Cardinality(S) = 0 <=> S = {})
  BY FS_EmptySet, FS_CardinalityType
<1>5. QED
  BY <1>1, <1>3, <1>4

(* What is written stays where it is.                                        *)
LEMMA CommitKeeps ==
  ASSUME HistoryInvariant, NEW m \in Req, NEW t \in H!Time, H!Commit(m, t)
  PROVE  HistoryInvariant'
<1>1. /\ hAt[m] = 0 /\ hAt' = [hAt EXCEPT ![m] = t]
      /\ hStage' = hStage /\ limit' = limit /\ cursor' = cursor /\ began' = began
      /\ before' = before /\ pages' = pages /\ from' = from
  BY DEF H!Commit, H!scroll
<1>2. t \in 1..MaxCreatedAt /\ hAt \in [Req -> 0..MaxCreatedAt] /\ MaxCreatedAt \in Nat
  BY HistoryParameters DEF H!Time, HistoryInvariant, HistoryTyped, H!TypeOK
<1>3. /\ H!Committed' = H!Committed \cup {m}
      /\ \A k \in H!Committed : hAt'[k] = hAt[k]
  BY <1>1, <1>2 DEF H!Committed
<1>4. IsFiniteSet(H!Committed)'
  BY <1>3, FS_AddElement DEF HistoryInvariant
<1>5. HistoryTyped'
  <2>1. hAt' \in [Req -> 0..MaxCreatedAt]
    BY <1>1, <1>2
  <2>2. HistoryTyped
    BY DEF HistoryInvariant
  <2>3. QED
    BY <1>1, <1>3, <2>1, <2>2 DEF HistoryTyped, H!TypeOK
<1>6. ASSUME NEW r \in Reader PROVE ScrollsRightly(r)'
  <2>1. /\ ScrollsRightly(r) /\ began[r] \subseteq H!Committed
        /\ \A i \in DOMAIN pages[r] : pages[r][i] \subseteq H!Committed
    BY DEF HistoryInvariant, HistoryTyped, H!TypeOK
  <2>2. \A i \in DOMAIN pages[r] : H!Oldest(pages[r][i])' = H!Oldest(pages[r][i])
    BY <1>1, <1>3, <2>1 DEF H!Oldest
  <2>3. pages[r] # << >> => LastPage(r) \subseteq H!Committed /\ LastPage(r)' = LastPage(r)
                          /\ H!Oldest(LastPage(r))' = H!Oldest(LastPage(r))
    <3>1. pages[r] # << >> => Len(pages[r]) \in DOMAIN pages[r]
      BY <2>1 DEF ScrollsRightly
    <3>2. QED
      BY <1>1, <2>1, <2>2, <3>1 DEF LastPage
  <2>4. H!Wanted(r)' = H!Wanted(r) /\ H!Wanted(r) \subseteq H!Committed
    BY <1>1, <1>3, <2>1 DEF H!Wanted
  <2>5. ASSUME NEW k \in H!Committed PROVE Seen(r, k)' <=> Seen(r, k)
    <3>1. H!Shown(r)' = H!Shown(r)
      BY <1>1 DEF H!Shown, H!Range
    <3>2. \A i \in DOMAIN pages[r] : H!Oldest(pages[r][i]) \subseteq H!Committed
      BY <2>1 DEF H!Oldest
    <3>3. H!TiedWithACursor(r, k)' <=> H!TiedWithACursor(r, k)
      BY <1>1, <1>3, <2>2, <3>2 DEF H!TiedWithACursor
    <3>4. QED
      BY <3>1, <3>3 DEF Seen
  <2>6. PagesDescend(r)'
    BY <1>1, <1>3, <2>1 DEF PagesDescend, ScrollsRightly
  <2>7. H!Oldest(LastPage(r)) \subseteq LastPage(r)
    BY DEF H!Oldest
  <2>8. pages[r] # << >> /\ RestIsBelow(r) => RestIsBelow(r)'
    BY <1>1, <1>3, <2>3, <2>4, <2>5, <2>7 DEF RestIsBelow
  <2>9. (\A k \in H!Wanted(r) : Seen(r, k)) => (\A k \in H!Wanted(r)' : Seen(r, k)')
    BY <2>4, <2>5
  <2>10. QED
    BY <1>1, <1>3, <2>1, <2>3, <2>6, <2>7, <2>8, <2>9 DEF ScrollsRightly
<1>7. QED
  BY <1>4, <1>5, <1>6 DEF HistoryInvariant

LEMMA SmallSets == \A x : H!Cardinality({x}) <= 1 /\ H!Cardinality({}) <= 1
<1> SUFFICES ASSUME NEW x PROVE H!Cardinality({x}) <= 1 /\ H!Cardinality({}) <= 1
  OBVIOUS
<1>1. ASSUME NEW T PROVE H!Cardinality(T) = Cardinality(T)
  BY DEF H!Cardinality, Cardinality
<1>2. Cardinality({x}) = 1 /\ Cardinality({}) = 0
  BY FS_Singleton, FS_EmptySet
<1>3. QED
  BY <1>1, <1>2

(* A step of one reader is no concern of the others.                         *)
LEMMA ReadersAreAlone ==
  ASSUME HistoryInvariant, NEW r \in Reader, hAt' = hAt, HistoryTyped', ScrollsRightly(r)',
         \A q \in Reader : q # r =>
           /\ hStage'[q] = hStage[q] /\ cursor'[q] = cursor[q] /\ before'[q] = before[q]
           /\ pages'[q] = pages[q] /\ began'[q] = began[q] /\ from'[q] = from[q]
  PROVE  HistoryInvariant'
<1>1. IsFiniteSet(H!Committed)'
  BY DEF HistoryInvariant, H!Committed
<1>2. ASSUME NEW q \in Reader, q # r PROVE ScrollsRightly(q)'
  <2>1. ScrollsRightly(q)
    BY DEF HistoryInvariant
  <2>2. /\ hStage'[q] = hStage[q] /\ cursor'[q] = cursor[q] /\ before'[q] = before[q]
        /\ pages'[q] = pages[q] /\ began'[q] = began[q] /\ from'[q] = from[q]
    BY <1>2
  <2>3. H!Wanted(q)' = H!Wanted(q) /\ LastPage(q)' = LastPage(q)
    BY <2>2 DEF H!Wanted, LastPage
  <2>4. H!Oldest(LastPage(q))' = H!Oldest(LastPage(q))
    BY <2>3 DEF H!Oldest
  <2>5. ASSUME NEW k PROVE Seen(q, k)' <=> Seen(q, k)
    BY <2>2 DEF Seen, H!Shown, H!Range, H!TiedWithACursor, H!Oldest
  <2>6. PagesDescend(q)' <=> PagesDescend(q)
    BY <2>2 DEF PagesDescend
  <2>7. RestIsBelow(q) => RestIsBelow(q)'
    BY <2>3, <2>4, <2>5 DEF RestIsBelow
  <2>8. QED
    BY <2>1, <2>2, <2>3, <2>4, <2>5, <2>6, <2>7 DEF ScrollsRightly
<1>3. \A q \in Reader : ScrollsRightly(q)'
  BY <1>2
<1>4. QED
  BY <1>1, <1>3 DEF HistoryInvariant

(* The steps which show nothing new.                                         *)
LEMMA QuietStepsKeep ==
  ASSUME HistoryInvariant, NEW r \in Reader,
         \/ H!CheckMember(r) \/ H!FindCursor(r) \/ H!ScrollBack(r)
         \/ \E n \in PageLimit, c \in {{}} \cup {{m} : m \in Req} : H!Open(r, n, c)
  PROVE  HistoryInvariant'
<1> DEFINE Stages == {"idle", "member", "cursor", "query", "page", "end", "forbidden"}
<1>1. /\ HistoryTyped /\ H!TypeOK /\ ScrollsRightly(r)
      /\ hStage \in [Reader -> Stages]
      /\ cursor = [q \in Reader |-> cursor[q]] /\ began = [q \in Reader |-> began[q]]
      /\ began[r] \subseteq H!Committed
      /\ \A i \in DOMAIN pages[r] : pages[r][i] \subseteq H!Committed
  BY DEF HistoryInvariant, HistoryTyped, H!TypeOK
<1>2. hAt' = hAt /\ pages' = pages
  BY DEF H!CheckMember, H!FindCursor, H!ScrollBack, H!Open, H!scroll
<1>3. H!Committed' = H!Committed
  BY <1>2 DEF H!Committed
<1>4. LastPage(r)' = LastPage(r)
  BY <1>2 DEF LastPage
<1>5. H!Oldest(LastPage(r))' = H!Oldest(LastPage(r)) /\ PagesDescend(r)' = PagesDescend(r)
  BY <1>2, <1>4 DEF H!Oldest, PagesDescend
<1>6. ASSUME NEW k PROVE Seen(r, k)' <=> Seen(r, k)
  BY <1>2 DEF Seen, H!Shown, H!Range, H!TiedWithACursor, H!Oldest
<1>7. began'[r] = began[r] /\ from'[r] = from[r] => H!Wanted(r)' = H!Wanted(r)
  BY <1>2 DEF H!Wanted
<1>8. began'[r] = began[r] /\ from'[r] = from[r] /\ RestIsBelow(r) => RestIsBelow(r)'
  BY <1>2, <1>4, <1>5, <1>6, <1>7 DEF RestIsBelow
<1>9. CASE H!CheckMember(r)
  <2>1. /\ hStage[r] = "member" /\ hStage' = [hStage EXCEPT ![r] = IF r \in Member THEN "cursor" ELSE "forbidden"]
        /\ limit' = limit /\ cursor' = cursor /\ began' = began /\ before' = before /\ from' = from
    BY <1>9 DEF H!CheckMember, H!To, H!scroll
  <2>2. HistoryTyped'
    BY <1>1, <1>2, <1>3, <2>1 DEF HistoryTyped, H!TypeOK
  <2>3. hStage'[r] \in {"cursor", "forbidden"}
    BY <1>1, <2>1
  <2>4. ScrollsRightly(r)'
    BY <1>1, <1>2, <1>4, <1>5, <1>8, <2>1, <2>3 DEF ScrollsRightly, Going
  <2>5. QED
    BY <1>1, <1>2, <2>1, <2>2, <2>4, ReadersAreAlone
<1>10. CASE H!FindCursor(r)
  <2> DEFINE t == IF cursor[r] = {} THEN 0 ELSE hAt[CHOOSE m \in cursor[r] : TRUE]
  <2>1. /\ hStage[r] = "cursor" /\ hStage' = [hStage EXCEPT ![r] = "query"]
        /\ before' = [before EXCEPT ![r] = t]
        /\ from' = [from EXCEPT ![r] = IF pages[r] = << >> THEN t ELSE from[r]]
        /\ limit' = limit /\ cursor' = cursor /\ began' = began
    BY <1>10 DEF H!FindCursor, H!To, H!scroll
  <2>2. t \in 0..MaxCreatedAt
    BY <1>1, HistoryParameters DEF H!TypeOK
  <2>3. pages[r] # << >> => \E o \in H!Oldest(LastPage(r)) : t = hAt[o]
    BY <1>1, <2>1 DEF ScrollsRightly
  <2> HIDE DEF t
  <2>4. HistoryTyped'
    <3>1. /\ hStage' \in [Reader -> Stages] /\ before' \in [Reader -> 0..MaxCreatedAt]
          /\ from' \in [Reader -> 0..MaxCreatedAt]
      BY <1>1, <2>1, <2>2 DEF H!TypeOK
    <3>2. QED
      BY <1>1, <1>2, <1>3, <2>1, <3>1 DEF HistoryTyped, H!TypeOK
  <2>5. /\ hStage'[r] = "query" /\ before'[r] = t
        /\ from'[r] = (IF pages[r] = << >> THEN t ELSE from[r])
    BY <1>1, <2>1 DEF H!TypeOK
  <2>6. ScrollsRightly(r)'
    BY <1>1, <1>2, <1>4, <1>5, <1>8, <2>1, <2>3, <2>5 DEF ScrollsRightly, Going
  <2>7. QED
    BY <1>1, <1>2, <2>1, <2>4, <2>6, ReadersAreAlone
<1>11. CASE H!ScrollBack(r)
  <2>1. PICK o \in H!Oldest(LastPage(r)) :
          /\ hStage[r] = "page" /\ hStage' = [hStage EXCEPT ![r] = "member"]
          /\ cursor' = [cursor EXCEPT ![r] = {o}]
          /\ limit' = limit /\ began' = began /\ before' = before /\ from' = from
    BY <1>11 DEF H!ScrollBack, H!To, H!Last, LastPage
  <2>2. o \in Req
    <3>1. Len(pages[r]) \in DOMAIN pages[r]
      BY <1>1, <2>1 DEF ScrollsRightly
    <3>2. QED
      BY <1>1, <3>1 DEF LastPage, H!Oldest, H!Committed
  <2>3. hStage'[r] = "member" /\ cursor'[r] = {o}
    BY <1>1, <2>1
  <2>4. HistoryTyped'
    BY <1>1, <1>2, <1>3, <2>1, <2>2, SmallSets DEF HistoryTyped, H!TypeOK
  <2>5. ScrollsRightly(r)'
    BY <1>1, <1>2, <1>4, <1>5, <1>8, <2>1, <2>3 DEF ScrollsRightly, Going
  <2>6. QED
    BY <1>1, <1>2, <2>1, <2>4, <2>5, ReadersAreAlone
<1>12. ASSUME NEW n \in PageLimit, NEW c \in {{}} \cup {{m} : m \in Req}, H!Open(r, n, c)
       PROVE  HistoryInvariant'
  <2>1. /\ hStage[r] = "idle" /\ hStage' = [hStage EXCEPT ![r] = "member"]
        /\ cursor' = [cursor EXCEPT ![r] = c] /\ limit' = [limit EXCEPT ![r] = n]
        /\ began' = [began EXCEPT ![r] = H!Committed] /\ before' = before /\ from' = from
    BY <1>12 DEF H!Open, H!To
  <2>2. hStage'[r] = "member" /\ pages[r] = << >>
    BY <1>1, <2>1 DEF ScrollsRightly
  <2>3. c \subseteq Req /\ H!Cardinality(c) <= 1
    BY SmallSets
  <2>4. HistoryTyped'
    BY <1>1, <1>2, <1>3, <2>1, <2>3 DEF HistoryTyped, H!TypeOK
  <2>5. ScrollsRightly(r)'
    BY <1>1, <1>2, <1>4, <1>5, <2>1, <2>2 DEF ScrollsRightly, Going
  <2>6. QED
    BY <1>1, <1>2, <2>1, <2>4, <2>5, ReadersAreAlone
<1>13. QED
  BY <1>9, <1>10, <1>11, <1>12

(* One page more, below the ones before.                                     *)
LEMMA FindMessagesKeeps ==
  ASSUME HistoryInvariant, NEW r \in Reader, H!FindMessages(r) PROVE HistoryInvariant'
<1> DEFINE S == H!Older(H!Committed, before[r])
           n == Len(pages[r])
           Stages == {"idle", "member", "cursor", "query", "page", "end", "forbidden"}
<1>1. /\ HistoryTyped /\ H!TypeOK /\ ScrollsRightly(r)
      /\ hStage \in [Reader -> Stages] /\ hAt \in [Req -> 0..MaxCreatedAt]
      /\ limit[r] \in PageLimit \cup {0} /\ IsFiniteSet(H!Committed)
      /\ pages = [q \in Reader |-> pages[q]]
      /\ began[r] \subseteq H!Committed
      /\ \A i \in DOMAIN pages[r] : pages[r][i] \subseteq H!Committed
  BY DEF HistoryInvariant, HistoryTyped, H!TypeOK
<1>2. PICK page \in H!Newest(S, H!PageSize(limit[r])) :
        /\ hStage[r] = "query"
        /\ pages' = [pages EXCEPT ![r] = Append(pages[r], page)]
        /\ hStage' = [hStage EXCEPT ![r] = IF page = {} THEN "end" ELSE "page"]
        /\ hAt' = hAt /\ limit' = limit /\ cursor' = cursor /\ began' = began
        /\ before' = before /\ from' = from
  BY DEF H!FindMessages, H!To, H!scroll
<1>3. /\ page \subseteq S /\ \A m \in page, k \in S \ page : hAt[m] >= hAt[k]
      /\ S \subseteq H!Committed /\ IsFiniteSet(S)
  <2>1. page \subseteq S /\ \A m \in page, k \in S \ page : hAt[m] >= hAt[k]
    BY DEF H!Newest
  <2>2. S \subseteq H!Committed
    BY DEF H!Older
  <2>3. QED
    BY <1>1, <2>1, <2>2, FS_Subset
<1>4. page = {} => S = {}
  BY <1>1, <1>3, PagesAreFilled
<1>5. /\ n \in Nat /\ pages[r] \in Seq(SUBSET Req) /\ DOMAIN pages[r] = 1..n
      /\ page \in SUBSET Req /\ pages'[r] = Append(pages[r], page)
      /\ pages'[r] \in Seq(SUBSET Req) /\ Len(pages'[r]) = n + 1 /\ pages'[r][n + 1] = page
      /\ DOMAIN pages'[r] = 1..(n + 1) /\ \A i \in 1..n : pages'[r][i] = pages[r][i]
  <2>1. page \in SUBSET Req
    BY <1>3 DEF H!Committed
  <2>2. pages'[r] = Append(pages[r], page) /\ pages[r] \in Seq(SUBSET Req)
    BY <1>1, <1>2 DEF ScrollsRightly
  <2>3. QED
    BY <2>1, <2>2
<1> HIDE DEF S, n
<1>6. hStage'[r] = (IF page = {} THEN "end" ELSE "page") /\ pages'[r] # << >>
  <2>1. hStage'[r] = (IF page = {} THEN "end" ELSE "page")
    BY <1>1, <1>2
  <2>2. n + 1 # 0
    BY <1>5
  <2>3. QED
    BY <1>5, <2>1, <2>2
<1>7. H!Committed' = H!Committed /\ H!Wanted(r)' = H!Wanted(r)
  BY <1>2 DEF H!Committed, H!Wanted
<1>8. HistoryTyped'
  <2>1. \A i \in DOMAIN pages'[r] : pages'[r][i] \subseteq H!Committed
    <3>1. ASSUME NEW i \in DOMAIN pages'[r] PROVE i \in 1..n \/ i = n + 1
      BY <1>5
    <3>2. QED
      BY <1>1, <1>3, <1>5, <3>1
  <2>2. \A q \in Reader : q # r => pages'[q] = pages[q]
    BY <1>1, <1>2
  <2>3. pages' = [q \in Reader |-> pages'[q]]
    BY <1>1, <1>2
  <2>4. hStage' \in [Reader -> Stages]
    BY <1>1, <1>2
  <2>5. H!TypeOK'
    BY <1>1, <1>2, <1>7, <2>1, <2>2, <2>4 DEF H!TypeOK
  <2>6. QED
    BY <1>1, <1>2, <2>3, <2>5 DEF HistoryTyped
<1>9. \A m \in H!Committed : hAt[m] \in Nat
  BY <1>1 DEF H!Committed
<1>10. pages[r] # << >> =>
         /\ n \in 1..n /\ LastPage(r) = pages[r][n] /\ LastPage(r) \subseteq H!Committed
         /\ RestIsBelow(r)
         /\ \E o \in H!Oldest(LastPage(r)) : before[r] = hAt[o]
  <2>1. pages[r] # << >> => n \in 1..n
    BY <1>5 DEF n
  <2>2. QED
    BY <1>1, <1>2, <1>5, <2>1 DEF LastPage, ScrollsRightly, Going, n
(* All of the new page is older than what was shown.                         *)
<1>11. ASSUME NEW i \in 1..n, NEW m \in pages[r][i], NEW k \in page PROVE hAt[k] < hAt[m]
  <2>1. pages[r] # << >>
    BY <1>5, <1>11
  <2>2. PICK o \in H!Oldest(LastPage(r)) : before[r] = hAt[o]
    BY <1>10, <2>1
  <2>3. o \in H!Committed /\ o \in pages[r][n] /\ \A x \in pages[r][n] : hAt[o] <= hAt[x]
    BY <1>10, <2>1, <2>2 DEF H!Oldest
  <2>4. before[r] # 0 /\ k \in H!Committed /\ m \in H!Committed
    BY <1>1, <1>3, <1>5, <2>2, <2>3 DEF H!Committed
  <2>5. hAt[k] < hAt[o]
    BY <1>3, <2>2, <2>4 DEF S, H!Older
  <2>6. hAt[o] <= hAt[m]
    <3>1. CASE i = n
      BY <2>3, <3>1
    <3>2. CASE i < n
      <4>1. hAt[o] < hAt[m]
        BY <1>1, <1>5, <1>10, <2>1, <2>3, <3>2 DEF ScrollsRightly, PagesDescend
      <4>2. QED
        BY <1>9, <2>3, <2>4, <4>1
    <3>3. QED
      BY <1>5, <3>1, <3>2
  <2>7. QED
    BY <1>9, <2>3, <2>4, <2>5, <2>6
<1>12. PagesDescend(r)'
  <2> SUFFICES ASSUME NEW i \in 1..(n + 1), NEW j \in 1..(n + 1), i < j,
                      NEW m \in pages'[r][i], NEW k \in pages'[r][j]
      PROVE  hAt[k] < hAt[m]
    BY <1>2, <1>5 DEF PagesDescend
  <2>1. i \in 1..n
    BY <1>5
  <2>2. CASE j \in 1..n
    BY <1>1, <1>5, <2>1, <2>2 DEF ScrollsRightly, PagesDescend
  <2>3. CASE j = n + 1
    BY <1>5, <1>11, <2>1, <2>3
  <2>4. QED
    BY <1>5, <2>2, <2>3
<1>13. ASSUME NEW m, Seen(r, m) PROVE Seen(r, m)'
  <2>1. \E i \in DOMAIN pages[r] : m \in pages[r][i] \/ \E k \in H!Oldest(pages[r][i]) : hAt[m] = hAt[k]
    BY <1>13 DEF Seen, H!Shown, H!Range, H!TiedWithACursor
  <2>2. PICK i \in 1..n : m \in pages[r][i] \/ \E k \in H!Oldest(pages[r][i]) : hAt[m] = hAt[k]
    BY <1>5, <2>1
  <2>3. i \in DOMAIN pages'[r] /\ pages'[r][i] = pages[r][i]
    BY <1>5
  <2>4. QED
    BY <1>2, <2>2, <2>3 DEF Seen, H!Shown, H!Range, H!TiedWithACursor, H!Oldest
<1>14. ASSUME NEW m, m \in page \/ \E o \in H!Oldest(page) : hAt[m] = hAt[o] PROVE Seen(r, m)'
  <2>1. n + 1 \in DOMAIN pages'[r] /\ pages'[r][n + 1] = page
    BY <1>5
  <2>2. QED
    BY <1>2, <1>14, <2>1 DEF Seen, H!Shown, H!Range, H!TiedWithACursor, H!Oldest
(* Whatever is wanted and has not been seen was in reach of the query.       *)
<1>15. ASSUME NEW m \in H!Wanted(r), ~Seen(r, m) PROVE m \in S
  <2>1. m \in H!Committed
    BY <1>1 DEF H!Wanted
  <2>2. CASE pages[r] = << >>
    <3>1. before[r] = from[r]
      BY <1>1, <1>2, <2>2 DEF ScrollsRightly
    <3>2. QED
      BY <2>1, <3>1 DEF H!Wanted, H!Older, S
  <2>3. CASE pages[r] # << >>
    <3>1. \A o \in H!Oldest(LastPage(r)) : hAt[m] < hAt[o]
      BY <1>10, <1>15, <2>3 DEF RestIsBelow
    <3>2. QED
      BY <1>10, <2>1, <2>3, <3>1 DEF H!Older, S
  <2>4. QED
    BY <2>2, <2>3
<1>16. page # {} => RestIsBelow(r)'
  <2> SUFFICES ASSUME page # {}, NEW m \in H!Wanted(r), ~Seen(r, m)', NEW o \in H!Oldest(page)
      PROVE  hAt[m] < hAt[o]
    <3>1. LastPage(r)' = page
      BY <1>5 DEF LastPage
    <3>2. H!Oldest(LastPage(r))' = H!Oldest(page)
      BY <1>2, <3>1 DEF H!Oldest
    <3>3. QED
      BY <1>2, <1>7, <3>2 DEF RestIsBelow
  <2>1. m \in S /\ m \notin page /\ hAt[m] # hAt[o] /\ o \in page
    BY <1>13, <1>14, <1>15 DEF H!Oldest
  <2>2. hAt[o] >= hAt[m]
    BY <1>3, <2>1
  <2>3. hAt[o] \in Nat /\ hAt[m] \in Nat
    BY <1>3, <1>9, <2>1
  <2>4. QED
    BY <2>1, <2>2, <2>3
<1>17. page = {} => \A m \in H!Wanted(r) : Seen(r, m)'
  BY <1>4, <1>13, <1>15
<1>18. ScrollsRightly(r)'
  BY <1>5, <1>6, <1>7, <1>12, <1>16, <1>17 DEF ScrollsRightly, Going
<1>19. QED
  BY <1>1, <1>2, <1>8, <1>18, ReadersAreAlone

LEMMA HistoryKept == HistoryInvariant /\ [H!Next]_historyVars => HistoryInvariant'
<1> SUFFICES ASSUME HistoryInvariant, [H!Next]_historyVars PROVE HistoryInvariant'
  OBVIOUS
<1>1. ASSUME NEW m \in Req, NEW t \in H!Time, H!Commit(m, t) PROVE HistoryInvariant'
  BY <1>1, CommitKeeps
<1>2. ASSUME NEW r \in Reader, H!GetMessages(r) \/ H!ScrollBack(r) PROVE HistoryInvariant'
  BY <1>2, QuietStepsKeep, FindMessagesKeeps DEF H!GetMessages
<1>3. ASSUME NEW r \in Reader, NEW n \in PageLimit, NEW c \in {{}} \cup {{m} : m \in Req},
             H!Open(r, n, c)
      PROVE  HistoryInvariant'
  BY <1>3, QuietStepsKeep
<1>4. CASE UNCHANGED historyVars
  <2>1. /\ hAt' = hAt /\ hStage' = hStage /\ limit' = limit /\ cursor' = cursor
        /\ before' = before /\ pages' = pages /\ began' = began /\ from' = from
    BY <1>4 DEF historyVars
  <2>2. HistoryTyped' /\ IsFiniteSet(H!Committed)'
    BY <2>1 DEF HistoryInvariant, HistoryTyped, H!TypeOK, H!Committed
  <2>3. ASSUME NEW r \in Reader PROVE HistoryInvariant'
    <3>1. H!Wanted(r)' = H!Wanted(r) /\ LastPage(r)' = LastPage(r)
      BY <2>1 DEF H!Wanted, LastPage
    <3>2. H!Oldest(LastPage(r))' = H!Oldest(LastPage(r))
      BY <2>1, <3>1 DEF H!Oldest
    <3>3. ASSUME NEW m PROVE Seen(r, m)' <=> Seen(r, m)
      BY <2>1 DEF Seen, H!Shown, H!Range, H!TiedWithACursor, H!Oldest
    <3>4. RestIsBelow(r)' <=> RestIsBelow(r)
      BY <2>1, <3>1, <3>2, <3>3 DEF RestIsBelow
    <3>5. PagesDescend(r)' <=> PagesDescend(r)
      BY <2>1 DEF PagesDescend
    <3>6. ScrollsRightly(r)'
      BY <2>1, <3>1, <3>2, <3>3, <3>4, <3>5 DEF HistoryInvariant, ScrollsRightly
    <3>7. QED
      BY <2>1, <2>2, <3>6, ReadersAreAlone
  <2>4. QED
    BY <2>2, <2>3 DEF HistoryInvariant
<1>5. QED
  BY <1>1, <1>2, <1>3, <1>4 DEF H!Next

LEMMA HistoryStart == H!Init => HistoryInvariant
<1> SUFFICES ASSUME H!Init PROVE HistoryInvariant
  OBVIOUS
<1>1. /\ hAt = [m \in Req |-> 0] /\ hStage = [r \in Reader |-> "idle"]
      /\ limit = [r \in Reader |-> 0] /\ cursor = [r \in Reader |-> {}]
      /\ before = [r \in Reader |-> 0] /\ pages = [r \in Reader |-> << >>]
      /\ began = [r \in Reader |-> {}] /\ from = [r \in Reader |-> 0]
  BY DEF H!Init
<1>2. 0 \in 0..MaxCreatedAt /\ MaxCreatedAt \in Nat
  BY HistoryParameters
<1>3. HistoryTyped
  <2>1. /\ hAt \in [Req -> 0..MaxCreatedAt]
        /\ before \in [Reader -> 0..MaxCreatedAt] /\ from \in [Reader -> 0..MaxCreatedAt]
    BY <1>1, <1>2
  <2>2. \A r \in Reader : cursor[r] = {} /\ began[r] = {} /\ pages[r] = << >>
    BY <1>1
  <2>3. DOMAIN << >> = {}
    OBVIOUS
  <2>4. \A r \in Reader :
          /\ cursor[r] \subseteq Req /\ H!Cardinality(cursor[r]) <= 1
          /\ began[r] \subseteq H!Committed
          /\ \A i \in DOMAIN pages[r] : pages[r][i] \subseteq H!Committed
    BY <2>2, <2>3, SmallSets
  <2>5. H!TypeOK
    BY <1>1, <2>1, <2>4 DEF H!TypeOK
  <2>6. QED
    BY <1>1, <2>2, <2>5 DEF HistoryTyped
<1>4. H!Committed = {}
  BY <1>1 DEF H!Committed
<1>5. ASSUME NEW r \in Reader PROVE ScrollsRightly(r)
  BY <1>1 DEF ScrollsRightly, PagesDescend, Going
<1>6. QED
  BY <1>3, <1>4, <1>5, FS_EmptySet DEF HistoryInvariant

(* While a reader scrolls, what it has not been shown of what it wants lies  *)
(* below its last page, whatever is committed in between, and wherever       *)
(* (chats.repository.ts:155).                                                *)
THEOREM HistoryInvariance == ServicesSpec => []HistoryInvariant
<1>1. ServicesInit => HistoryInvariant
  BY HistoryStart DEF ServicesInit
<1>2. HistoryInvariant /\ [ServicesNext]_allVars => HistoryInvariant'
  <2>1. [ServicesNext]_allVars => [H!Next]_historyVars
    BY DEF ServicesNext, allVars, RestPart, HistoryPart, ChatsPart, AccountsPart, RatePart,
      LocalPart, FeedPart
  <2>2. QED
    BY <2>1, HistoryKept
<1>3. QED
  BY <1>1, <1>2, PTL DEF ServicesSpec

(* Scrolling back shows everything once and in order, but ties.              *)
THEOREM ScrollIsAlwaysExact == ServicesSpec => []ScrollIsExact
<1>1. HistoryInvariant => ScrollIsExact
  BY ScrollFromInvariant
<1>2. QED
  BY <1>1, HistoryInvariance, PTL

-----------------------------------------------------------------------------
(* LocalRateLimit                                                             *)

(* The checks of a key that were let pass in the window which ends at u.     *)
GrantsOf(k, u) == {i \in DOMAIN granted[k] : granted[k][i].until = u}
AtMostLimit(n) == IF n < SocketLimit THEN n ELSE SocketLimit

(* Windows of a key that granted anything follow each other, or are one.     *)
FitsBefore(k, u) ==
  \A i \in DOMAIN granted[k] : granted[k][i].until = u \/ granted[k][i].until + Length <= u

GrantsFit(k) ==
  /\ \A i \in DOMAIN granted[k] :
       /\ granted[k][i].at < granted[k][i].until
       /\ granted[k][i].until <= granted[k][i].at + Length
       /\ granted[k][i].at <= lClock
       /\ granted[k][i].until <= lClock \/ granted[k][i].until = windows[k].until
  /\ \A i, j \in DOMAIN granted[k] :
       granted[k][i].until < granted[k][j].until =>
         granted[k][i].until + Length <= granted[k][j].until
  /\ \A u \in Nat : Cardinality(GrantsOf(k, u)) <= SocketLimit

(* A window that goes on has granted what it has counted, up to the limit.   *)
WindowFits(k) ==
  windows[k].until > lClock =>
    /\ windows[k].until <= lClock + Length /\ Length <= windows[k].until
    /\ FitsBefore(k, windows[k].until)
    /\ Cardinality(GrantsOf(k, windows[k].until)) = AtMostLimit(windows[k].count)

RefusedRightly(k) ==
  \A t \in denied[k] :
    \E u \in 0..t : t < u + Length /\ Cardinality(GrantsOf(k, u + Length)) >= SocketLimit

SweepWorks ==
  /\ IsFiniteSet(L!Entries(windows))
  /\ L!Cardinality(L!Entries(windows)) > MaxEntries =>
       \A k \in L!Entries(windows) : windows[k].until > checked

LocalInvariant ==
  /\ L!LocalTypeOK
  /\ \A k \in Key : GrantsFit(k) /\ WindowFits(k) /\ RefusedRightly(k)
  /\ SweepWorks

LEMMA LocalParameters ==
  /\ SocketLimit \in Nat /\ MaxChecks \in Nat /\ MaxTime \in Nat
  /\ Length \in Nat \ {0} /\ MaxEntries \in Nat \ {0} /\ Every \in Nat \ {0}
  BY ServicesAssumption DEF L!LocalRateLimitAssumption

LEMMA GrantsAreFinite ==
  ASSUME L!LocalTypeOK, NEW k \in Key
  PROVE  /\ IsFiniteSet(DOMAIN granted[k])
         /\ \A u : IsFiniteSet(GrantsOf(k, u)) /\ Cardinality(GrantsOf(k, u)) \in Nat
<1>1. DOMAIN granted[k] = 1..Len(granted[k]) /\ Len(granted[k]) \in Nat
  BY DEF L!LocalTypeOK
<1>2. IsFiniteSet(DOMAIN granted[k])
  BY <1>1, FS_Interval
<1>3. ASSUME NEW u PROVE IsFiniteSet(GrantsOf(k, u)) /\ Cardinality(GrantsOf(k, u)) \in Nat
  <2>1. GrantsOf(k, u) \subseteq DOMAIN granted[k]
    BY DEF GrantsOf
  <2>2. QED
    BY <1>2, <2>1, FS_Subset, FS_CardinalityType
<1>4. QED
  BY <1>2, <1>3

LEMMA GrantsAreTyped ==
  ASSUME L!LocalTypeOK, NEW k \in Key, NEW i \in DOMAIN granted[k]
  PROVE  granted[k][i].at \in 0..MaxTime /\ granted[k][i].at \in Nat /\ granted[k][i].until \in Nat
<1> DEFINE T == [at : 0..MaxTime, until : Nat]
<1>1. granted[k] \in Seq(T)
  BY DEF L!LocalTypeOK
<1> HIDE DEF T
<1>2. granted[k][i] \in T
  BY <1>1
<1>3. granted[k][i].at \in 0..MaxTime /\ granted[k][i].until \in Nat
  BY <1>2 DEF T
<1>4. QED
  BY <1>3, LocalParameters

LEMMA TwoApart ==
  ASSUME NEW t \in Nat, NEW l \in Nat, NEW a \in Nat, NEW b \in Nat, NEW h \in Nat,
         a < b, t < a, b < t + l + l, t < h, h < t + l + l,
         a + l <= b, h < a => h + l <= a, a < h => a + l <= h,
         h < b => h + l <= b, b < h => b + l <= h
  PROVE  h = a \/ h = b
  OBVIOUS

(* Of three windows of a key two are further apart than any stretch is long. *)
LEMMA GrantsAreBounded ==
  ASSUME LocalInvariant, NEW k \in Key, NEW t \in Nat
  PROVE  L!GrantedFrom(k, t) <= 2 * SocketLimit
<1> DEFINE X == {i \in DOMAIN granted[k] : t <= granted[k][i].at /\ granted[k][i].at < t + Length}
           U(i) == granted[k][i].until
<1>1. /\ granted[k] \in Seq([at : 0..MaxTime, until : Nat]) /\ Length \in Nat \ {0} /\ SocketLimit \in Nat
      /\ \A u : IsFiniteSet(GrantsOf(k, u)) /\ Cardinality(GrantsOf(k, u)) \in Nat
      /\ \A u \in Nat : Cardinality(GrantsOf(k, u)) <= SocketLimit
      /\ GrantsFit(k)
  BY GrantsAreFinite, LocalParameters DEF LocalInvariant, L!LocalTypeOK, GrantsFit
<1>2. \A i \in DOMAIN granted[k] : granted[k][i].at \in Nat /\ granted[k][i].until \in Nat
  BY GrantsAreTyped DEF LocalInvariant
<1>3. \A i \in X : U(i) \in Nat /\ t < U(i) /\ U(i) < t + Length + Length
  <2> SUFFICES ASSUME NEW i \in X
      PROVE  U(i) \in Nat /\ t < U(i) /\ U(i) < t + Length + Length
    OBVIOUS
  <2>1. /\ t <= granted[k][i].at /\ granted[k][i].at < t + Length
        /\ granted[k][i].at < U(i) /\ U(i) <= granted[k][i].at + Length
        /\ granted[k][i].at \in Nat /\ U(i) \in Nat
    BY <1>1, <1>2 DEF GrantsFit
  <2>2. \A a, u, l \in Nat :
          t <= a /\ a < t + l /\ a < u /\ u <= a + l => t < u /\ u < t + l + l
    OBVIOUS
  <2>3. QED
    BY <1>1, <2>1, <2>2
<1>4. \A i, j \in X : U(i) < U(j) => U(i) + Length <= U(j)
  BY <1>1 DEF GrantsFit
<1>5. \A i \in X : i \in GrantsOf(k, U(i))
  BY DEF GrantsOf
<1> HIDE DEF U
<1>6. \E u \in Nat, v \in Nat : \A i \in X : U(i) = u \/ U(i) = v
  <2>1. CASE \A i, j \in X : U(i) = U(j)
    <3>1. CASE X = {}
      <4>1. 0 \in Nat
        OBVIOUS
      <4>2. QED
        BY <3>1, <4>1
    <3>2. CASE X # {}
      BY <1>3, <2>1, <3>2
    <3>3. QED
      BY <3>1, <3>2
  <2>2. CASE \E i, j \in X : U(i) # U(j)
    <3>1. PICK i \in X, j \in X : U(i) < U(j)
      BY <1>3, <2>2
    <3>2. ASSUME NEW h \in X PROVE U(h) = U(i) \/ U(h) = U(j)
      <4>1. U(i) + Length <= U(j)
        BY <1>4, <3>1
      <4>2. U(h) < U(i) => U(h) + Length <= U(i)
        BY <1>4
      <4>3. U(i) < U(h) => U(i) + Length <= U(h)
        BY <1>4
      <4>4. U(h) < U(j) => U(h) + Length <= U(j)
        BY <1>4
      <4>5. U(j) < U(h) => U(j) + Length <= U(h)
        BY <1>4
      <4>6. /\ U(h) \in Nat /\ t < U(h) /\ U(h) < t + Length + Length
            /\ U(i) \in Nat /\ t < U(i) /\ U(i) < t + Length + Length
            /\ U(j) \in Nat /\ t < U(j) /\ U(j) < t + Length + Length
        BY <1>3
      <4>7. QED
        BY <1>1, <3>1, <4>1, <4>2, <4>3, <4>4, <4>5, <4>6, TwoApart
    <3>3. QED
      BY <1>3, <3>2
  <2>3. QED
    BY <2>1, <2>2
<1>7. PICK u \in Nat, v \in Nat : \A i \in X : U(i) = u \/ U(i) = v
  BY <1>6
<1>8. X \subseteq GrantsOf(k, u) \cup GrantsOf(k, v)
  BY <1>5, <1>7
<1> DEFINE G == GrantsOf(k, u)
           K == GrantsOf(k, v)
<1>9. /\ IsFiniteSet(G) /\ IsFiniteSet(K)
      /\ Cardinality(G) \in Nat /\ Cardinality(K) \in Nat
      /\ Cardinality(G) <= SocketLimit /\ Cardinality(K) <= SocketLimit
  BY <1>1
<1> HIDE DEF G, K
<1>10. /\ IsFiniteSet(G \cup K) /\ IsFiniteSet(G \cap K)
       /\ Cardinality(G \cup K) = Cardinality(G) + Cardinality(K) - Cardinality(G \cap K)
  BY <1>9, FS_Union, FS_Intersection
<1>11. Cardinality(G \cap K) \in Nat /\ Cardinality(G \cup K) \in Nat
  BY <1>10, FS_CardinalityType
<1>12. Cardinality(X) <= Cardinality(G \cup K) /\ Cardinality(X) \in Nat
  <2>1. X \subseteq G \cup K
    BY <1>8 DEF G, K
  <2>2. QED
    BY <1>10, <2>1, FS_Subset, FS_CardinalityType
<1>13. Cardinality(X) <= 2 * SocketLimit
  BY <1>1, <1>9, <1>10, <1>11, <1>12
<1>14. L!GrantedFrom(k, t) = Cardinality(X)
  BY DEF L!GrantedFrom, L!Cardinality, Cardinality
<1>15. QED
  BY <1>13, <1>14

LEMMA LocalLimitFromInvariant == LocalInvariant => LocalLimitHolds
<1> SUFFICES ASSUME LocalInvariant PROVE LocalLimitHolds
  OBVIOUS
<1>1. ASSUME NEW k \in Key, NEW t \in 0..MaxTime PROVE L!GrantedFrom(k, t) <= 2 * SocketLimit
  BY GrantsAreBounded, LocalParameters
<1>2. ASSUME NEW k \in Key, NEW t \in denied[k]
      PROVE  \E u \in 0..t : t < u + Length /\ L!GrantedFrom(k, u) >= SocketLimit
  <2>1. PICK u \in 0..t : t < u + Length /\ Cardinality(GrantsOf(k, u + Length)) >= SocketLimit
    BY DEF LocalInvariant, RefusedRightly
  <2>2. t \in Nat /\ u \in Nat /\ Length \in Nat /\ SocketLimit \in Nat
    BY LocalParameters DEF LocalInvariant, L!LocalTypeOK
  <2> DEFINE X == {i \in DOMAIN granted[k] : u <= granted[k][i].at /\ granted[k][i].at < u + Length}
  <2>3. ASSUME NEW i \in GrantsOf(k, u + Length) PROVE i \in X
    <3>1. /\ i \in DOMAIN granted[k] /\ granted[k][i].until = u + Length
          /\ granted[k][i].at < u + Length /\ u + Length <= granted[k][i].at + Length
      BY DEF GrantsOf, LocalInvariant, GrantsFit
    <3>2. granted[k][i].at \in Nat
      BY <3>1, GrantsAreTyped DEF LocalInvariant
    <3>3. QED
      BY <2>2, <3>1, <3>2
  <2>4. /\ IsFiniteSet(X) /\ Cardinality(GrantsOf(k, u + Length)) <= Cardinality(X)
        /\ Cardinality(X) \in Nat /\ Cardinality(GrantsOf(k, u + Length)) \in Nat
    <3>1. IsFiniteSet(DOMAIN granted[k]) /\ X \subseteq DOMAIN granted[k]
      BY GrantsAreFinite DEF LocalInvariant
    <3>2. IsFiniteSet(X)
      BY <3>1, FS_Subset
    <3>3. QED
      BY <2>3, <3>2, FS_Subset, FS_CardinalityType
  <2>5. L!GrantedFrom(k, u) = Cardinality(X)
    BY DEF L!GrantedFrom, L!Cardinality, Cardinality
  <2>6. QED
    BY <2>1, <2>2, <2>4, <2>5
<1>3. QED
  BY <1>1, <1>2 DEF LocalLimitHolds, L!LocalLimitHolds, LocalInvariant, SweepWorks

(* The window a check of k is counted in.                                    *)
LEMMA CurrentFits ==
  ASSUME LocalInvariant, NEW k \in Key
  PROVE  LET u == L!Current(k).until
             c == L!Current(k).count
         IN  /\ u \in Nat /\ c \in Nat /\ lClock < u /\ u <= lClock + Length /\ Length <= u
             /\ windows[k].until > lClock => u = windows[k].until
             /\ FitsBefore(k, u)
             /\ Cardinality(GrantsOf(k, u)) = AtMostLimit(c)
<1>1. /\ lClock \in Nat /\ windows[k] \in [count : Nat, until : Nat]
      /\ Length \in Nat \ {0} /\ SocketLimit \in Nat
      /\ \A i \in DOMAIN granted[k] : granted[k][i].at \in Nat /\ granted[k][i].until \in Nat
  <2>1. L!LocalTypeOK
    BY DEF LocalInvariant
  <2>2. \A i \in DOMAIN granted[k] : granted[k][i].at \in Nat /\ granted[k][i].until \in Nat
    BY <2>1, GrantsAreTyped
  <2>3. lClock \in Nat /\ windows[k] \in [count : Nat, until : Nat]
    BY <2>1, LocalParameters DEF L!LocalTypeOK
  <2>4. QED
    BY <2>2, <2>3, LocalParameters
<1>2. CASE windows[k].until > lClock
  <2>1. L!Current(k) = windows[k]
    BY <1>2 DEF L!Current
  <2>2. WindowFits(k)
    BY DEF LocalInvariant
  <2>3. QED
    BY <1>1, <1>2, <2>1, <2>2 DEF WindowFits
<1>3. CASE ~(windows[k].until > lClock)
  <2> DEFINE u == lClock + Length
  <2>1. L!Current(k) = [count |-> 0, until |-> u]
    BY <1>3 DEF L!Current
  <2>2. u \in Nat /\ lClock < u /\ Length <= u
    BY <1>1
  <2>3. \A i \in DOMAIN granted[k] : granted[k][i].until <= lClock
    BY <1>1, <1>3 DEF LocalInvariant, GrantsFit
  <2>4. FitsBefore(k, u)
    BY <1>1, <2>3 DEF FitsBefore
  <2> HIDE DEF u
  <2>5. GrantsOf(k, u) = {}
    BY <1>1, <2>2, <2>3 DEF GrantsOf
  <2>6. Cardinality(GrantsOf(k, u)) = AtMostLimit(0)
    BY <1>1, <2>5, FS_EmptySet DEF AtMostLimit
  <2>7. u <= lClock + Length
    BY <1>1, <2>2 DEF u
  <2>8. QED
    BY <1>3, <2>1, <2>2, <2>4, <2>6, <2>7
<1>4. QED
  BY <1>2, <1>3

(* What a check and its sweep make of the map: only windows that are over    *)
(* are swept.                                                                 *)
LEMMA Swept ==
  ASSUME LocalInvariant, NEW k \in Key, L!Check(k)
  PROVE  /\ windows' \in [Key -> [count : Nat, until : Nat]]
         /\ windows'[k] = [count |-> L!Current(k).count + 1, until |-> L!Current(k).until]
         /\ \A j \in Key : j # k =>
              windows'[j] = windows[j] \/ (windows'[j].until = 0 /\ windows[j].until <= lClock)
         /\ SweepWorks'
<1> DEFINE new == [count |-> L!Current(k).count + 1, until |-> L!Current(k).until]
           W == [windows EXCEPT ![k] = new]
           kept == [j \in Key |-> IF W[j].until <= lClock THEN L!NoWindow ELSE W[j]]
<1>1. /\ windows \in [Key -> [count : Nat, until : Nat]] /\ lClock \in Nat /\ checks \in Nat
      /\ L!Current(k).count \in Nat /\ L!Current(k).until \in Nat /\ lClock < L!Current(k).until
      /\ MaxEntries \in Nat /\ IsFiniteSet(L!Entries(windows))
  <2>1. /\ L!Current(k).count \in Nat /\ L!Current(k).until \in Nat /\ lClock < L!Current(k).until
    BY CurrentFits
  <2>2. L!LocalTypeOK /\ IsFiniteSet(L!Entries(windows))
    BY DEF LocalInvariant, SweepWorks
  <2>3. windows \in [Key -> [count : Nat, until : Nat]] /\ lClock \in Nat /\ checks \in Nat
    BY <2>2, LocalParameters DEF L!LocalTypeOK
  <2>4. QED
    BY <2>1, <2>2, <2>3, LocalParameters
<1>2. new \in [count : Nat, until : Nat] /\ new.until > lClock
  BY <1>1
<1>3. windows' = L!Sweep(W, checks + 1) /\ checked' = lClock
  <2>1. L!Current(k) \in [count : Nat, until : Nat]
    BY <1>1 DEF L!Current
  <2>2. [L!Current(k) EXCEPT !.count = L!Current(k).count + 1] = new
    BY <2>1
  <2>3. QED
    BY <2>2 DEF L!Check
<1> HIDE DEF new
<1>4. /\ W \in [Key -> [count : Nat, until : Nat]] /\ W[k] = new
      /\ \A j \in Key : j # k => W[j] = windows[j]
  BY <1>1, <1>2
<1> HIDE DEF W
<1>5. L!NoWindow \in [count : Nat, until : Nat] /\ L!NoWindow.until = 0
  BY DEF L!NoWindow
<1>6. kept \in [Key -> [count : Nat, until : Nat]]
  BY <1>4, <1>5
<1>7. IsFiniteSet(L!Entries(W)) /\ L!Entries(kept) \subseteq L!Entries(W)
  <2>1. L!Entries(W) \subseteq L!Entries(windows) \cup {k}
    BY <1>4 DEF L!Entries
  <2>2. IsFiniteSet(L!Entries(windows) \cup {k})
    BY <1>1, FS_AddElement
  <2>3. L!Entries(kept) \subseteq L!Entries(W)
    BY DEF L!Entries
  <2>4. QED
    BY <2>1, <2>2, <2>3, FS_Subset
<1>8. \A S : L!Cardinality(S) = Cardinality(S)
  BY DEF L!Cardinality, Cardinality
<1>9. CASE windows' = W /\ L!Cardinality(L!Entries(W)) <= MaxEntries
  <2>1. Cardinality(L!Entries(W)) \in Nat
    BY <1>7, FS_CardinalityType
  <2>2. ~(L!Cardinality(L!Entries(W)) > MaxEntries)
    BY <1>1, <1>8, <1>9, <2>1
  <2>3. SweepWorks'
    BY <1>7, <1>9, <2>2 DEF SweepWorks, L!Entries
  <2>4. QED
    BY <1>4, <1>9, <2>3 DEF new
<1>10. CASE windows' = kept
  <2>1. \A j \in Key : kept[j] # L!NoWindow => kept[j].until > lClock
    BY <1>1, <1>4
  <2>2. SweepWorks'
    <3>1. IsFiniteSet(L!Entries(kept))
      BY <1>7, FS_Subset
    <3>2. QED
      BY <1>3, <1>10, <2>1, <3>1 DEF SweepWorks, L!Entries
  <2>3. windows'[k] = new
    BY <1>1, <1>2, <1>4, <1>10
  <2>4. \A j \in Key : j # k =>
          windows'[j] = windows[j] \/ (windows'[j].until = 0 /\ windows[j].until <= lClock)
    BY <1>4, <1>5, <1>10
  <2>5. QED
    BY <1>6, <1>10, <2>2, <2>3, <2>4 DEF new
<1>11. QED
  BY <1>3, <1>9, <1>10 DEF L!Sweep

LEMMA CheckKeeps == ASSUME LocalInvariant, NEW k \in Key, L!Check(k) PROVE LocalInvariant'
<1> DEFINE u == L!Current(k).until
           c == L!Current(k).count
           n == Len(granted[k])
           new == [at |-> lClock, until |-> u]
           Grant == [at : 0..MaxTime, until : Nat]
<1>1. /\ u \in Nat /\ c \in Nat /\ lClock < u /\ u <= lClock + Length /\ Length <= u
      /\ windows[k].until > lClock => u = windows[k].until
      /\ FitsBefore(k, u)
      /\ Cardinality(GrantsOf(k, u)) = AtMostLimit(c)
  BY CurrentFits
<1>2. /\ windows' \in [Key -> [count : Nat, until : Nat]]
      /\ windows'[k] = [count |-> c + 1, until |-> u]
      /\ \A j \in Key : j # k =>
           windows'[j] = windows[j] \/ (windows'[j].until = 0 /\ windows[j].until <= lClock)
      /\ SweepWorks'
  BY Swept
<1>3. /\ L!LocalTypeOK /\ Length \in Nat \ {0} /\ SocketLimit \in Nat /\ lClock \in Nat
      /\ lClock \in 0..MaxTime /\ checks \in 0..MaxChecks
      /\ granted \in [Key -> Seq(Grant)] /\ denied \in [Key -> SUBSET (0..MaxTime)]
      /\ \A j \in Key : windows[j] \in [count : Nat, until : Nat]
  <2>1. L!LocalTypeOK
    BY DEF LocalInvariant
  <2>2. /\ granted \in [Key -> Seq(Grant)] /\ denied \in [Key -> SUBSET (0..MaxTime)]
        /\ \A j \in Key : windows[j] \in [count : Nat, until : Nat]
        /\ lClock \in 0..MaxTime /\ checks \in 0..MaxChecks
    BY <2>1 DEF L!LocalTypeOK
  <2> HIDE DEF Grant
  <2>3. lClock \in Nat
    BY <2>2, LocalParameters
  <2>4. QED
    BY <2>1, <2>2, <2>3, LocalParameters
<1>4. /\ checks < MaxChecks /\ checks' = checks + 1 /\ checked' = lClock /\ lClock' = lClock
      /\ \/ /\ c + 1 <= SocketLimit /\ denied' = denied
            /\ granted' = [granted EXCEPT ![k] = Append(granted[k], new)]
         \/ /\ ~(c + 1 <= SocketLimit) /\ granted' = granted
            /\ denied' = [denied EXCEPT ![k] = denied[k] \cup {lClock}]
  <2>1. L!Current(k) \in [count : Nat, until : Nat]
    BY <1>1, <1>3 DEF L!Current
  <2>2. /\ [L!Current(k) EXCEPT !.count = L!Current(k).count + 1].count = c + 1
        /\ [L!Current(k) EXCEPT !.count = L!Current(k).count + 1].until = u
    BY <2>1
  <2>3. QED
    BY <2>2 DEF L!Check
<1>5. new \in Grant
  BY <1>1, <1>3
<1>6. \A i \in DOMAIN granted[k] : granted[k][i].at \in Nat /\ granted[k][i].until \in Nat
  BY <1>3, GrantsAreTyped
<1>7. GrantsFit(k) /\ RefusedRightly(k)
  BY DEF LocalInvariant
<1> HIDE DEF u, c, new, Grant
<1>8. L!LocalTypeOK'
  <2>1. checks' \in 0..MaxChecks /\ checked' \in 0..lClock'
    BY <1>3, <1>4, LocalParameters
  <2>2. granted' \in [Key -> Seq(Grant)]
    <3>1. Append(granted[k], new) \in Seq(Grant)
      BY <1>3, <1>5
    <3>2. QED
      BY <1>3, <1>4, <3>1
  <2>3. denied' \in [Key -> SUBSET (0..MaxTime)]
    BY <1>3, <1>4
  <2>4. QED
    BY <1>2, <1>3, <1>4, <2>1, <2>2, <2>3 DEF L!LocalTypeOK, Grant
(* The other keys.                                                           *)
<1>9. ASSUME NEW j \in Key, j # k PROVE GrantsFit(j)' /\ WindowFits(j)' /\ RefusedRightly(j)'
  <2>1. granted'[j] = granted[j] /\ denied'[j] = denied[j] /\ lClock' = lClock
    BY <1>3, <1>4, <1>9
  <2>2. ASSUME NEW v PROVE GrantsOf(j, v)' = GrantsOf(j, v)
    BY <2>1 DEF GrantsOf
  <2>3. GrantsFit(j) /\ WindowFits(j) /\ RefusedRightly(j)
    BY DEF LocalInvariant
  <2>4. CASE windows'[j] = windows[j]
    <3>1. FitsBefore(j, windows[j].until)' <=> FitsBefore(j, windows[j].until)
      BY <2>1, <2>4 DEF FitsBefore
    <3>2. GrantsOf(j, windows[j].until)' = GrantsOf(j, windows[j].until)
      BY <2>1, <2>4 DEF GrantsOf
    <3>3. WindowFits(j)'
      BY <2>1, <2>3, <2>4, <3>1, <3>2 DEF WindowFits, AtMostLimit
    <3>4. GrantsFit(j)'
      BY <2>1, <2>2, <2>3, <2>4 DEF GrantsFit
    <3>5. RefusedRightly(j)'
      BY <2>1, <2>2, <2>3 DEF RefusedRightly
    <3>6. QED
      BY <3>3, <3>4, <3>5
  <2>5. CASE windows'[j].until = 0 /\ windows[j].until <= lClock
    <3>1. WindowFits(j)'
      BY <1>3, <2>1, <2>5 DEF WindowFits
    <3>2. GrantsFit(j)'
      BY <1>3, <2>1, <2>2, <2>3, <2>5 DEF GrantsFit
    <3>3. RefusedRightly(j)'
      BY <2>1, <2>2, <2>3 DEF RefusedRightly
    <3>4. QED
      BY <3>1, <3>2, <3>3
  <2>6. QED
    BY <1>2, <1>9, <2>4, <2>5
(* No earlier grant of the key belongs to a later window.                    *)
<1>10. ASSUME NEW i \in DOMAIN granted[k]
       PROVE  /\ granted[k][i].at < granted[k][i].until
              /\ granted[k][i].until <= granted[k][i].at + Length
              /\ granted[k][i].at <= lClock
              /\ granted[k][i].until <= lClock \/ granted[k][i].until = u
              /\ granted[k][i].until = u \/ granted[k][i].until + Length <= u
  <2>1. granted[k][i].until <= lClock \/ granted[k][i].until = windows[k].until
    BY <1>7 DEF GrantsFit
  <2>2. granted[k][i].until <= lClock \/ granted[k][i].until = u
    BY <1>1, <1>3, <1>6, <2>1
  <2>3. QED
    BY <1>1, <1>7, <2>2 DEF GrantsFit, FitsBefore
<1>11. CASE c + 1 <= SocketLimit
  <2>1. granted' = [granted EXCEPT ![k] = Append(granted[k], new)] /\ denied' = denied
    BY <1>4, <1>11
  <2>2. /\ n \in Nat /\ DOMAIN granted[k] = 1..n
        /\ granted'[k] = Append(granted[k], new) /\ DOMAIN granted'[k] = 1..(n + 1)
        /\ granted'[k][n + 1] = new /\ \A i \in 1..n : granted'[k][i] = granted[k][i]
    <3>1. granted[k] \in Seq(Grant) /\ granted'[k] = Append(granted[k], new)
      BY <1>3, <2>1
    <3>2. QED
      BY <1>5, <3>1
  <2> HIDE DEF n
  <2>3. new.at = lClock /\ new.until = u /\ denied'[k] = denied[k]
    BY <2>1 DEF new
  <2>4. \A i \in 1..(n + 1) : i \in 1..n \/ i = n + 1
    BY <2>2
  <2>5. ASSUME NEW v \in Nat, v # u PROVE GrantsOf(k, v)' = GrantsOf(k, v)
    BY <2>2, <2>3, <2>4, <2>5 DEF GrantsOf
  <2>6. GrantsOf(k, u) \cup {n + 1} = {i \in DOMAIN granted'[k] : granted'[k][i].until = u}
    BY <2>2, <2>3, <2>4 DEF GrantsOf
  <2>7. n + 1 \notin GrantsOf(k, u)
    BY <2>2 DEF GrantsOf
  <2>8. /\ IsFiniteSet(GrantsOf(k, u)) /\ Cardinality(GrantsOf(k, u)) \in Nat
    BY <1>3, GrantsAreFinite
  <2>9. Cardinality(GrantsOf(k, u) \cup {n + 1}) = c + 1
    <3>1. Cardinality(GrantsOf(k, u)) = c
      BY <1>1, <1>3, <1>11 DEF AtMostLimit
    <3>2. QED
      BY <2>7, <2>8, <3>1, FS_AddElement
  <2>10. ASSUME NEW v \in Nat, v = u PROVE Cardinality(GrantsOf(k, v)') = c + 1
    BY <2>6, <2>9, <2>10 DEF GrantsOf
  <2>11. ASSUME NEW v \in Nat PROVE Cardinality(GrantsOf(k, v)') <= SocketLimit
    BY <1>7, <1>11, <2>5, <2>10 DEF GrantsFit
  <2>12. ASSUME NEW v \in Nat PROVE Cardinality(GrantsOf(k, v)') >= Cardinality(GrantsOf(k, v))
    <3>1. CASE v = u
      <4>1. Cardinality(GrantsOf(k, u)) = c
        BY <1>1, <1>3, <1>11 DEF AtMostLimit
      <4>2. QED
        BY <1>1, <2>10, <3>1, <4>1
    <3>2. CASE v # u
      <4>1. Cardinality(GrantsOf(k, v)) \in Nat
        BY <1>3, GrantsAreFinite
      <4>2. QED
        BY <2>5, <3>2, <4>1
    <3>3. QED
      BY <3>1, <3>2
  <2>13. GrantsFit(k)'
    <3>1. windows'[k].until = u
      BY <1>2
    <3>2. ASSUME NEW i \in 1..(n + 1)
          PROVE  /\ granted'[k][i].at < granted'[k][i].until
                 /\ granted'[k][i].until <= granted'[k][i].at + Length
                 /\ granted'[k][i].at <= lClock
                 /\ granted'[k][i].until <= lClock \/ granted'[k][i].until = u
                 /\ granted'[k][i].until = u \/ granted'[k][i].until + Length <= u
                 /\ granted'[k][i].until \in Nat
      <4>1. CASE i \in 1..n
        BY <1>6, <1>10, <2>2, <4>1
      <4>2. CASE i = n + 1
        BY <1>1, <1>3, <2>2, <2>3, <4>2
      <4>3. QED
        BY <2>4, <4>1, <4>2
    <3>3. ASSUME NEW i \in 1..(n + 1), NEW j \in 1..(n + 1),
                 granted'[k][i].until < granted'[k][j].until
          PROVE  granted'[k][i].until + Length <= granted'[k][j].until
      <4>1. CASE i \in 1..n /\ j \in 1..n
        BY <1>7, <2>2, <3>3, <4>1 DEF GrantsFit
      <4>2. CASE granted'[k][j].until = u
        <5>1. granted'[k][i].until # u
          BY <3>2, <3>3, <4>2
        <5>2. QED
          BY <3>2, <4>2, <5>1
      <4>3. CASE granted'[k][i].until = u
        <5>1. granted'[k][j].until = u \/ granted'[k][j].until + Length <= u
          BY <3>2
        <5>2. QED
          BY <1>1, <1>3, <3>2, <3>3, <4>3, <5>1
      <4>4. QED
        BY <2>2, <2>3, <2>4, <4>1, <4>2, <4>3
    <3>4. QED
      BY <1>4, <2>2, <2>11, <3>1, <3>2, <3>3 DEF GrantsFit
  <2>14. WindowFits(k)'
    <3>1. windows'[k].until = u /\ windows'[k].count = c + 1
      BY <1>2
    <3>2. FitsBefore(k, windows[k].until)'
      <4>1. ASSUME NEW i \in 1..(n + 1)
            PROVE  granted'[k][i].until = u \/ granted'[k][i].until + Length <= u
        BY <1>10, <2>2, <2>3, <2>4
      <4>2. QED
        BY <2>2, <3>1, <4>1 DEF FitsBefore
    <3>3. Cardinality(GrantsOf(k, windows[k].until)') = c + 1
      BY <2>6, <2>9, <3>1 DEF GrantsOf
    <3>4. AtMostLimit(c + 1) = c + 1
      BY <1>1, <1>3, <1>11 DEF AtMostLimit
    <3>5. QED
      BY <1>1, <1>4, <3>1, <3>2, <3>3, <3>4 DEF WindowFits, AtMostLimit
  <2>15. RefusedRightly(k)'
    <3>1. ASSUME NEW t \in denied[k]
          PROVE  \E v \in 0..t : t < v + Length /\ Cardinality(GrantsOf(k, v + Length)') >= SocketLimit
      <4>1. PICK v \in 0..t : t < v + Length /\ Cardinality(GrantsOf(k, v + Length)) >= SocketLimit
        BY <1>7 DEF RefusedRightly
      <4>2. v + Length \in Nat
        BY <1>3
      <4>3. /\ Cardinality(GrantsOf(k, v + Length)') >= Cardinality(GrantsOf(k, v + Length))
            /\ Cardinality(GrantsOf(k, v + Length)') <= SocketLimit
        BY <2>11, <2>12, <4>2
      <4>4. Cardinality(GrantsOf(k, v + Length)) \in Nat
        BY <1>3, GrantsAreFinite
      <4>5. Cardinality(GrantsOf(k, v + Length)') \in Nat
        BY <1>8, GrantsAreFinite, <4>2, <4>3, <4>4, <2>5, <2>10, <1>1
      <4>6. \A a, b \in Nat : a >= b /\ b >= SocketLimit => a >= SocketLimit
        BY <1>3
      <4>7. Cardinality(GrantsOf(k, v + Length)') >= SocketLimit
        BY <4>1, <4>3, <4>4, <4>5, <4>6
      <4>8. QED
        BY <4>1, <4>7
    <3>2. QED
      BY <2>3, <3>1 DEF RefusedRightly
  <2>16. QED
    BY <1>2, <1>8, <1>9, <2>13, <2>14, <2>15 DEF LocalInvariant
<1>12. CASE ~(c + 1 <= SocketLimit)
  <2>1. granted' = granted /\ denied'[k] = denied[k] \cup {lClock}
    BY <1>3, <1>4, <1>12
  <2>2. ASSUME NEW v PROVE GrantsOf(k, v)' = GrantsOf(k, v)
    BY <2>1 DEF GrantsOf
  <2>3. windows'[k].until = u /\ windows'[k].count = c + 1
    BY <1>2
  <2>4. Cardinality(GrantsOf(k, u)) = SocketLimit
    BY <1>1, <1>3, <1>12 DEF AtMostLimit
  <2>5. GrantsFit(k)'
    BY <1>4, <1>7, <1>10, <2>1, <2>2, <2>3 DEF GrantsFit
  <2>6. WindowFits(k)'
    <3>1. FitsBefore(k, windows[k].until)'
      BY <1>10, <2>1, <2>3 DEF FitsBefore
    <3>2. Cardinality(GrantsOf(k, windows[k].until)') = SocketLimit
      BY <2>1, <2>3, <2>4 DEF GrantsOf
    <3>3. AtMostLimit(c + 1) = SocketLimit
      BY <1>1, <1>3, <1>12 DEF AtMostLimit
    <3>4. QED
      BY <1>1, <1>4, <2>3, <3>1, <3>2, <3>3 DEF WindowFits, AtMostLimit
  <2>7. RefusedRightly(k)'
    <3>1. u - Length \in 0..lClock /\ lClock < (u - Length) + Length /\ (u - Length) + Length = u
      BY <1>1, <1>3
    <3>2. Cardinality(GrantsOf(k, (u - Length) + Length)) >= SocketLimit
      BY <1>3, <2>4, <3>1
    <3>3. ASSUME NEW t \in denied'[k]
          PROVE  \E v \in 0..t : t < v + Length /\ Cardinality(GrantsOf(k, v + Length)) >= SocketLimit
      <4>1. CASE t = lClock
        BY <3>1, <3>2, <4>1
      <4>2. CASE t \in denied[k]
        BY <1>7, <4>2 DEF RefusedRightly
      <4>3. QED
        BY <2>1, <4>1, <4>2
    <3>4. QED
      BY <2>2, <3>3 DEF RefusedRightly
  <2>8. QED
    BY <1>2, <1>8, <1>9, <2>5, <2>6, <2>7 DEF LocalInvariant
<1>13. QED
  BY <1>11, <1>12

LEMMA TickKeeps == ASSUME LocalInvariant, L!Tick PROVE LocalInvariant'
<1>1. /\ lClock < MaxTime /\ lClock' = lClock + 1 /\ windows' = windows /\ checks' = checks
      /\ granted' = granted /\ denied' = denied /\ checked' = checked
  BY DEF L!Tick
<1>2. L!LocalTypeOK /\ Length \in Nat /\ lClock \in Nat
  <2>1. L!LocalTypeOK
    BY DEF LocalInvariant
  <2>2. lClock \in 0..MaxTime
    BY <2>1 DEF L!LocalTypeOK
  <2>3. QED
    BY <2>1, <2>2, LocalParameters
<1>3. L!LocalTypeOK'
  <2>1. lClock' \in 0..MaxTime /\ checked' \in 0..lClock'
    BY <1>1, <1>2, LocalParameters DEF L!LocalTypeOK
  <2>2. QED
    BY <1>1, <1>2, <2>1 DEF L!LocalTypeOK
<1>4. ASSUME NEW k \in Key PROVE GrantsFit(k)' /\ WindowFits(k)' /\ RefusedRightly(k)'
  <2>1. GrantsFit(k) /\ WindowFits(k) /\ RefusedRightly(k) /\ windows[k].until \in Nat
    BY <1>2 DEF LocalInvariant, L!LocalTypeOK
  <2>2. \A i \in DOMAIN granted[k] : granted[k][i].at \in Nat /\ granted[k][i].until \in Nat
    BY <1>2, GrantsAreTyped
  <2>3. ASSUME NEW v PROVE GrantsOf(k, v)' = GrantsOf(k, v)
    BY <1>1 DEF GrantsOf
  <2>4. GrantsFit(k)'
    BY <1>1, <1>2, <2>1, <2>2, <2>3 DEF GrantsFit
  <2>5. WindowFits(k)'
    <3>1. FitsBefore(k, windows[k].until)' <=> FitsBefore(k, windows[k].until)
      BY <1>1 DEF FitsBefore
    <3>2. GrantsOf(k, windows[k].until)' = GrantsOf(k, windows[k].until)
      BY <1>1 DEF GrantsOf
    <3>3. windows'[k].until > lClock' => windows[k].until > lClock
      BY <1>1, <1>2, <2>1
    <3>4. windows[k].until <= lClock + Length => windows[k].until <= lClock' + Length
      BY <1>1, <1>2, <2>1
    <3>5. QED
      BY <1>1, <2>1, <3>1, <3>2, <3>3, <3>4 DEF WindowFits, AtMostLimit
  <2>6. RefusedRightly(k)'
    BY <1>1, <2>1, <2>3 DEF RefusedRightly
  <2>7. QED
    BY <2>4, <2>5, <2>6
<1>5. SweepWorks'
  BY <1>1 DEF LocalInvariant, SweepWorks, L!Entries
<1>6. QED
  BY <1>3, <1>4, <1>5 DEF LocalInvariant

LEMMA LocalKept == LocalInvariant /\ [L!LocalNext]_localVars => LocalInvariant'
<1> SUFFICES ASSUME LocalInvariant, [L!LocalNext]_localVars PROVE LocalInvariant'
  OBVIOUS
<1>1. CASE L!LocalNext
  BY <1>1, TickKeeps, CheckKeeps DEF L!LocalNext
<1>2. CASE UNCHANGED localVars
  <2>1. /\ lClock' = lClock /\ windows' = windows /\ checks' = checks
        /\ granted' = granted /\ denied' = denied /\ checked' = checked
    BY <1>2 DEF localVars
  <2>2. L!LocalTypeOK' /\ SweepWorks'
    BY <2>1 DEF LocalInvariant, L!LocalTypeOK, SweepWorks, L!Entries
  <2>3. ASSUME NEW k \in Key PROVE GrantsFit(k)' /\ WindowFits(k)' /\ RefusedRightly(k)'
    <3>1. GrantsFit(k) /\ WindowFits(k) /\ RefusedRightly(k)
      BY DEF LocalInvariant
    <3>2. ASSUME NEW v PROVE GrantsOf(k, v)' = GrantsOf(k, v)
      BY <2>1 DEF GrantsOf
    <3>3. GrantsFit(k)' /\ RefusedRightly(k)'
      BY <2>1, <3>1, <3>2 DEF GrantsFit, RefusedRightly
    <3>4. FitsBefore(k, windows[k].until)' <=> FitsBefore(k, windows[k].until)
      BY <2>1 DEF FitsBefore
    <3>5. GrantsOf(k, windows[k].until)' = GrantsOf(k, windows[k].until)
      BY <2>1 DEF GrantsOf
    <3>6. WindowFits(k)'
      BY <2>1, <3>1, <3>4, <3>5 DEF WindowFits, AtMostLimit
    <3>7. QED
      BY <3>3, <3>6
  <2>4. QED
    BY <2>2, <2>3 DEF LocalInvariant
<1>3. QED
  BY <1>1, <1>2

LEMMA LocalStart == L!LocalInit => LocalInvariant
<1> SUFFICES ASSUME L!LocalInit PROVE LocalInvariant
  OBVIOUS
<1>1. /\ windows = [k \in Key |-> L!NoWindow] /\ lClock = 0 /\ checks = 0 /\ checked = 0
      /\ granted = [k \in Key |-> << >>] /\ denied = [k \in Key |-> {}]
  BY DEF L!LocalInit
<1>2. L!NoWindow \in [count : Nat, until : Nat] /\ L!NoWindow.until = 0
  BY DEF L!NoWindow
<1>3. L!LocalTypeOK
  <2>1. 0 \in 0..MaxTime /\ 0 \in 0..MaxChecks /\ 0 \in 0..0
    BY LocalParameters
  <2>2. QED
    BY <1>1, <1>2, <2>1 DEF L!LocalTypeOK
<1>4. L!Entries(windows) = {}
  BY <1>1 DEF L!Entries
<1>5. SweepWorks
  BY <1>4, FS_EmptySet DEF SweepWorks
<1>6. ASSUME NEW k \in Key PROVE GrantsFit(k) /\ WindowFits(k) /\ RefusedRightly(k)
  <2>1. DOMAIN granted[k] = {} /\ denied[k] = {} /\ windows[k].until = 0
    BY <1>1, <1>2
  <2>2. \A u : GrantsOf(k, u) = {}
    BY <2>1 DEF GrantsOf
  <2>3. GrantsFit(k)
    BY <2>1, <2>2, FS_EmptySet, LocalParameters DEF GrantsFit
  <2>4. WindowFits(k)
    BY <1>1, <2>1 DEF WindowFits
  <2>5. RefusedRightly(k)
    BY <2>1 DEF RefusedRightly
  <2>6. QED
    BY <2>3, <2>4, <2>5
<1>7. QED
  BY <1>3, <1>5, <1>6 DEF LocalInvariant

(* The windows of a key which granted anything do not overlap, whatever the  *)
(* sweep removes in the meantime (realtime-rate-limit.ts:61-97).             *)
THEOREM LocalInvariance == ServicesSpec => []LocalInvariant
<1>1. ServicesInit => LocalInvariant
  BY LocalStart DEF ServicesInit
<1>2. LocalInvariant /\ [ServicesNext]_allVars => LocalInvariant'
  <2>1. [ServicesNext]_allVars => [L!LocalNext]_localVars
    BY DEF ServicesNext, allVars, RestPart, HistoryPart, ChatsPart, AccountsPart, RatePart,
      LocalPart, FeedPart
  <2>2. QED
    BY <2>1, LocalKept
<1>3. QED
  BY <1>1, <1>2, PTL DEF ServicesSpec

(* A key is granted at most two limits in any stretch of a window's length,  *)
(* refused only after one, and the map is swept of windows that are over.    *)
THEOREM LocalLimitAlwaysHolds == ServicesSpec => []LocalLimitHolds
<1>1. LocalInvariant => LocalLimitHolds
  BY LocalLimitFromInvariant
<1>2. QED
  BY <1>1, LocalInvariance, PTL

-----------------------------------------------------------------------------
(* PresenceFeed                                                               *)
Feed == INSTANCE PresenceProofs WITH
          pc <- fPc, faults <- fFaults, crashes <- fCrashes

LEMMA FeedTasks ==
  /\ F!Task = Feed!Task /\ F!Register = Feed!Register /\ F!Unregister = Feed!Unregister
  /\ F!Event = Feed!Event /\ F!ConnState = Feed!ConnState /\ F!Stage = Feed!Stage
  BY DEF F!Task, Feed!Task, F!Register, Feed!Register, F!Unregister, Feed!Unregister,
    F!Ask, Feed!Ask, F!Event, Feed!Event, F!ConnState, Feed!ConnState, F!Stage, Feed!Stage

LEMMA FeedSame ==
  /\ F!FeedInit => Feed!FeedInit
  /\ F!TypeOK <=> Feed!TypeOK
  /\ F!FeedTypeOK <=> Feed!FeedTypeOK
  BY FeedTasks DEF F!FeedInit, Feed!FeedInit, F!Init, Feed!Init, F!TypeOK, Feed!TypeOK,
    F!FeedTypeOK, Feed!FeedTypeOK

LEMMA FeedScans ==
  \A t \in F!Task : (F!Scan(t) => Feed!Scan(t)) /\ (F!CallFails(t) => Feed!CallFails(t))
  BY FeedTasks DEF F!Scan, Feed!Scan, F!CallFails, Feed!CallFails, F!ReadMembers, Feed!ReadMembers,
    F!ReadKey, Feed!ReadKey, F!DropMember, Feed!DropMember, F!Answer, Feed!Answer,
    F!AfterScan, Feed!AfterScan, F!Live, Feed!Live, F!scan, Feed!scan

LEMMA FeedMoves ==
  \A c \in Conn :
    /\ F!Stores(c) => Feed!Stores(c)
    /\ F!Announce(c) => Feed!Announce(c)
    /\ F!Opens(c) => Feed!Opens(c)
    /\ F!Moves(c) => Feed!Moves(c)
<1> SUFFICES ASSUME NEW c \in Conn
    PROVE  /\ F!Stores(c) => Feed!Stores(c)
           /\ F!Announce(c) => Feed!Announce(c)
           /\ F!Opens(c) => Feed!Opens(c)
           /\ F!Moves(c) => Feed!Moves(c)
  OBVIOUS
<1>1. F!Room <=> Feed!Room
  <2>1. \A S : F!Cardinality(S) = Feed!Cardinality(S)
    BY DEF F!Cardinality, Feed!Cardinality
  <2>2. QED
    BY <2>1 DEF F!Room, Feed!Room
<1>2. F!Stores(c) => Feed!Stores(c)
  BY DEF F!Stores, Feed!Stores, F!SetAndAdd, Feed!SetAndAdd, F!SetKey, Feed!SetKey,
    F!AddMember, Feed!AddMember, F!DeleteKey, Feed!DeleteKey, F!RemoveMember, Feed!RemoveMember,
    F!Reply, Feed!Reply, F!scan, Feed!scan
<1>3. F!Announce(c) => Feed!Announce(c)
  <2>1. \A w \in Asker : F!Awaits(w) <=> Feed!Awaits(w)
    BY <1>1 DEF F!Awaits, Feed!Awaits
  <2>2. \A e : F!Arrive(e) => Feed!Arrive(e)
    BY <2>1 DEF F!Arrive, Feed!Arrive
  <2>3. /\ F!PublishOnline(c) => Feed!PublishOnline(c)
        /\ F!PublishOffline(c) => Feed!PublishOffline(c)
    BY DEF F!PublishOnline, Feed!PublishOnline, F!PublishOffline, Feed!PublishOffline,
      F!Reply, Feed!Reply, F!scan, Feed!scan
  <2>4. QED
    BY <2>2, <2>3 DEF F!Announce, Feed!Announce
<1>4. F!Opens(c) => Feed!Opens(c)
  BY <1>1 DEF F!Opens, Feed!Opens, F!Connect, Feed!Connect, F!scan, Feed!scan
<1>5. F!Moves(c) => Feed!Moves(c)
  BY FeedTasks DEF F!Moves, Feed!Moves, F!CheckOpen, Feed!CheckOpen,
    F!StartRegister, Feed!StartRegister, F!Close, Feed!Close, F!Crash, Feed!Crash,
    F!Expire, Feed!Expire, F!Refreshed, Feed!Refreshed, F!scan, Feed!scan
<1>6. QED
  BY <1>2, <1>3, <1>4, <1>5

LEMMA FeedHandles ==
  \A w \in Asker :
    /\ F!Join(w) => Feed!Join(w)
    /\ F!Handled(w) => Feed!Handled(w)
    /\ F!Leave(w) => Feed!Leave(w)
    /\ \A e \in F!Event : F!ForwardFails(w, e) => Feed!ForwardFails(w, e)
<1> SUFFICES ASSUME NEW w \in Asker
    PROVE  /\ F!Join(w) => Feed!Join(w)
           /\ F!Handled(w) => Feed!Handled(w)
           /\ F!Leave(w) => Feed!Leave(w)
           /\ \A e \in F!Event : F!ForwardFails(w, e) => Feed!ForwardFails(w, e)
  OBVIOUS
<1>1. F!Room <=> Feed!Room
  <2>1. \A S : F!Cardinality(S) = Feed!Cardinality(S)
    BY DEF F!Cardinality, Feed!Cardinality
  <2>2. QED
    BY <2>1 DEF F!Room, Feed!Room
<1>2. F!Join(w) => Feed!Join(w)
  BY <1>1 DEF F!Join, Feed!Join, F!vars, Feed!vars, F!scan, Feed!scan
<1>3. F!Handled(w) => Feed!Handled(w)
  BY FeedTasks DEF F!Handled, Feed!Handled, F!AskForMember, Feed!AskForMember,
    F!StartAsk, Feed!StartAsk, F!Greet, Feed!Greet, F!GreetFails, Feed!GreetFails,
    F!Forward, Feed!Forward, F!Subscribed, Feed!Subscribed, F!Asking, Feed!Asking,
    F!vars, Feed!vars, F!feed, Feed!feed, F!scan, Feed!scan
<1>4. F!Leave(w) => Feed!Leave(w)
  BY DEF F!Leave, Feed!Leave, F!vars, Feed!vars, F!scan, Feed!scan
<1>5. \A e \in F!Event : F!ForwardFails(w, e) => Feed!ForwardFails(w, e)
  BY FeedTasks DEF F!ForwardFails, Feed!ForwardFails, F!scan, Feed!scan
<1>6. QED
  BY <1>2, <1>3, <1>4, <1>5

LEMMA FeedKept ==
  Feed!IInv /\ Feed!FeedTypeOK /\ [F!FeedNext]_feedVars => (Feed!IInv /\ Feed!FeedTypeOK)'
<1>1. F!FeedNext => Feed!FeedNext
  <2>1. UNCHANGED F!feed <=> UNCHANGED Feed!feed
    BY DEF F!feed, Feed!feed
  <2>2. QED
    BY <2>1, FeedTasks, FeedScans, FeedMoves, FeedHandles
    DEF F!FeedNext, Feed!FeedNext, F!Quietly, Feed!Quietly
<1>2. UNCHANGED feedVars => UNCHANGED Feed!feedVars
  BY DEF feedVars, Feed!feedVars, Feed!vars, Feed!feed, Feed!scan
<1>3. [F!FeedNext]_feedVars => [Feed!FeedNext]_Feed!feedVars
  BY <1>1, <1>2
<1>4. Feed!PresenceAssumption
  BY ServicesAssumption DEF Feed!PresenceAssumption, F!PresenceAssumption
<1>5. QED
  BY <1>3, <1>4, Feed!FeedStep, Feed!Kept, Feed!FaultsAreNoMatter, Feed!FeedTypeStep

-----------------------------------------------------------------------------
(* Chats, and the types of all parts                                          *)

LEMMA ChatsKept == IInv /\ [ServicesNext]_allVars => IInv'
<1>1. [ServicesNext]_allVars => [ChatsNext]_chatVars
  BY DEF ServicesNext, allVars, RestPart, HistoryPart, ChatsPart, AccountsPart, RatePart,
    LocalPart, FeedPart
<1>2. ChatsAssumption
  BY ServicesAssumption
<1>3. QED
  BY <1>1, <1>2, Kept

LEMMA ChatsTypes == IInv => ChatsTypeOK
<1> SUFFICES ASSUME IInv PROVE ChatsTypeOK
  OBVIOUS
<1>1. Typed /\ TimesAreOfThePast /\ ListIsOfRooms
  BY DEF IInv
<1>2. ASSUME NEW c \in Call
      PROVE  created[c] \in 0..clock /\ lastAt[c] \in 0..clock /\ newest[c] \in 0..clock
  <2>1. created[c] \in Nat /\ lastAt[c] \in Nat /\ newest[c] \in Nat /\ clock \in Nat
    BY <1>1 DEF Typed
  <2>2. QED
    BY <1>1, <2>1 DEF TimesAreOfThePast
<1>3. list.to \in User \cup {Nobody} /\ Range(list.chats) \subseteq rooms
  BY <1>1 DEF ListIsOfRooms
<1>4. QED
  BY <1>1, <1>2, <1>3 DEF ChatsTypeOK, Typed, Steps, Answers

(* A direct room of a pair is made beside another only by overlapping calls, *)
(* and lists are by activity: what ChatsProofs shows of Chats alone.         *)
THEOREM ChatsStayRight == ServicesSpec => [](OneRoomUnlessTogether /\ ListIsByActivity)
<1>1. ServicesInit => IInv
  BY Initially, ServicesAssumption DEF ServicesInit
<1>2. IInv => OneRoomUnlessTogether /\ ListIsByActivity
  BY DEF IInv, NoneWasSeen, AnswersAreRooms, OneRoomUnlessTogether, ListIsOfRooms, ListIsSorted,
    ListIsByActivity
<1>3. QED
  BY <1>1, <1>2, ChatsKept, PTL DEF ServicesSpec

LEMMA RestTypes == Rest!TypeOK => P!TypeOK
  BY DEF P!TypeOK, Rest!TypeOK, P!NoMsg, Rest!NoMsg, P!Time, Rest!Time, P!Maker, Rest!Maker

(* The types of all parts, for any values of their constants.                *)
THEOREM TypesAreCorrect == ServicesSpec => []TypesOK
<1>1. ServicesSpec => []IInv
  <2>1. ServicesInit => IInv
    BY Initially, ServicesAssumption DEF ServicesInit
  <2>2. QED
    BY <2>1, ChatsKept, PTL DEF ServicesSpec
<1>2. ServicesSpec => []Rest!TypeOK
  <2>1. Rest!Spec => []Rest!TypeOK
    BY RestParameters, Rest!TypeCorrect
  <2>2. QED
    BY <2>1, RestSpec, PTL
<1>3. ServicesSpec => [](Feed!IInv /\ Feed!FeedTypeOK)
  <2>1. ServicesInit => Feed!IInv /\ Feed!FeedTypeOK
    <3>1. ServicesInit => Feed!FeedInit
      BY FeedSame DEF ServicesInit
    <3>2. Feed!PresenceAssumption
      BY ServicesAssumption DEF Feed!PresenceAssumption, F!PresenceAssumption
    <3>3. Feed!FeedInit => Feed!IInv /\ Feed!FeedTypeOK
      BY <3>2, Feed!FeedStart
    <3>4. QED
      BY <3>1, <3>3
  <2>2. [ServicesNext]_allVars => [F!FeedNext]_feedVars
    BY DEF ServicesNext, allVars, RestPart, HistoryPart, ChatsPart, AccountsPart, RatePart,
      LocalPart, FeedPart
  <2>3. QED
    BY <2>1, <2>2, FeedKept, PTL DEF ServicesSpec
<1>4. /\ IInv /\ Rest!TypeOK /\ Feed!IInv /\ Feed!FeedTypeOK
      /\ HistoryInvariant /\ AccountsInvariant /\ RateInvariant /\ LocalInvariant
      => TypesOK
  <2>1. Feed!IInv => Feed!TypeOK
    BY DEF Feed!IInv
  <2>2. HistoryInvariant => H!TypeOK
    BY DEF HistoryInvariant, HistoryTyped
  <2>3. AccountsInvariant => A!AccountsTypeOK
    BY DEF AccountsInvariant
  <2>4. RateInvariant => R!RateTypeOK
    BY DEF RateInvariant
  <2>5. LocalInvariant => L!LocalTypeOK
    BY DEF LocalInvariant
  <2>6. QED
    BY <2>1, <2>2, <2>3, <2>4, <2>5, ChatsTypes, RestTypes, FeedSame DEF TypesOK
<1>5. QED
  BY <1>1, <1>2, <1>3, <1>4, HistoryInvariance, AccountsInvariance, RateInvariance,
    LocalInvariance, PTL
=============================================================================
