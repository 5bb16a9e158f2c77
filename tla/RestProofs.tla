----------------------------- MODULE RestProofs -----------------------------
(***************************************************************************)
(* What RestMessages keeps, for any requests, calls, failures and deaths.  *)
(*                                                                         *)
(* A row is never changed (RowsStay).  What a call holds is the row of its *)
(* request (CallsHoldTheRow), and what has been announced is the row of a  *)
(* call that has ended, or of the writer (AnnouncedByItsMaker): the two    *)
(* together make every announcement the first.  A call that made its row   *)
(* goes on to touch the room and announce it, whatever the others do       *)
(* (MakersAreOnTheirWay), so only its own failure or death makes it silent *)
(* (WhoFallsSilent).                                                       *)
(***************************************************************************)
EXTENDS RestMessages, FiniteSetTheorems, TLAPS

PCs == {"idle", "refused", "cache", "create", "find", "touch", "remember", "publish",
        "done", "error"}

Row == [maker : Maker, seq : Nat, at : Time]

DbTyped ==
  /\ message \in [Req -> {NoMsg} \cup Row]
  /\ nextSeq \in Nat
  /\ lastAt \in 0..MaxTime
  /\ persisted \subseteq Buffered /\ outbox \subseteq Buffered

CallsTyped ==
  /\ cache \in [Req -> Maker \cup {None}]
  /\ pc \in [Call -> PCs]
  /\ msg \in [Call -> Maker \cup {None}]
  /\ fresh \subseteq Call
  /\ answered \in [Call -> Maker \cup {None}]
  /\ published \in [Req -> Nat]
  /\ faults \in 0..MaxFaults /\ crashes \in 0..MaxCrashes

OutsidersAreRefused ==
  \A c \in Call : ReqOf[c] \in Outsider => pc[c] \in {"idle", "refused", "error"}

Rows == {q \in Req : Stored(q)}

(* What a call holds is the row of its request; it holds one it made only    *)
(* after the insert, and has touched the room before it goes on.             *)
HoldsTheRow(c) ==
  /\ msg[c] # None => msg[c] = message[ReqOf[c]].maker
  /\ c \in fresh => message[ReqOf[c]].maker = c
  /\ pc[c] \in {"idle", "cache", "create", "find"} => c \notin fresh
  /\ pc[c] = "find" => Stored(ReqOf[c])
  /\ pc[c] = "publish" => c \in fresh
  /\ c \in fresh /\ pc[c] \in {"remember", "publish"} => lastAt >= message[ReqOf[c]].at

CallsHoldTheRow == \A c \in Call : HoldsTheRow(c)

(* Who announced a message is its maker, and has nothing more to do.         *)
AnnouncedByItsMaker ==
  \A q \in Req :
    /\ published[q] > 0 => message[q].maker \in Call /\ pc[message[q].maker] = "done"
    /\ q \in outbox => message[q].maker = Writer

(* A call whose row is stored is past its insert, and knows of the row       *)
(* unless it failed.                                                         *)
OnItsWay(c) ==
  message[ReqOf[c]].maker = c =>
    /\ pc[c] \in {"touch", "remember", "publish", "done", "error"}
    /\ c \in fresh \/ pc[c] = "error"
    /\ lastAt >= message[ReqOf[c]].at \/ pc[c] \in {"touch", "error"}

MakersAreOnTheirWay == \A c \in Call : OnItsWay(c)

Invariant ==
  /\ DbTyped /\ CallsTyped /\ OutsidersAreRefused
  /\ CallsHoldTheRow /\ AnnouncedByItsMaker
  /\ MakersAreOnTheirWay /\ IsFiniteSet(Silent)
  /\ IsFiniteSet(Rows) /\ nextSeq >= 1
  /\ AnswersAgree /\ OneAnnouncement /\ EventsFollowTheRoom /\ ContiguousSequences

-----------------------------------------------------------------------------
LEMMA TypesAreThese == TypeOK <=> DbTyped /\ CallsTyped /\ OutsidersAreRefused
  BY DEF TypeOK, DbTyped, CallsTyped, OutsidersAreRefused, PCs, Row

(* A request without a row has no maker, and a row has one.                  *)
LEMMA MakersOfRows ==
  ASSUME RestAssumption, DbTyped
  PROVE  /\ Writer \notin Call /\ None \notin Call /\ None # Writer
         /\ \A q \in Req :
              /\ Stored(q) <=> message[q].maker # None
              /\ Stored(q) => message[q] \in Row /\ message[q].seq \in Nat
              /\ message[q].maker \in Maker \cup {None} /\ message[q].at \in 0..MaxTime
<1>1. Writer \notin Call /\ None \notin Call /\ None # Writer /\ None \notin Maker
  BY DEF RestAssumption, Maker
<1>2. \A x \in Row : x.maker \in Maker /\ x.seq \in Nat /\ x.at \in 0..MaxTime
  BY DEF Row, Time
<1>3. NoMsg.maker = None /\ NoMsg.at = 0 /\ 0 \in 0..MaxTime
  BY DEF RestAssumption, NoMsg
<1>4. \A q \in Req : message[q] \in {NoMsg} \cup Row
  BY DEF DbTyped
<1>5. QED
  BY <1>1, <1>2, <1>3, <1>4 DEF Stored

(* What a step does to the tables.                                           *)
Inserts(q) == \E maker \in Maker, t \in Time : Insert(q, maker, t)

LEMMA LaterIsLater ==
  ASSUME RestAssumption, NEW t \in 0..MaxTime, lastAt \in 0..MaxTime
  PROVE  /\ Later(lastAt, t) \in 0..MaxTime
         /\ Later(lastAt, t) >= lastAt /\ Later(lastAt, t) >= t
  BY DEF RestAssumption, Later

RowsStay ==
  /\ \/ message' = message /\ nextSeq' = nextSeq
     \/ \E q \in Req : Inserts(q)
  /\ lastAt' \in 0..MaxTime /\ lastAt' >= lastAt
  /\ persisted' \subseteq Buffered
  /\ outbox' \subseteq Buffered

LEMMA TablesStep ==
  ASSUME RestAssumption, DbTyped, [Next]_vars
  PROVE  RowsStay
<1>0. lastAt \in 0..MaxTime /\ lastAt >= lastAt /\ persisted \subseteq Buffered /\ outbox \subseteq Buffered
  BY DEF RestAssumption, DbTyped
<1>1. db' = db => RowsStay
  BY <1>0 DEF db, RowsStay
<1>2. ASSUME NEW c \in Call PROVE ReqOf[c] \in Req /\ c \in Maker
  BY DEF RestAssumption, Maker
<1>3. ASSUME NEW c \in Call, NEW t \in Time, Insert(ReqOf[c], c, t),
             UNCHANGED <<lastAt, persisted, outbox>>
      PROVE  RowsStay
  BY <1>0, <1>2, <1>3 DEF RowsStay, Inserts
<1>4. ASSUME NEW c \in Call, lastAt' = Later(lastAt, message[ReqOf[c]].at),
             UNCHANGED <<message, nextSeq, persisted, outbox>>
      PROVE  RowsStay
  <2>1. message[ReqOf[c]].at \in 0..MaxTime
    BY <1>2, MakersOfRows
  <2>2. lastAt' \in 0..MaxTime /\ lastAt' >= lastAt
    BY <1>0, <1>4, <2>1, LaterIsLater
  <2>3. QED
    BY <1>0, <1>4, <2>2 DEF RowsStay
<1>5. ASSUME NEW q \in Req, WriterPersists(q) PROVE RowsStay
  <2>1. q \in Buffered /\ persisted' \subseteq Buffered
    BY <1>0, <1>5 DEF WriterPersists
  <2>2. CASE Stored(q)
    BY <1>0, <1>5, <2>1, <2>2 DEF WriterPersists, RowsStay
  <2>3. CASE ~ Stored(q)
    <3>1. PICK t \in Time : Insert(q, Writer, t) /\ outbox' = outbox \cup {q} /\ lastAt' = Later(lastAt, t)
      BY <1>5, <2>3 DEF WriterPersists
    <3>2. lastAt' \in 0..MaxTime /\ lastAt' >= lastAt
      BY <1>0, <3>1, LaterIsLater DEF Time
    <3>3. Writer \in Maker
      BY DEF Maker
    <3>4. QED
      BY <1>0, <2>1, <3>1, <3>2, <3>3 DEF RowsStay, Inserts
  <2>4. QED
    BY <2>2, <2>3
<1>6. ASSUME NEW c \in Call, CreateRow(c) PROVE RowsStay
  BY <1>3, <1>6 DEF CreateRow
<1>7. ASSUME NEW c \in Call, Touch(c) PROVE RowsStay
  BY <1>4, <1>7 DEF Touch
<1>8. ASSUME NEW c \in Call, QueryFails(c) PROVE RowsStay
  BY <1>1, <1>3, <1>4, <1>8 DEF QueryFails, RollBack
<1>9. ASSUME NEW c \in Call,
             \/ CheckMember(c) \/ ReadCache(c) \/ ReadCacheFails(c) \/ Duplicate(c) \/ FindRow(c)
             \/ Publish(c) \/ Remember(c) \/ RememberFails(c) \/ PublishFails(c) \/ Crash(c)
      PROVE  RowsStay
  <2>1. db' = db
    BY <1>9 DEF CheckMember, ReadCache, ReadCacheFails, Duplicate, FindRow, Publish, Remember,
      RememberFails, PublishFails, Crash, db, RollBack
  <2>2. QED
    BY <1>1, <2>1
<1>10. ASSUME NEW q \in Req, ExpireCache(q) PROVE RowsStay
  BY <1>1, <1>10 DEF ExpireCache
<1>11. UNCHANGED vars => db' = db
  BY DEF vars, db
<1>12. QED
  BY <1>1, <1>5, <1>6, <1>7, <1>8, <1>9, <1>10, <1>11 DEF Next, CreateMessage

(* An insert numbers a request that had no row, and leaves the others alone. *)
LEMMA InsertAdds ==
  ASSUME RestAssumption, DbTyped, NEW q \in Req, NEW maker \in Maker, NEW t \in Time, Insert(q, maker, t)
  PROVE  /\ message[q] = NoMsg
         /\ message'[q] = [maker |-> maker, seq |-> nextSeq, at |-> t]
         /\ message'[q] \in Row /\ message'[q] # NoMsg
         /\ \A p \in Req : p # q => message'[p] = message[p]
         /\ message' \in [Req -> {NoMsg} \cup Row]
         /\ nextSeq' = nextSeq + 1 /\ nextSeq' \in Nat
<1>1. nextSeq \in Nat /\ message \in [Req -> {NoMsg} \cup Row]
  BY DEF DbTyped
<1>2. [maker |-> maker, seq |-> nextSeq, at |-> t] \in Row
  BY <1>1 DEF Row
<1>3. maker # None
  BY DEF RestAssumption, Maker
<1>4. [maker |-> maker, seq |-> nextSeq, at |-> t] # NoMsg
  BY <1>3 DEF NoMsg
<1>5. QED
  BY <1>1, <1>2, <1>4 DEF Insert, Stored

(* A row once made is never changed.                                         *)
LEMMA StoredStays ==
  ASSUME RestAssumption, DbTyped, RowsStay
  PROVE  /\ DbTyped'
         /\ \A q \in Req : Stored(q) => message'[q] = message[q] /\ Stored(q)'
         /\ \A q \in Req : Stored(q)' => Stored(q) \/ Inserts(q)
<1>1. CASE message' = message /\ nextSeq' = nextSeq
  BY <1>1 DEF RowsStay, DbTyped, Stored
<1>2. CASE \E q \in Req : Inserts(q)
  <2>1. PICK q \in Req, maker \in Maker, t \in Time : Insert(q, maker, t)
    BY <1>2 DEF Inserts
  <2>2. Inserts(q)
    BY <2>1 DEF Inserts
  <2>3. QED
    BY <2>1, <2>2, InsertAdds DEF RowsStay, DbTyped, Stored
<1>3. QED
  BY <1>1, <1>2 DEF RowsStay

-----------------------------------------------------------------------------
(* The types of what calls keep.                                             *)
LEMMA CallsKept ==
  ASSUME RestAssumption, DbTyped, CallsTyped, OutsidersAreRefused, [Next]_vars
  PROVE  CallsTyped' /\ OutsidersAreRefused'
<1>1. ASSUME NEW c \in Call
      PROVE  ReqOf[c] \in Req /\ message[ReqOf[c]].maker \in Maker \cup {None} /\ c \in Maker
  BY <1>1, MakersOfRows DEF RestAssumption, Maker
<1>2. MaxFaults \in Nat /\ MaxCrashes \in Nat /\ faults \in 0..MaxFaults /\ crashes \in 0..MaxCrashes
  BY DEF RestAssumption, CallsTyped
<1>3. (faults' = faults \/ Fault) => faults' \in 0..MaxFaults
  BY <1>2 DEF Fault
<1>4. (crashes' = crashes \/ (crashes < MaxCrashes /\ crashes' = crashes + 1)) => crashes' \in 0..MaxCrashes
  BY <1>2
<1>5. \A q \in Req : published[q] + 1 \in Nat
  BY DEF CallsTyped
<1>6. ASSUME NEW c \in Call, NEW next \in PCs, To(c, next),
             next \in {"idle", "refused", "error"} \/ ReqOf[c] \notin Outsider
      PROVE  pc' \in [Call -> PCs] /\ OutsidersAreRefused'
  BY <1>6 DEF To, CallsTyped, OutsidersAreRefused
<1>7. ASSUME NEW c \in Call, pc[c] \notin {"idle", "refused", "error"} PROVE ReqOf[c] \notin Outsider
  BY <1>7 DEF OutsidersAreRefused
<1>8. ASSUME NEW c \in Call, CheckMember(c) PROVE CallsTyped' /\ OutsidersAreRefused'
  <2>1. To(c, IF ReqOf[c] \in Outsider THEN "refused" ELSE "cache")
    BY <1>8 DEF CheckMember
  <2>2. pc' \in [Call -> PCs] /\ OutsidersAreRefused'
    BY <1>6, <2>1 DEF PCs
  <2>3. QED
    BY <1>8, <2>2 DEF CheckMember, CallsTyped, local
<1>9. ASSUME NEW c \in Call, ReadCache(c) PROVE CallsTyped' /\ OutsidersAreRefused'
  <2>1. pc' \in [Call -> PCs] /\ OutsidersAreRefused'
    BY <1>6, <1>7, <1>9 DEF ReadCache, Answer, PCs
  <2>2. QED
    BY <1>1, <1>9, <2>1 DEF ReadCache, Answer, CallsTyped, local
<1>10. ASSUME NEW c \in Call, ReadCacheFails(c) PROVE CallsTyped' /\ OutsidersAreRefused'
  BY <1>3, <1>6, <1>7, <1>10 DEF ReadCacheFails, CallsTyped, local, PCs
<1>11. ASSUME NEW c \in Call, CreateRow(c) PROVE CallsTyped' /\ OutsidersAreRefused'
  <2>1. pc' \in [Call -> PCs] /\ OutsidersAreRefused'
    BY <1>6, <1>7, <1>11 DEF CreateRow, PCs
  <2>2. QED
    BY <1>1, <1>11, <2>1 DEF CreateRow, CallsTyped
<1>12. ASSUME NEW c \in Call, Duplicate(c) PROVE CallsTyped' /\ OutsidersAreRefused'
  BY <1>6, <1>7, <1>12 DEF Duplicate, CallsTyped, local, PCs
<1>13. ASSUME NEW c \in Call, FindRow(c) PROVE CallsTyped' /\ OutsidersAreRefused'
  <2>1. pc' \in [Call -> PCs] /\ OutsidersAreRefused'
    BY <1>6, <1>7, <1>13 DEF FindRow, PCs
  <2>2. QED
    BY <1>1, <1>13, <2>1 DEF FindRow, CallsTyped
<1>14. ASSUME NEW c \in Call, Touch(c) PROVE CallsTyped' /\ OutsidersAreRefused'
  BY <1>6, <1>7, <1>14 DEF Touch, CallsTyped, local, PCs
<1>15. ASSUME NEW c \in Call, QueryFails(c) PROVE CallsTyped' /\ OutsidersAreRefused'
  <2>1. To(c, "error") /\ Fault /\ UNCHANGED <<cache, local, answered, published, crashes>>
    BY <1>15 DEF QueryFails
  <2>2. pc' \in [Call -> PCs] /\ OutsidersAreRefused'
    BY <1>6, <2>1 DEF PCs
  <2>3. QED
    BY <1>3, <2>1, <2>2 DEF CallsTyped, local
<1>16. ASSUME NEW c \in Call, Continue(c), pc[c] = "remember"
       PROVE  /\ pc' \in [Call -> PCs] /\ OutsidersAreRefused'
              /\ answered' \in [Call -> Maker \cup {None}]
  <2>1. pc' \in [Call -> PCs] /\ OutsidersAreRefused'
    BY <1>6, <1>7, <1>16 DEF Continue, Answer, PCs
  <2>2. QED
    BY <1>16, <2>1 DEF Continue, Answer, CallsTyped
<1>17. ASSUME NEW c \in Call, Remember(c) PROVE CallsTyped' /\ OutsidersAreRefused'
  BY <1>1, <1>16, <1>17 DEF Remember, CallsTyped, local
<1>18. ASSUME NEW c \in Call, RememberFails(c) PROVE CallsTyped' /\ OutsidersAreRefused'
  BY <1>1, <1>3, <1>16, <1>18 DEF RememberFails, CallsTyped, local
<1>19. ASSUME NEW c \in Call, Publish(c) PROVE CallsTyped' /\ OutsidersAreRefused'
  <2>1. pc' \in [Call -> PCs] /\ OutsidersAreRefused'
    BY <1>6, <1>7, <1>19 DEF Publish, Answer, PCs
  <2>2. QED
    BY <1>1, <1>5, <1>19, <2>1 DEF Publish, Answer, CallsTyped, local
<1>20. ASSUME NEW c \in Call, PublishFails(c) PROVE CallsTyped' /\ OutsidersAreRefused'
  <2>1. pc' \in [Call -> PCs] /\ OutsidersAreRefused'
    BY <1>6, <1>7, <1>20 DEF PublishFails, Answer, PCs
  <2>2. published' \in [Req -> Nat]
    BY <1>1, <1>5, <1>20 DEF PublishFails, CallsTyped
  <2>3. QED
    BY <1>1, <1>3, <1>20, <2>1, <2>2 DEF PublishFails, Answer, CallsTyped, local
<1>21. ASSUME NEW c \in Call, Crash(c) PROVE CallsTyped' /\ OutsidersAreRefused'
  BY <1>4, <1>6, <1>21 DEF Crash, CallsTyped, local, PCs
<1>22. ASSUME NEW q \in Req, ExpireCache(q) \/ WriterPersists(q) PROVE CallsTyped' /\ OutsidersAreRefused'
  BY <1>22 DEF ExpireCache, WriterPersists, CallsTyped, OutsidersAreRefused, local
<1>23. UNCHANGED vars => CallsTyped' /\ OutsidersAreRefused'
  BY DEF vars, CallsTyped, OutsidersAreRefused
<1>24. QED
  BY <1>8, <1>9, <1>10, <1>11, <1>12, <1>13, <1>14, <1>15, <1>17, <1>18, <1>19, <1>20, <1>21,
    <1>22, <1>23 DEF Next, CreateMessage

-----------------------------------------------------------------------------
(* A call that rests holds what it held.                                     *)
LEMMA RestingCallHolds ==
  ASSUME RestAssumption, DbTyped, RowsStay, NEW c \in Call, HoldsTheRow(c),
         pc'[c] = pc[c] \/ pc'[c] \in {"refused", "done", "error"},
         msg'[c] = msg[c], c \in fresh' <=> c \in fresh
  PROVE  HoldsTheRow(c)'
<1>1. ReqOf[c] \in Req /\ c # None
  BY DEF RestAssumption
<1>2. Stored(ReqOf[c]) => message'[ReqOf[c]] = message[ReqOf[c]] /\ Stored(ReqOf[c])'
  BY <1>1, StoredStays
<1>3. Stored(ReqOf[c]) <=> message[ReqOf[c]].maker # None
  BY <1>1, MakersOfRows
<1>4. /\ lastAt \in 0..MaxTime /\ lastAt' \in 0..MaxTime /\ lastAt' >= lastAt
      /\ message[ReqOf[c]].at \in 0..MaxTime /\ MaxTime \in Nat
  BY <1>1, MakersOfRows DEF DbTyped, RowsStay, RestAssumption
<1>5. ASSUME c \in fresh, pc[c] \in {"remember", "publish"}
      PROVE  lastAt' >= message'[ReqOf[c]].at
  <2>1. message'[ReqOf[c]] = message[ReqOf[c]] /\ lastAt >= message[ReqOf[c]].at
    BY <1>1, <1>2, <1>3, <1>5 DEF HoldsTheRow
  <2>2. QED
    BY <1>4, <2>1
<1>6. QED
  BY <1>1, <1>2, <1>3, <1>5 DEF HoldsTheRow

(* The others rest while one call takes a step.                              *)
LEMMA OthersRest ==
  ASSUME CallsTyped, NEW c \in Call, CreateMessage(c) \/ Crash(c), NEW d \in Call, d # c
  PROVE  pc'[d] = pc[d] /\ msg'[d] = msg[d] /\ (d \in fresh' <=> d \in fresh) /\ answered'[d] = answered[d]
<1>1. pc \in [Call -> PCs] /\ msg \in [Call -> Maker \cup {None}] /\ answered \in [Call -> Maker \cup {None}]
  BY DEF CallsTyped
<1>2. CASE CheckMember(c)
  BY <1>1, <1>2 DEF CheckMember, To, local
<1>3. CASE ReadCache(c)
  BY <1>1, <1>3 DEF ReadCache, Answer, To, local
<1>4. CASE ReadCacheFails(c)
  BY <1>1, <1>4 DEF ReadCacheFails, To, local
<1>5. CASE CreateRow(c)
  BY <1>1, <1>5 DEF CreateRow, To
<1>6. CASE Duplicate(c)
  BY <1>1, <1>6 DEF Duplicate, To, local
<1>7. CASE FindRow(c)
  BY <1>1, <1>7 DEF FindRow, To
<1>8. CASE Touch(c)
  BY <1>1, <1>8 DEF Touch, To, local
<1>9. CASE QueryFails(c)
  BY <1>1, <1>9 DEF QueryFails, To, local
<1>10. CASE Remember(c)
  BY <1>1, <1>10 DEF Remember, Continue, Answer, To, local
<1>11. CASE RememberFails(c)
  BY <1>1, <1>11 DEF RememberFails, Continue, Answer, To, local
<1>12. CASE Publish(c)
  BY <1>1, <1>12 DEF Publish, Answer, To, local
<1>13. CASE PublishFails(c)
  BY <1>1, <1>13 DEF PublishFails, Answer, To, local
<1>14. CASE Crash(c)
  BY <1>1, <1>14 DEF Crash, To, local
<1>15. QED
  BY <1>2, <1>3, <1>4, <1>5, <1>6, <1>7, <1>8, <1>9, <1>10, <1>11, <1>12, <1>13, <1>14
    DEF CreateMessage

(* Between the insert and the end of a call, it holds its row.               *)
LEMMA CallHolds ==
  ASSUME RestAssumption, DbTyped, CallsTyped, RowsStay, NEW c \in Call, HoldsTheRow(c),
         CreateMessage(c) \/ Crash(c)
  PROVE  HoldsTheRow(c)'
<1>0. pc \in [Call -> PCs] /\ msg \in [Call -> Maker \cup {None}]
  BY DEF CallsTyped
<1>1. ReqOf[c] \in Req /\ c # None /\ c \in Maker
  BY DEF RestAssumption, Maker
<1>2. /\ Stored(ReqOf[c]) => message'[ReqOf[c]] = message[ReqOf[c]] /\ Stored(ReqOf[c])'
      /\ Stored(ReqOf[c]) <=> message[ReqOf[c]].maker # None
  BY <1>1, StoredStays, MakersOfRows
<1>3. CASE CheckMember(c)
  BY <1>0, <1>2, <1>1, <1>3 DEF CheckMember, To, local, HoldsTheRow
<1>4. CASE ReadCache(c) \/ ReadCacheFails(c)
  BY <1>0, <1>2, <1>1, <1>4 DEF ReadCache, ReadCacheFails, Answer, To, local, HoldsTheRow
<1>5. CASE CreateRow(c)
  <2>1. PICK t \in Time : Insert(ReqOf[c], c, t)
    BY <1>5 DEF CreateRow
  <2>2. message'[ReqOf[c]] = [maker |-> c, seq |-> nextSeq, at |-> t]
    BY <1>1, <2>1, InsertAdds
  <2>3. pc'[c] = "touch" /\ msg'[c] = c
    BY <1>0, <1>5 DEF CreateRow, To
  <2>4. QED
    BY <2>2, <2>3 DEF HoldsTheRow
<1>6. CASE Duplicate(c)
  BY <1>0, <1>1, <1>2, <1>6 DEF Duplicate, To, local, HoldsTheRow
<1>7. CASE FindRow(c)
  BY <1>0, <1>1, <1>2, <1>7 DEF FindRow, To, db, HoldsTheRow
<1>8. CASE Touch(c)
  <2>1. /\ pc'[c] = "remember" /\ message' = message /\ msg'[c] = msg[c] /\ fresh' = fresh
        /\ lastAt' = Later(lastAt, message[ReqOf[c]].at)
    BY <1>0, <1>8 DEF Touch, To, local
  <2>2. lastAt' >= message[ReqOf[c]].at
    BY <1>1, <2>1, MakersOfRows, LaterIsLater DEF DbTyped
  <2>3. QED
    BY <2>1, <2>2 DEF HoldsTheRow
<1>9. CASE QueryFails(c)
  <2>1. pc'[c] = "error" /\ msg'[c] = msg[c] /\ fresh' = fresh
    BY <1>0, <1>9 DEF QueryFails, To, local
  <2>2. QED
    BY <2>1, RestingCallHolds
<1>10. CASE Remember(c) \/ RememberFails(c)
  <2>1. /\ msg' = msg /\ fresh' = fresh /\ UNCHANGED db /\ pc[c] = "remember"
        /\ pc'[c] = IF c \in fresh THEN "publish" ELSE "done"
    BY <1>0, <1>10 DEF Remember, RememberFails, Continue, Publishes, Answer, To, local
  <2>2. QED
    BY <2>1 DEF HoldsTheRow, db, Stored
<1>11. CASE Publish(c) \/ PublishFails(c)
  <2>1. pc'[c] = "done" /\ msg'[c] = msg[c] /\ fresh' = fresh
    BY <1>0, <1>11 DEF Publish, PublishFails, Answer, To, local
  <2>2. QED
    BY <2>1, RestingCallHolds
<1>12. CASE Crash(c)
  <2>1. pc'[c] = "error" /\ msg'[c] = msg[c] /\ fresh' = fresh
    BY <1>0, <1>12 DEF Crash, To, local
  <2>2. QED
    BY <2>1, RestingCallHolds
<1>13. QED
  BY <1>3, <1>4, <1>5, <1>6, <1>7, <1>8, <1>9, <1>10, <1>11, <1>12 DEF CreateMessage

LEMMA HoldingKept ==
  ASSUME RestAssumption, DbTyped, CallsTyped, CallsHoldTheRow, [Next]_vars
  PROVE  CallsHoldTheRow'
<1>1. RowsStay
  BY TablesStep
<1>2. SUFFICES ASSUME NEW d \in Call PROVE HoldsTheRow(d)'
  BY DEF CallsHoldTheRow
<1>3. HoldsTheRow(d)
  BY DEF CallsHoldTheRow
<1>4. ASSUME NEW c \in Call, CreateMessage(c) \/ Crash(c) PROVE HoldsTheRow(d)'
  <2>1. CASE d = c
    BY <1>1, <1>3, <1>4, <2>1, CallHolds
  <2>2. CASE d # c
    BY <1>1, <1>3, <1>4, <2>2, OthersRest, RestingCallHolds
  <2>3. QED
    BY <2>1, <2>2
<1>5. ASSUME NEW q \in Req, ExpireCache(q) \/ WriterPersists(q) PROVE HoldsTheRow(d)'
  <2>1. UNCHANGED <<pc, local>>
    BY <1>5 DEF ExpireCache, WriterPersists
  <2>2. pc' = pc /\ msg' = msg /\ fresh' = fresh
    BY <2>1 DEF local
  <2>3. QED
    BY <1>1, <1>3, <2>2, RestingCallHolds
<1>6. ASSUME UNCHANGED vars PROVE HoldsTheRow(d)'
  BY <1>1, <1>3, <1>6, RestingCallHolds DEF vars
<1>7. QED
  BY <1>4, <1>5, <1>6 DEF Next

-----------------------------------------------------------------------------
(* The name of a row's maker stays true.                                     *)
LEMMA NamesStay ==
  ASSUME RestAssumption, DbTyped, RowsStay, NEW q \in Req, NEW v,
         v # None => v = message[q].maker
  PROVE  v # None => v = message'[q].maker
<1>1. Stored(q) => message'[q] = message[q]
  BY StoredStays
<1>2. Stored(q) <=> message[q].maker # None
  BY MakersOfRows
<1>3. QED
  BY <1>1, <1>2

(* What is answered or cached is what the cache had, or what a call holds.   *)
LEMMA AnswersComeFrom ==
  ASSUME RestAssumption, CallsTyped, [Next]_vars
  PROVE  /\ \A c \in Call : answered'[c] \in {answered[c], cache[ReqOf[c]], msg[c]}
         /\ \A q \in Req : \/ cache'[q] \in {cache[q], None}
                           \/ \E c \in Call : ReqOf[c] = q /\ cache'[q] = msg[c]
<1> DEFINE Goal == /\ \A c \in Call : answered'[c] \in {answered[c], cache[ReqOf[c]], msg[c]}
                   /\ \A q \in Req : \/ cache'[q] \in {cache[q], None}
                                     \/ \E c \in Call : ReqOf[c] = q /\ cache'[q] = msg[c]
<1>0. answered \in [Call -> Maker \cup {None}] /\ cache \in [Req -> Maker \cup {None}]
  BY DEF CallsTyped
<1>1. ASSUME NEW c \in Call, PublishFails(c) \/ Publish(c) \/ ReadCache(c) PROVE Goal
  <2>1. answered'[c] \in {answered[c], cache[ReqOf[c]], msg[c]} /\ cache' = cache
    BY <1>0, <1>1 DEF PublishFails, Publish, ReadCache, Answer
  <2>2. \A d \in Call : d # c => answered'[d] = answered[d]
    BY <1>0, <1>1, OthersRest DEF CreateMessage
  <2>3. QED
    BY <2>1, <2>2
<1>2. ASSUME NEW c \in Call, Remember(c) \/ RememberFails(c) PROVE Goal
  <2>1. answered'[c] \in {answered[c], msg[c]}
    BY <1>0, <1>2 DEF Remember, RememberFails, Continue, Answer
  <2>2. \A d \in Call : d # c => answered'[d] = answered[d]
    BY <1>0, <1>2, OthersRest DEF CreateMessage
  <2>3. cache' = cache \/ cache' = [cache EXCEPT ![ReqOf[c]] = msg[c]]
    BY <1>2 DEF Remember, RememberFails
  <2>4. QED
    BY <1>0, <2>1, <2>2, <2>3
<1>3. ASSUME NEW c \in Call,
             \/ CheckMember(c) \/ ReadCacheFails(c) \/ CreateRow(c) \/ Duplicate(c)
             \/ FindRow(c) \/ Touch(c) \/ QueryFails(c) \/ Crash(c)
      PROVE  Goal
  <2>1. answered' = answered /\ cache' = cache
    BY <1>3 DEF CheckMember, ReadCacheFails, CreateRow, Duplicate, FindRow, Touch, QueryFails, Crash
  <2>2. QED
    BY <2>1
<1>4. ASSUME NEW q \in Req, ExpireCache(q) \/ WriterPersists(q) PROVE Goal
  BY <1>0, <1>4 DEF ExpireCache, WriterPersists
<1>5. UNCHANGED vars => Goal
  BY DEF vars
<1>6. QED
  BY <1>1, <1>2, <1>3, <1>4, <1>5 DEF Next, CreateMessage

LEMMA AnswersKept ==
  ASSUME RestAssumption, DbTyped, CallsTyped, CallsHoldTheRow, AnswersAgree, [Next]_vars
  PROVE  AnswersAgree'
<1>1. RowsStay
  BY TablesStep
<1>2. ASSUME NEW c \in Call PROVE answered'[c] # None => answered'[c] = message'[ReqOf[c]].maker
  <2>1. ReqOf[c] \in Req /\ HoldsTheRow(c)
    BY DEF RestAssumption, CallsHoldTheRow
  <2>2. answered'[c] # None => answered'[c] = message[ReqOf[c]].maker
    BY <2>1, AnswersComeFrom DEF AnswersAgree, HoldsTheRow
  <2>3. QED
    BY <1>1, <2>1, <2>2, NamesStay
<1>3. ASSUME NEW q \in Req PROVE cache'[q] # None => cache'[q] = message'[q].maker
  <2>1. cache'[q] # None => cache'[q] = message[q].maker
    BY AnswersComeFrom DEF AnswersAgree, CallsHoldTheRow, HoldsTheRow
  <2>2. QED
    BY <1>1, <2>1, NamesStay
<1>4. QED
  BY <1>2, <1>3 DEF AnswersAgree

-----------------------------------------------------------------------------
(* A call that is done does nothing more.                                    *)
LEMMA DoneStays ==
  ASSUME CallsTyped, NEW c \in Call, pc[c] = "done", [Next]_vars
  PROVE  pc'[c] = "done"
<1>1. ~ CreateMessage(c) /\ ~ Crash(c)
  BY DEF CreateMessage, Crash, CheckMember, ReadCache, ReadCacheFails, CreateRow, Duplicate,
    FindRow, Touch, QueryFails, Remember, RememberFails, Publish, PublishFails
<1>2. ASSUME NEW d \in Call, CreateMessage(d) \/ Crash(d) PROVE pc'[c] = "done"
  BY <1>1, <1>2, OthersRest
<1>3. ASSUME NEW q \in Req, ExpireCache(q) \/ WriterPersists(q) PROVE pc'[c] = "done"
  BY <1>3 DEF ExpireCache, WriterPersists
<1>4. QED
  BY <1>2, <1>3 DEF Next, vars

(* A step announces nothing, or is the publish of the call that made the     *)
(* row, or the transaction of the writer that inserts it.                    *)
Announces(q) ==
  \/ \E c \in Call :
       /\ ReqOf[c] = q /\ pc[c] = "publish" /\ pc'[c] = "done" /\ message' = message
       /\ published'[q] \in {published[q], published[q] + 1} /\ outbox' = outbox
  \/ \E t \in Time :
       /\ Insert(q, Writer, t) /\ lastAt' = Later(lastAt, t)
       /\ published' = published

LEMMA WhoAnnounces ==
  ASSUME RestAssumption, CallsTyped, NEW q \in Req, [Next]_vars
  PROVE  \/ published'[q] = published[q] /\ (q \in outbox' <=> q \in outbox)
         \/ Announces(q)
<1> DEFINE Goal == \/ published'[q] = published[q] /\ (q \in outbox' <=> q \in outbox)
                   \/ Announces(q)
<1>0. published \in [Req -> Nat] /\ pc \in [Call -> PCs] /\ \A c \in Call : ReqOf[c] \in Req
  BY DEF CallsTyped, RestAssumption
<1>1. ASSUME NEW c \in Call, Publish(c) \/ PublishFails(c) PROVE Goal
  <2>1. /\ pc[c] = "publish" /\ pc'[c] = "done" /\ message' = message /\ outbox' = outbox
        /\ published' \in {published, [published EXCEPT ![ReqOf[c]] = @ + 1]}
    BY <1>0, <1>1 DEF Publish, PublishFails, Answer, To, db
  <2>2. CASE ReqOf[c] = q
    <3>1. published'[q] \in {published[q], published[q] + 1}
      BY <1>0, <2>1, <2>2
    <3>2. QED
      BY <2>1, <2>2, <3>1 DEF Announces
  <2>3. CASE ReqOf[c] # q
    BY <1>0, <2>1, <2>3
  <2>4. QED
    BY <2>2, <2>3
<1>2. ASSUME NEW p \in Req, WriterPersists(p) PROVE Goal
  <2>1. published' = published
    BY <1>2 DEF WriterPersists
  <2>2. CASE Stored(p)
    BY <1>2, <2>1, <2>2 DEF WriterPersists
  <2>3. CASE ~ Stored(p)
    <3>1. PICK t \in Time :
            Insert(p, Writer, t) /\ outbox' = outbox \cup {p} /\ lastAt' = Later(lastAt, t)
      BY <1>2, <2>3 DEF WriterPersists
    <3>2. QED
      BY <2>1, <3>1 DEF Announces
  <2>4. QED
    BY <2>2, <2>3
<1>3. ASSUME NEW c \in Call,
             \/ CheckMember(c) \/ ReadCache(c) \/ ReadCacheFails(c) \/ CreateRow(c)
             \/ Duplicate(c) \/ FindRow(c) \/ Touch(c) \/ QueryFails(c) \/ Remember(c)
             \/ RememberFails(c) \/ Crash(c)
      PROVE  Goal
  <2>1. published' = published /\ outbox' = outbox
    BY <1>3 DEF CheckMember, ReadCache, ReadCacheFails, CreateRow, Duplicate, FindRow, Touch,
      QueryFails, Remember, RememberFails, Crash, db, RollBack
  <2>2. QED
    BY <2>1
<1>4. ASSUME NEW p \in Req, ExpireCache(p) PROVE Goal
  BY <1>4 DEF ExpireCache, db
<1>5. UNCHANGED vars => Goal
  BY DEF vars
<1>6. QED
  BY <1>1, <1>2, <1>3, <1>4, <1>5 DEF Next, CreateMessage

LEMMA AnnouncedKept ==
  ASSUME RestAssumption, DbTyped, CallsTyped, CallsHoldTheRow, AnnouncedByItsMaker, [Next]_vars
  PROVE  AnnouncedByItsMaker'
<1>1. RowsStay
  BY TablesStep
<1>2. SUFFICES ASSUME NEW q \in Req
      PROVE /\ published'[q] > 0 => message'[q].maker \in Call /\ pc'[message'[q].maker] = "done"
            /\ q \in outbox' => message'[q].maker = Writer
  BY DEF AnnouncedByItsMaker
<1>3. /\ Stored(q) => message'[q] = message[q]
      /\ Stored(q) <=> message[q].maker # None
      /\ Writer \notin Call /\ None \notin Call /\ None # Writer
  BY <1>1, StoredStays, MakersOfRows
<1>4. published[q] > 0 => message[q].maker \in Call /\ pc[message[q].maker] = "done"
  BY DEF AnnouncedByItsMaker
<1>5. q \in outbox => message[q].maker = Writer
  BY DEF AnnouncedByItsMaker
<1>6. CASE published'[q] = published[q] /\ (q \in outbox' <=> q \in outbox)
  BY <1>3, <1>4, <1>5, <1>6, DoneStays
<1>7. CASE \E c \in Call :
             /\ ReqOf[c] = q /\ pc[c] = "publish" /\ pc'[c] = "done" /\ message' = message
             /\ published'[q] \in {published[q], published[q] + 1} /\ outbox' = outbox
  <2>1. PICK c \in Call : ReqOf[c] = q /\ pc[c] = "publish" /\ pc'[c] = "done" /\ message' = message /\ outbox' = outbox
    BY <1>7
  <2>2. message[q].maker = c
    BY <2>1 DEF CallsHoldTheRow, HoldsTheRow
  <2>3. QED
    BY <1>5, <2>1, <2>2
<1>8. CASE \E t \in Time :
             /\ Insert(q, Writer, t) /\ lastAt' = Later(lastAt, t)
             /\ published' = published
  <2>1. PICK t \in Time : Insert(q, Writer, t)
    BY <1>8
  <2>2. message[q] = NoMsg /\ message'[q] = [maker |-> Writer, seq |-> nextSeq, at |-> t]
    BY <2>1, InsertAdds DEF Maker
  <2>3. ~ (published[q] > 0)
    BY <1>3, <1>4, <2>2 DEF NoMsg
  <2>4. QED
    BY <1>8, <2>2, <2>3
<1>9. QED
  BY <1>6, <1>7, <1>8, WhoAnnounces DEF Announces

LEMMA AnnouncementsKept ==
  ASSUME RestAssumption, DbTyped, CallsTyped, CallsHoldTheRow, AnnouncedByItsMaker, OneAnnouncement,
         AnnouncedByItsMaker', [Next]_vars
  PROVE  OneAnnouncement'
<1>1. SUFFICES ASSUME NEW q \in Req PROVE published'[q] <= 1 /\ (published'[q] = 1 => q \notin outbox')
  BY DEF OneAnnouncement
<1>2. Writer \notin Call /\ published[q] \in Nat /\ published[q] <= 1
  BY DEF RestAssumption, CallsTyped, OneAnnouncement
<1>3. published'[q] = 1 => q \notin outbox'
  BY <1>2 DEF AnnouncedByItsMaker
<1>4. ASSUME NEW c \in Call, ReqOf[c] = q, pc[c] = "publish" PROVE published[q] = 0
  <2>1. message[q].maker = c
    BY <1>4 DEF CallsHoldTheRow, HoldsTheRow
  <2>2. ~ (published[q] > 0)
    BY <1>4, <2>1 DEF AnnouncedByItsMaker
  <2>3. QED
    BY <1>2, <2>2
<1>5. published'[q] <= 1
  BY <1>2, <1>4, WhoAnnounces DEF Announces
<1>6. QED
  BY <1>3, <1>5

(* Whatever is announced, the room was touched before.                       *)
LEMMA RoomsKept ==
  ASSUME RestAssumption, DbTyped, CallsTyped, CallsHoldTheRow, AnnouncedByItsMaker,
         \A q \in Req : published[q] > 0 \/ q \in outbox => lastAt >= message[q].at, [Next]_vars
  PROVE  \A q \in Req : published'[q] > 0 \/ q \in outbox' => lastAt' >= message'[q].at
<1>1. RowsStay
  BY TablesStep
<1>2. SUFFICES ASSUME NEW q \in Req PROVE published'[q] > 0 \/ q \in outbox' => lastAt' >= message'[q].at
  OBVIOUS
<1>3. /\ Stored(q) => message'[q] = message[q]
      /\ Stored(q) <=> message[q].maker # None
      /\ message[q].at \in 0..MaxTime /\ None \notin Call /\ None # Writer
  BY <1>1, StoredStays, MakersOfRows
<1>4. lastAt \in 0..MaxTime /\ lastAt' \in 0..MaxTime /\ lastAt' >= lastAt /\ MaxTime \in Nat
  BY <1>1 DEF DbTyped, RowsStay, RestAssumption
<1>5. lastAt >= message[q].at => lastAt' >= message[q].at
  BY <1>3, <1>4
<1>6. CASE published'[q] = published[q] /\ (q \in outbox' <=> q \in outbox)
  BY <1>3, <1>5, <1>6 DEF AnnouncedByItsMaker
<1>7. CASE \E c \in Call :
             /\ ReqOf[c] = q /\ pc[c] = "publish" /\ pc'[c] = "done" /\ message' = message
             /\ published'[q] \in {published[q], published[q] + 1} /\ outbox' = outbox
  <2>1. PICK c \in Call : ReqOf[c] = q /\ pc[c] = "publish" /\ message' = message
    BY <1>7
  <2>2. lastAt >= message[q].at
    BY <2>1 DEF CallsHoldTheRow, HoldsTheRow
  <2>3. QED
    BY <1>5, <2>1, <2>2
<1>8. CASE \E t \in Time :
             /\ Insert(q, Writer, t) /\ lastAt' = Later(lastAt, t)
             /\ published' = published
  <2>1. PICK t \in Time : Insert(q, Writer, t) /\ lastAt' = Later(lastAt, t)
    BY <1>8
  <2>2. message'[q].at = t
    <3>1. message'[q] = [maker |-> Writer, seq |-> nextSeq, at |-> t]
      BY <2>1, InsertAdds DEF Maker
    <3>2. QED
      BY <3>1
  <2>3. lastAt' >= t
    BY <1>4, <2>1, LaterIsLater DEF Time
  <2>4. QED
    BY <2>2, <2>3
<1>9. QED
  BY <1>6, <1>7, <1>8, WhoAnnounces DEF Announces

-----------------------------------------------------------------------------
(* A call becomes the maker of its request's row by its own insert.          *)
LEMMA HowToBeAMaker ==
  ASSUME RestAssumption, DbTyped, CallsTyped, NEW d \in Call, message'[ReqOf[d]].maker = d,
         [Next]_vars
  PROVE  \/ message[ReqOf[d]].maker = d
         \/ pc[d] = "create" /\ pc'[d] = "touch" /\ d \in fresh'
         \/ pc[d] = "create" /\ pc'[d] = "error" /\ Fault /\ crashes' = crashes
<1> DEFINE Goal == \/ message[ReqOf[d]].maker = d
                   \/ pc[d] = "create" /\ pc'[d] = "touch" /\ d \in fresh'
                   \/ pc[d] = "create" /\ pc'[d] = "error" /\ Fault /\ crashes' = crashes
<1>0. pc \in [Call -> PCs] /\ \A c \in Call : ReqOf[c] \in Req /\ c \in Maker
  BY DEF CallsTyped, RestAssumption, Maker
<1>1. message' = message => Goal
  OBVIOUS
<1>2. ASSUME NEW q \in Req, NEW maker \in Maker, NEW t \in Time, Insert(q, maker, t), maker # d
      PROVE  Goal
  <2>1. message'[q] = [maker |-> maker, seq |-> nextSeq, at |-> t]
        /\ \A p \in Req : p # q => message'[p] = message[p]
    BY <1>2, InsertAdds
  <2>2. message'[q].maker # d
    BY <1>2, <2>1
  <2>3. QED
    BY <1>0, <2>1, <2>2
<1>3. ASSUME NEW c \in Call, CreateRow(c) PROVE Goal
  <2>1. CASE c = d
    BY <1>0, <1>3, <2>1 DEF CreateRow, To
  <2>2. CASE c # d
    BY <1>0, <1>2, <1>3, <2>2 DEF CreateRow
  <2>3. QED
    BY <2>1, <2>2
<1>4. ASSUME NEW c \in Call, QueryFails(c) PROVE Goal
  <2>1. CASE c = d
    BY <1>0, <1>4, <2>1 DEF QueryFails, To, RollBack, db
  <2>2. CASE c # d
    BY <1>0, <1>2, <1>4, <2>2 DEF QueryFails, RollBack, db
  <2>3. QED
    BY <2>1, <2>2
<1>5. ASSUME NEW q \in Req, WriterPersists(q) PROVE Goal
  <2>1. Writer \in Maker /\ Writer # d
    BY DEF Maker, RestAssumption
  <2>2. QED
    BY <1>2, <1>5, <2>1 DEF WriterPersists
<1>6. ASSUME NEW c \in Call,
             \/ CheckMember(c) \/ ReadCache(c) \/ ReadCacheFails(c) \/ Duplicate(c) \/ FindRow(c)
             \/ Touch(c) \/ Publish(c) \/ Remember(c) \/ RememberFails(c) \/ PublishFails(c) \/ Crash(c)
      PROVE  Goal
  <2>1. message' = message
    BY <1>6 DEF CheckMember, ReadCache, ReadCacheFails, Duplicate, FindRow, Touch, Publish, Remember,
      RememberFails, PublishFails, Crash, db, RollBack
  <2>2. QED
    BY <2>1
<1>7. ASSUME (\E q \in Req : ExpireCache(q)) \/ UNCHANGED vars PROVE Goal
  BY <1>7 DEF ExpireCache, db, vars
<1>8. QED
  BY <1>3, <1>4, <1>5, <1>6, <1>7 DEF Next, CreateMessage

(* A call that made its row goes on to the touch and the event, or fails.    *)
LEMMA MakersKept ==
  ASSUME RestAssumption, DbTyped, CallsTyped, MakersAreOnTheirWay, [Next]_vars
  PROVE  MakersAreOnTheirWay'
<1>1. RowsStay
  BY TablesStep
<1>2. SUFFICES ASSUME NEW d \in Call, message'[ReqOf[d]].maker = d
      PROVE  /\ pc'[d] \in {"touch", "remember", "publish", "done", "error"}
             /\ d \in fresh' \/ pc'[d] = "error"
             /\ lastAt' >= message'[ReqOf[d]].at \/ pc'[d] \in {"touch", "error"}
  BY DEF MakersAreOnTheirWay, OnItsWay
<1> DEFINE Goal == /\ pc'[d] \in {"touch", "remember", "publish", "done", "error"}
                   /\ d \in fresh' \/ pc'[d] = "error"
                   /\ lastAt' >= message'[ReqOf[d]].at \/ pc'[d] \in {"touch", "error"}
<1>3. CASE message[ReqOf[d]].maker # d
  BY <1>2, <1>3, HowToBeAMaker
<1>4. CASE message[ReqOf[d]].maker = d
  <2>0. pc \in [Call -> PCs] /\ ReqOf[d] \in Req /\ d # None
    BY DEF CallsTyped, RestAssumption
  <2>1. message'[ReqOf[d]] = message[ReqOf[d]] /\ message[ReqOf[d]].at \in 0..MaxTime
    BY <1>1, <1>4, <2>0, StoredStays, MakersOfRows
  <2>2. lastAt \in 0..MaxTime /\ lastAt' \in 0..MaxTime /\ lastAt' >= lastAt /\ MaxTime \in Nat
    BY <1>1 DEF DbTyped, RowsStay, RestAssumption
  <2>3. lastAt >= message[ReqOf[d]].at => lastAt' >= message'[ReqOf[d]].at
    BY <2>1, <2>2
  <2>4. OnItsWay(d)
    BY DEF MakersAreOnTheirWay
  <2>5. ASSUME pc'[d] = pc[d], d \in fresh' <=> d \in fresh PROVE Goal
    BY <1>4, <2>3, <2>4, <2>5 DEF OnItsWay
  <2>6. ASSUME NEW c \in Call, CreateMessage(c) \/ Crash(c), c # d PROVE Goal
    BY <2>5, <2>6, OthersRest
  <2>7. ASSUME Touch(d) PROVE Goal
    <3>1. pc'[d] = "remember" /\ fresh' = fresh /\ pc[d] = "touch"
          /\ lastAt' = Later(lastAt, message[ReqOf[d]].at)
      BY <2>0, <2>7 DEF Touch, To, local
    <3>2. lastAt' >= message'[ReqOf[d]].at
      BY <2>1, <2>2, <3>1, LaterIsLater
    <3>3. QED
      BY <1>4, <2>4, <3>1, <3>2 DEF OnItsWay
  <2>8. ASSUME QueryFails(d) \/ Crash(d) PROVE Goal
    BY <2>0, <2>8 DEF QueryFails, Crash, To
  <2>9. ASSUME Remember(d) \/ RememberFails(d) \/ Publish(d) \/ PublishFails(d) PROVE Goal
    <3>1. /\ pc'[d] \in {"publish", "done"} /\ fresh' = fresh
          /\ pc[d] \in {"remember", "publish"}
      BY <2>0, <2>9 DEF Remember, RememberFails, Publish, PublishFails, Continue, Answer, To, local
    <3>2. QED
      BY <1>4, <2>3, <2>4, <3>1 DEF OnItsWay
  <2>10. ASSUME CheckMember(d) \/ ReadCache(d) \/ ReadCacheFails(d) \/ CreateRow(d) \/ Duplicate(d)
                \/ FindRow(d)
         PROVE  FALSE
    BY <1>4, <2>4, <2>10 DEF OnItsWay, CheckMember, ReadCache, ReadCacheFails, CreateRow, Duplicate,
      FindRow
  <2>11. ASSUME (\E q \in Req : ExpireCache(q) \/ WriterPersists(q)) \/ UNCHANGED vars PROVE Goal
    BY <2>5, <2>11 DEF ExpireCache, WriterPersists, local, vars
  <2>12. QED
    BY <2>6, <2>7, <2>8, <2>9, <2>10, <2>11 DEF Next, CreateMessage
<1>5. QED
  BY <1>3, <1>4

(* A call falls silent by a failure of its own, or its death.                *)
LEMMA WhoFallsSilent ==
  ASSUME RestAssumption, DbTyped, CallsTyped, MakersAreOnTheirWay, [Next]_vars
  PROVE  \/ Silent' \subseteq Silent /\ faults' + crashes' >= faults + crashes
         \/ \E c \in Call : /\ Silent' \subseteq Silent \cup {c}
                           /\ faults' + crashes' = faults + crashes + 1
<1> DEFINE Goal == \/ Silent' \subseteq Silent /\ faults' + crashes' >= faults + crashes
                   \/ \E c \in Call : /\ Silent' \subseteq Silent \cup {c}
                                     /\ faults' + crashes' = faults + crashes + 1
<1>0. /\ pc \in [Call -> PCs] /\ published \in [Req -> Nat] /\ faults \in Nat /\ crashes \in Nat
      /\ \A c \in Call : ReqOf[c] \in Req
  BY DEF CallsTyped, RestAssumption
<1>1. ASSUME NEW q \in Req PROVE published'[q] \in Nat /\ published'[q] >= published[q]
  BY <1>0, WhoAnnounces DEF Announces
<1>2. ASSUME NEW d \in Call, d \in Silent', pc'[d] = pc[d] PROVE d \in Silent
  <2>1. message'[ReqOf[d]].maker = d /\ pc[d] \in {"done", "error"} /\ published'[ReqOf[d]] = 0
    BY <1>2 DEF Silent
  <2>2. message[ReqOf[d]].maker = d
    BY <1>2, <2>1, HowToBeAMaker
  <2>3. published[ReqOf[d]] = 0
    BY <1>0, <1>1, <2>1
  <2>4. QED
    BY <2>1, <2>2, <2>3 DEF Silent
<1>3. ASSUME NEW c \in Call, CreateMessage(c) \/ Crash(c) PROVE Silent' \subseteq Silent \cup {c}
  <2>1. \A d \in Call : d # c => pc'[d] = pc[d]
    BY <1>3, OthersRest
  <2>2. Silent' \subseteq Call
    BY DEF Silent
  <2>3. QED
    BY <1>2, <2>1, <2>2
<1>4. ASSUME NEW c \in Call,
             ReadCacheFails(c) \/ QueryFails(c) \/ RememberFails(c) \/ PublishFails(c) \/ Crash(c)
      PROVE  Goal
  <2>1. faults' + crashes' = faults + crashes + 1
    BY <1>0, <1>4 DEF ReadCacheFails, QueryFails, RememberFails, PublishFails, Crash, Fault
  <2>2. QED
    BY <1>3, <1>4, <2>1 DEF CreateMessage
<1>5. ASSUME NEW c \in Call,
             \/ CheckMember(c) \/ ReadCache(c) \/ CreateRow(c) \/ Duplicate(c) \/ FindRow(c)
             \/ Touch(c) \/ Remember(c) \/ Publish(c)
      PROVE  Goal
  <2>1. faults' = faults /\ crashes' = crashes
    BY <1>5 DEF CheckMember, ReadCache, CreateRow, Duplicate, FindRow, Touch, Remember, Publish
  <2>2. OnItsWay(c) /\ ReqOf[c] \in Req
    BY <1>0 DEF MakersAreOnTheirWay
  <2>3. c \notin Silent'
    <3>1. CASE CheckMember(c) \/ CreateRow(c) \/ Duplicate(c) \/ FindRow(c) \/ Touch(c)
      <4>1. pc'[c] \notin {"done", "error"}
        BY <1>0, <3>1 DEF CheckMember, CreateRow, Duplicate, FindRow, Touch, To
      <4>2. QED
        BY <4>1 DEF Silent
    <3>2. CASE ReadCache(c)
      BY <2>2, <3>2 DEF ReadCache, OnItsWay, Silent, db
    <3>3. CASE Remember(c)
      <4>1. /\ message' = message /\ pc[c] = "remember"
            /\ c \in fresh => pc'[c] = "publish"
        BY <1>0, <3>3 DEF Remember, Continue, Publishes, To, db
      <4>2. QED
        BY <2>2, <4>1 DEF OnItsWay, Silent
    <3>4. CASE Publish(c)
      <4>1. published'[ReqOf[c]] = published[ReqOf[c]] + 1
        BY <1>0, <3>4 DEF Publish
      <4>2. published'[ReqOf[c]] # 0
        BY <1>0, <4>1
      <4>3. QED
        BY <4>2 DEF Silent
    <3>5. QED
      BY <1>5, <3>1, <3>2, <3>3, <3>4
  <2>4. Silent' \subseteq Silent
    BY <1>3, <1>5, <2>3 DEF CreateMessage
  <2>5. QED
    BY <1>0, <2>1, <2>4
<1>6. ASSUME (\E q \in Req : ExpireCache(q) \/ WriterPersists(q)) \/ UNCHANGED vars PROVE Goal
  <2>1. pc' = pc /\ faults' = faults /\ crashes' = crashes
    BY <1>6 DEF ExpireCache, WriterPersists, vars
  <2>2. Silent' \subseteq Silent
    <3>1. Silent' \subseteq Call
      BY DEF Silent
    <3>2. QED
      BY <1>2, <2>1, <3>1
  <2>3. QED
    BY <1>0, <2>1, <2>2
<1>7. QED
  BY <1>4, <1>5, <1>6 DEF Next, CreateMessage

LEMMA SilenceKept ==
  ASSUME RestAssumption, DbTyped, CallsTyped, CallsTyped', MakersAreOnTheirWay, IsFiniteSet(Silent),
         Cardinality(Silent) <= faults + crashes, [Next]_vars
  PROVE  IsFiniteSet(Silent') /\ Cardinality(Silent') <= faults' + crashes'
<1>1. /\ faults \in Nat /\ crashes \in Nat /\ faults' \in Nat /\ crashes' \in Nat
      /\ Cardinality(Silent) \in Nat
  BY FS_CardinalityType DEF CallsTyped, RestAssumption
<1>2. \A n, m, f, g, h, k \in Nat : n <= m /\ m <= f + g /\ f + g <= h + k => n <= h + k
  OBVIOUS
<1>3. \A n, m, f, g, h, k \in Nat : n <= m + 1 /\ m <= f + g /\ f + g + 1 = h + k => n <= h + k
  OBVIOUS
<1>4. CASE Silent' \subseteq Silent /\ faults' + crashes' >= faults + crashes
  <2>1. /\ IsFiniteSet(Silent') /\ Cardinality(Silent') <= Cardinality(Silent)
        /\ Cardinality(Silent') \in Nat
    BY <1>4, FS_Subset, FS_CardinalityType
  <2>2. QED
    BY <1>1, <1>4, <1>2, <2>1
<1>5. ASSUME NEW c \in Call, Silent' \subseteq Silent \cup {c}, faults' + crashes' = faults + crashes + 1
      PROVE  IsFiniteSet(Silent') /\ Cardinality(Silent') <= faults' + crashes'
  <2>1. /\ IsFiniteSet(Silent \cup {c})
        /\ Cardinality(Silent \cup {c}) = IF c \in Silent THEN Cardinality(Silent) ELSE Cardinality(Silent) + 1
    BY FS_AddElement
  <2>2. /\ IsFiniteSet(Silent') /\ Cardinality(Silent') <= Cardinality(Silent \cup {c})
        /\ Cardinality(Silent') \in Nat
    BY <1>5, <2>1, FS_Subset, FS_CardinalityType
  <2>3. Cardinality(Silent') <= Cardinality(Silent) + 1
    <3>1. CASE c \in Silent
      <4>1. Cardinality(Silent') <= Cardinality(Silent)
        BY <2>1, <2>2, <3>1
      <4>2. QED
        BY <1>1, <2>2, <4>1
    <3>2. CASE c \notin Silent
      BY <2>1, <2>2, <3>2
    <3>3. QED
      BY <3>1, <3>2
  <2>4. QED
    BY <1>1, <1>5, <1>3, <2>2, <2>3
<1>6. QED
  BY <1>4, <1>5, WhoFallsSilent

(* Events follow the room, and only failures cost any.                       *)
LEMMA EventsKept ==
  ASSUME RestAssumption, DbTyped, CallsTyped, CallsTyped', CallsHoldTheRow, AnnouncedByItsMaker,
         MakersAreOnTheirWay, IsFiniteSet(Silent), EventsFollowTheRoom, [Next]_vars
  PROVE  MakersAreOnTheirWay' /\ IsFiniteSet(Silent') /\ EventsFollowTheRoom'
<1>1. \A q \in Req : published'[q] > 0 \/ q \in outbox' => lastAt' >= message'[q].at
  BY RoomsKept DEF EventsFollowTheRoom
<1>2. MakersAreOnTheirWay'
  BY MakersKept
<1>3. IsFiniteSet(Silent') /\ Cardinality(Silent') <= faults' + crashes'
  BY SilenceKept DEF EventsFollowTheRoom
<1>4. QED
  BY <1>1, <1>2, <1>3 DEF EventsFollowTheRoom, MakersAreOnTheirWay, OnItsWay

(* The next number goes to the one row an insert adds.                       *)
LEMMA SequencesKept ==
  ASSUME RestAssumption, DbTyped, ContiguousSequences, IsFiniteSet(Rows), nextSeq >= 1, RowsStay
  PROVE  ContiguousSequences' /\ IsFiniteSet(Rows') /\ nextSeq' >= 1
<1>1. CASE message' = message /\ nextSeq' = nextSeq
  BY <1>1 DEF ContiguousSequences, Rows, Stored
<1>2. CASE \E q \in Req : Inserts(q)
  <2>1. PICK q \in Req, maker \in Maker, t \in Time : Insert(q, maker, t)
    BY <1>2 DEF Inserts
  <2>2. /\ message[q] = NoMsg /\ message'[q] # NoMsg /\ message'[q].seq = nextSeq
        /\ \A p \in Req : p # q => message'[p] = message[p]
        /\ nextSeq' = nextSeq + 1 /\ nextSeq \in Nat
    <3>1. /\ message[q] = NoMsg /\ message'[q] # NoMsg
          /\ message'[q] = [maker |-> maker, seq |-> nextSeq, at |-> t]
          /\ \A p \in Req : p # q => message'[p] = message[p]
          /\ nextSeq' = nextSeq + 1
      BY <2>1, InsertAdds
    <3>2. QED
      BY <3>1 DEF DbTyped
  <2>3. q \notin Rows /\ Rows' = Rows \cup {q}
    BY <2>2 DEF Rows, Stored
  <2>4. /\ {message[p].seq : p \in Rows} = 1..(nextSeq - 1)
        /\ Cardinality(Rows) = nextSeq - 1
    BY DEF ContiguousSequences, Rows
  <2>5. {message'[p].seq : p \in Rows'} = {message[p].seq : p \in Rows} \cup {nextSeq}
    <3>1. \A p \in Rows : message'[p].seq = message[p].seq
      BY <2>2, <2>3 DEF Rows
    <3>2. QED
      BY <2>2, <2>3, <3>1
  <2>6. 1..(nextSeq' - 1) = 1..(nextSeq - 1) \cup {nextSeq}
    BY <2>2
  <2>7. IsFiniteSet(Rows') /\ Cardinality(Rows') = Cardinality(Rows) + 1
    BY <2>3, FS_AddElement
  <2>8. nextSeq' >= 1 /\ Cardinality(Rows') = nextSeq' - 1
    BY <2>2, <2>4, <2>7
  <2>9. QED
    BY <2>4, <2>5, <2>6, <2>7, <2>8 DEF ContiguousSequences, Rows
<1>3. QED
  BY <1>1, <1>2 DEF RowsStay

-----------------------------------------------------------------------------
LEMMA InvariantInit == RestAssumption /\ Init => Invariant
<1> SUFFICES ASSUME RestAssumption, Init PROVE Invariant
  OBVIOUS
<1>1. /\ NoMsg \in {NoMsg} \cup Row /\ NoMsg.maker = None
      /\ MaxTime \in Nat /\ MaxFaults \in Nat /\ MaxCrashes \in Nat
  BY DEF RestAssumption, NoMsg
<1>2. DbTyped /\ CallsTyped
  BY <1>1 DEF Init, DbTyped, CallsTyped, PCs
<1>3. OutsidersAreRefused
  BY DEF Init, OutsidersAreRefused
<1>4. CallsHoldTheRow
  BY DEF Init, CallsHoldTheRow, HoldsTheRow
<1>5. AnnouncedByItsMaker /\ OneAnnouncement
  BY DEF Init, AnnouncedByItsMaker, OneAnnouncement
<1>6. AnswersAgree
  BY DEF Init, AnswersAgree, RestAssumption
<1>7. Rows = {} /\ nextSeq = 1
  BY DEF Init, Rows, Stored
<1>8. IsFiniteSet(Rows) /\ Cardinality(Rows) = 0
  BY <1>7, FS_EmptySet
<1>9. {message[q].seq : q \in Rows} = 1..(nextSeq - 1)
  BY <1>7
<1>10. ContiguousSequences
  BY <1>7, <1>8, <1>9 DEF ContiguousSequences, Rows
<1>11. MakersAreOnTheirWay /\ Silent = {}
  <2>1. \A c \in Call : message[ReqOf[c]].maker # c
    BY <1>1 DEF Init, RestAssumption
  <2>2. QED
    BY <2>1 DEF MakersAreOnTheirWay, OnItsWay, Silent
<1>12. IsFiniteSet(Silent) /\ Cardinality(Silent) <= faults + crashes
  BY <1>11, FS_EmptySet DEF Init
<1>13. EventsFollowTheRoom
  BY <1>11, <1>12 DEF Init, EventsFollowTheRoom, MakersAreOnTheirWay, OnItsWay
<1>14. QED
  BY <1>2, <1>3, <1>4, <1>5, <1>6, <1>7, <1>8, <1>10, <1>11, <1>12, <1>13 DEF Invariant

LEMMA InvariantStep == RestAssumption /\ Invariant /\ [Next]_vars => Invariant'
<1> SUFFICES ASSUME RestAssumption, Invariant, [Next]_vars PROVE Invariant'
  OBVIOUS
<1>1. RowsStay
  BY TablesStep DEF Invariant
<1>2. DbTyped'
  BY <1>1, StoredStays DEF Invariant
<1>3. CallsTyped' /\ OutsidersAreRefused'
  BY CallsKept DEF Invariant
<1>4. CallsHoldTheRow'
  BY HoldingKept DEF Invariant
<1>5. AnnouncedByItsMaker'
  BY AnnouncedKept DEF Invariant
<1>6. /\ OneAnnouncement' /\ AnswersAgree'
      /\ MakersAreOnTheirWay' /\ IsFiniteSet(Silent') /\ EventsFollowTheRoom'
  BY <1>3, <1>5, AnnouncementsKept, EventsKept, AnswersKept DEF Invariant
<1>7. ContiguousSequences' /\ IsFiniteSet(Rows') /\ nextSeq' >= 1
  BY <1>1, SequencesKept DEF Invariant
<1>8. QED
  BY <1>2, <1>3, <1>4, <1>5, <1>6, <1>7 DEF Invariant

(* Every reachable state is one the whole invariant describes.               *)
THEOREM Invariance == ASSUME RestAssumption PROVE Spec => []Invariant
<1>1. Init => Invariant
  BY InvariantInit
<1>2. Invariant /\ [Next]_vars => Invariant'
  BY InvariantStep
<1>3. QED
  BY <1>1, <1>2, PTL DEF Spec

(* The tables, the cache and the calls of RestMessages keep their types, and *)
(* a stranger's call gets no further than the check of the membership.       *)
THEOREM TypeCorrect == ASSUME RestAssumption PROVE Spec => []TypeOK
<1>1. Invariant => TypeOK
  BY TypesAreThese DEF Invariant
<1>2. QED
  BY <1>1, Invariance, PTL

(* createMessage and the writer number the messages of a room without a gap, *)
(* whatever rolls back, fails or is tried again.                             *)
THEOREM SequencesAreContiguous == ASSUME RestAssumption PROVE Spec => []ContiguousSequences
<1>1. Invariant => ContiguousSequences
  BY DEF Invariant
<1>2. QED
  BY <1>1, Invariance, PTL

(* All calls of a request are answered with the one row there is, from the   *)
(* cache, by the insert or by looking for it, whichever of REST and the      *)
(* writer was first.                                                          *)
THEOREM AnswersAlwaysAgree == ASSUME RestAssumption PROVE Spec => []AnswersAgree
<1>1. Invariant => AnswersAgree
  BY DEF Invariant
<1>2. QED
  BY <1>1, Invariance, PTL

(* A message is announced by chat-service at most once, and never if the     *)
(* writer's outbox announces it.                                              *)
THEOREM AnnouncedOnce == ASSUME RestAssumption PROVE Spec => []OneAnnouncement
<1>1. Invariant => OneAnnouncement
  BY DEF Invariant
<1>2. QED
  BY <1>1, Invariance, PTL

(* Room.lastMessageAt covers every message whose event is out, and no more   *)
(* touches and events are lost than calls failed or died.                    *)
THEOREM EventsAlwaysFollowTheRoom == ASSUME RestAssumption PROVE Spec => []EventsFollowTheRoom
<1>1. Invariant => EventsFollowTheRoom
  BY DEF Invariant
<1>2. QED
  BY <1>1, Invariance, PTL

(* A row of Message is never changed, given another number or removed.       *)
THEOREM RowsAreFinal ==
  ASSUME RestAssumption
  PROVE  Spec => [][\A q \in Req : Stored(q) => message'[q] = message[q]]_vars
<1>1. Invariant /\ [Next]_vars => [\A q \in Req : Stored(q) => message'[q] = message[q]]_vars
  BY TablesStep, StoredStays DEF Invariant
<1>2. QED
  BY <1>1, Invariance, PTL DEF Spec
=============================================================================
