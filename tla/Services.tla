------------------------------- MODULE Services -------------------------------
(***************************************************************************)
(* The components that are small and share no state with each other, in    *)
(* one specification: Chats and, as instances, six more.  A behaviour is   *)
(* that of one of them, chosen at the start; the others rest in their      *)
(* initial state.  As they share nothing, letting them take turns would    *)
(* only multiply their states.                                             *)
(***************************************************************************)
EXTENDS Chats

CONSTANTS
  MaxCrashes,
  \* RestMessages, with the calls of Chats
  Req, Outsider, Buffered, ReqOf, MaxCreatedAt, Writer, None,
  \* History, of the messages of Req
  Reader, Member, PageLimit, Default, MaxPage,
  \* Accounts and RateLimit, with the same calls
  Client, AccountRequest, MayAccount, Missing, RestLimit,
  \* LocalRateLimit
  Key, SocketLimit, Length, MaxEntries, Every, MaxChecks,
  \* PresenceFeed
  Conn, Asker, MaxActors

VARIABLES
  part,
  hAt, hStage, limit, cursor, before, pages, began, from,
  message, nextSeq, roomAt, persisted, outbox, cache, pc, msg, fresh, answered, published,
  restFaults, restCrashes,
  users, display, aRequest, token, aStage, aAnswer, aFaults, known,
  count, expires, rStage, rFaults, rCrashes, window, counted,
  windows, lClock, checks, granted, denied, checked,
  conn, keys, members, fPc, todo, drop, online, last, fFaults, fCrashes, added, base,
  seat, inflight, shown

historyVars == <<hAt, hStage, limit, cursor, before, pages, began, from>>
restVars == <<message, nextSeq, roomAt, persisted, outbox, cache, pc, msg, fresh, answered,
              published, restFaults, restCrashes>>
accountVars == <<users, display, aRequest, token, aStage, aAnswer, aFaults, known>>
rateVars == <<count, expires, rStage, rFaults, rCrashes, window, counted>>
localVars == <<windows, lClock, checks, granted, denied, checked>>
feedVars == <<conn, keys, members, fPc, todo, drop, online, last, fFaults, fCrashes, added, base,
              seat, inflight, shown>>
allVars == <<part, restVars, historyVars, chatVars, accountVars, rateVars, localVars, feedVars>>

-----------------------------------------------------------------------------
P == INSTANCE RestMessages WITH
       MaxTime <- MaxCreatedAt,
       lastAt <- roomAt, faults <- restFaults, crashes <- restCrashes

H == INSTANCE History WITH
       Msg <- Req, Limit <- PageLimit, MaxTime <- MaxCreatedAt,
       at <- hAt, stage <- hStage

A == INSTANCE Accounts WITH
       Call <- Client, May <- MayAccount, Request <- AccountRequest,
       request <- aRequest, stage <- aStage, answer <- aAnswer, faults <- aFaults

R == INSTANCE RateLimit WITH
       Call <- Client, Limit <- RestLimit,
       stage <- rStage, faults <- rFaults, crashes <- rCrashes

L == INSTANCE LocalRateLimit WITH
       Limit <- SocketLimit, clock <- lClock

F == INSTANCE PresenceFeed WITH
       pc <- fPc, faults <- fFaults, crashes <- fCrashes

ASSUME ServicesAssumption ==
  /\ ChatsAssumption /\ P!RestAssumption /\ H!HistoryAssumption /\ A!AccountsAssumption
  /\ R!RateLimitAssumption /\ L!LocalRateLimitAssumption /\ F!FeedAssumption
  /\ F!PresenceAssumption

-----------------------------------------------------------------------------
Parts == {"rest", "history", "chats", "accounts", "rate", "local", "feed"}

ServicesInit ==
  /\ part \in Parts
  /\ ChatsInit /\ P!Init /\ H!Init /\ A!AccountsInit /\ R!RateInit /\ L!LocalInit /\ F!FeedInit

RestPart == part = "rest" /\ P!Next
  /\ UNCHANGED <<part, historyVars, chatVars, accountVars, rateVars, localVars, feedVars>>
HistoryPart == part = "history" /\ H!Next
  /\ UNCHANGED <<part, restVars, chatVars, accountVars, rateVars, localVars, feedVars>>
ChatsPart == part = "chats" /\ ChatsNext
  /\ UNCHANGED <<part, restVars, historyVars, accountVars, rateVars, localVars, feedVars>>
AccountsPart == part = "accounts" /\ A!AccountsNext
  /\ UNCHANGED <<part, restVars, historyVars, chatVars, rateVars, localVars, feedVars>>
RatePart == part = "rate" /\ R!RateNext
  /\ UNCHANGED <<part, restVars, historyVars, chatVars, accountVars, localVars, feedVars>>
LocalPart == part = "local" /\ L!LocalNext
  /\ UNCHANGED <<part, restVars, historyVars, chatVars, accountVars, rateVars, feedVars>>
FeedPart == part = "feed" /\ F!FeedNext
  /\ UNCHANGED <<part, restVars, historyVars, chatVars, accountVars, rateVars, localVars>>

ServicesNext ==
  \/ RestPart \/ HistoryPart \/ ChatsPart \/ AccountsPart \/ RatePart \/ LocalPart \/ FeedPart

(* The steps that are fair in a part cannot be taken in its initial state:   *)
(* the parts that rest owe nothing.                                          *)
ServicesSpec == ServicesInit /\ [][ServicesNext]_allVars /\ R!RateFairness /\ F!FeedFairness

-----------------------------------------------------------------------------
(* The types of all parts.                                                   *)
TypesOK ==
  /\ ChatsTypeOK /\ P!TypeOK /\ H!TypeOK /\ A!AccountsTypeOK /\ R!RateTypeOK /\ L!LocalTypeOK
  /\ F!TypeOK /\ F!FeedTypeOK

(* chats.repository.ts:155: scrolling back shows everything once, but ties.  *)
ScrollIsExact == H!ScrollIsExact

(* chats.repository.ts:182: the sequence of a room has no gaps.              *)
ContiguousSequences == P!ContiguousSequences

(* chats.service.ts:335: all calls of a request are answered alike.          *)
AnswersAgree == P!AnswersAgree

(* message-events.ts:9: a request is announced at most once.                 *)
OneAnnouncement == P!OneAnnouncement

(* chats.service.ts:351: what is announced the room has been touched by.     *)
EventsFollowTheRoom == P!EventsFollowTheRoom

(* auth.service.ts:58: a token names the user its bearer proved to be.       *)
TokensNameTheirUser == A!TokensNameTheirUser

(* rate-limit.ts:23: a window lets its limit pass.                           *)
RedisLimitHolds == R!RedisLimitHolds

(* rate-limit.ts:25: a window ends that was given a time to live.            *)
NotRefusedForEver == R!NotRefusedForEver

(* realtime-rate-limit.ts:92: sweeping the map neither helps nor harms.      *)
LocalLimitHolds == L!LocalLimitHolds

(* presence.ts:36: what a registration left behind expires.                  *)
GhostsExpire == F!GhostsExpire

(* realtime.server.ts:344: whoever stays connected is shown who is online.   *)
WatchersLearn == F!WatchersLearn
=============================================================================
