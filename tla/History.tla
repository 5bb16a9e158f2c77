------------------------------- MODULE History -------------------------------
(***************************************************************************)
(* GET /chats/:id/messages: getMessages of chat-service (chats.service.ts, *)
(* chats.repository.ts), as a reader uses it who scrolls back through a    *)
(* room, while messages of the room are being committed.                   *)
(*                                                                         *)
(* A page is the newest messages that are older than the message named by  *)
(* before_message_id; the reader asks for the next page with the oldest    *)
(* message it was shown.  The createdAt of a message is the time at which  *)
(* it was accepted, which a server's clock gave it before it was committed,*)
(* so a message may appear anywhere in the past, and two may have the same.*)
(*                                                                         *)
(* The second query of getMessages, for PENDING writes, finds nothing: a   *)
(* MessageWrite is inserted and leaves PENDING in one transaction.         *)
(***************************************************************************)
EXTENDS Naturals, SequencesExt

CONSTANTS
  Msg,        \* messages of the room, stored or in the write buffer
  Reader,
  Member,     \* the readers who are members of the room
  Limit,      \* the limits readers ask for
  Default,    \* the page size of a request without a limit (50)
  MaxPage,    \* the largest page (100)
  MaxTime     \* bound of createdAt

HistoryAssumption ==
  /\ Member \subseteq Reader
  /\ Default \in Nat \ {0} /\ MaxPage \in Nat \ {0} /\ MaxTime \in Nat \ {0}
  /\ Limit \subseteq Nat

VARIABLES
  at,        \* createdAt of each message, 0 while it is not committed
  stage,     \* what each reader's request awaits
  limit,     \* the limit of the scroll
  cursor,    \* before_message_id: a set of one message or none
  before,    \* the createdAt found for it; 0: none
  pages,     \* the pages a reader has got
  began,     \* history: the messages committed when the scroll began
  from       \* history: the createdAt the first page was asked to be older than

scroll == <<limit, cursor, began>>
vars == <<at, stage, scroll, before, pages, from>>

Time == 1..MaxTime
Committed == {m \in Msg : at[m] # 0}

Init ==
  /\ at = [m \in Msg |-> 0]
  /\ stage = [r \in Reader |-> "idle"]
  /\ limit = [r \in Reader |-> 0]
  /\ cursor = [r \in Reader |-> {}]
  /\ before = [r \in Reader |-> 0]
  /\ pages = [r \in Reader |-> << >>]
  /\ began = [r \in Reader |-> {}]
  /\ from = [r \in Reader |-> 0]

To(r, s) == stage' = [stage EXCEPT ![r] = s]

-----------------------------------------------------------------------------
(* No limit, zero, and what is no number give the default.                   *)
PageSize(n) == LET wanted == IF n = 0 THEN Default ELSE n
               IN  IF wanted < MaxPage THEN wanted ELSE MaxPage

(* A bug: the page starts with the messages of the cursor's time.            *)
BrokenOlder(S, t) == {m \in S : t # 0 => at[m] <= t}

(* createdAt < before, if there is a before.                                 *)
Older(S, t) == {m \in S : t # 0 => at[m] < t}

(* ORDER BY createdAt DESC with a LIMIT: which of the messages of one time   *)
(* are the last ones on the page is left to the database.                    *)
Newest(S, n) ==
  {P \in SUBSET S : /\ Cardinality(P) = (IF Cardinality(S) < n THEN Cardinality(S) ELSE n)
                    /\ \A m \in P, k \in S \ P : at[m] >= at[k]}

Oldest(P) == {m \in P : \A k \in P : at[m] <= at[k]}

-----------------------------------------------------------------------------
(* The writer, or a REST call, commits a message it accepted at t.           *)
Commit(m, t) ==
  /\ at[m] = 0
  /\ at' = [at EXCEPT ![m] = t]
  /\ UNCHANGED <<stage, scroll, before, pages, from>>

(* A reader begins at the newest message, or at one it knows: it may know a  *)
(* message from the answer to its own send, before the message is committed. *)
(* A bound of the model: readers share nothing, so one of them scrolls.      *)
Open(r, n, c) ==
  /\ \A q \in Reader : stage[q] = "idle"
  /\ limit' = [limit EXCEPT ![r] = n]
  /\ cursor' = [cursor EXCEPT ![r] = c]
  /\ began' = [began EXCEPT ![r] = Committed]
  /\ To(r, "member")
  /\ UNCHANGED <<at, before, pages, from>>

CheckMember(r) ==
  /\ stage[r] = "member"
  /\ To(r, IF r \in Member THEN "cursor" ELSE "forbidden")
  /\ UNCHANGED <<at, scroll, before, pages, from>>

(* The id of a message and of its MessageWrite are one id, and the two are   *)
(* committed together: findMessageCursor and findWriteCursor find both or    *)
(* neither.  An unknown cursor is no cursor.                                  *)
FindCursor(r) ==
  /\ stage[r] = "cursor"
  /\ LET t == IF cursor[r] = {} THEN 0 ELSE at[CHOOSE m \in cursor[r] : TRUE]
     IN  /\ before' = [before EXCEPT ![r] = t]
         /\ from' = [from EXCEPT ![r] = IF pages[r] = << >> THEN t ELSE @]
  /\ To(r, "query")
  /\ UNCHANGED <<at, scroll, pages>>

FindMessages(r) ==
  /\ stage[r] = "query"
  /\ \E P \in Newest(Older(Committed, before[r]), PageSize(limit[r])) :
       /\ pages' = [pages EXCEPT ![r] = Append(@, P)]
       /\ To(r, IF P = {} THEN "end" ELSE "page")
  /\ UNCHANGED <<at, scroll, before, from>>

(* The next request, with the last message of the page, until there is none. *)
ScrollBack(r) ==
  /\ stage[r] = "page"
  /\ \E m \in Oldest(Last(pages[r])) : cursor' = [cursor EXCEPT ![r] = {m}]
  /\ To(r, "member")
  /\ UNCHANGED <<at, limit, began, before, pages, from>>

GetMessages(r) == CheckMember(r) \/ FindCursor(r) \/ FindMessages(r)

Next ==
  \/ \E m \in Msg, t \in Time : Commit(m, t)
  \/ \E r \in Reader : GetMessages(r) \/ ScrollBack(r)
  \/ \E r \in Reader, n \in Limit, c \in {{}} \cup {{m} : m \in Msg} : Open(r, n, c)

Spec == Init /\ [][Next]_vars

-----------------------------------------------------------------------------
TypeOK ==
  /\ at \in [Msg -> 0..MaxTime]
  /\ stage \in [Reader -> {"idle", "member", "cursor", "query", "page", "end", "forbidden"}]
  /\ limit \in [Reader -> Limit \cup {0}]
  /\ before \in [Reader -> 0..MaxTime] /\ from \in [Reader -> 0..MaxTime]
  /\ \A r \in Reader :
       /\ cursor[r] \subseteq Msg /\ Cardinality(cursor[r]) <= 1
       /\ began[r] \subseteq Committed
       /\ \A i \in DOMAIN pages[r] : pages[r][i] \subseteq Committed

Shown(r) == UNION Range(pages[r])

(* What the scroll is about: what was there when it began, older than the    *)
(* message it started from.                                                   *)
Wanted(r) == {m \in began[r] : from[r] # 0 => at[m] < from[r]}

(* A message that has the createdAt of the last one on a page.               *)
TiedWithACursor(r, m) ==
  \E i \in DOMAIN pages[r] : \E k \in Oldest(pages[r][i]) : at[m] = at[k]

(* Scrolling back goes back, whatever is committed in the meantime: a page   *)
(* is older than all pages before it, so nothing is shown twice or out of    *)
(* order, and at its end the reader has been shown everything that was there *)
(* when it began, but for messages with the very createdAt of a page's last  *)
(* one (chats.repository.ts:155, chats.service.ts:275-280).                   *)
ScrollIsExact ==
  \A r \in Reader :
    /\ \A i, j \in DOMAIN pages[r] : i < j =>
         \A m \in pages[r][i], k \in pages[r][j] : at[k] < at[m]
    /\ stage[r] = "end" => \A m \in Wanted(r) : m \in Shown(r) \/ TiedWithACursor(r, m)

(* Users look at the whole history by scrolling (spec.md:16).  The code does *)
(* not keep this: of messages with one createdAt, those that did not fit on  *)
(* the page are on no page.                                                   *)
ScrollShowsEverything ==
  \A r \in Reader : stage[r] = "end" => Wanted(r) \subseteq Shown(r)
=============================================================================
