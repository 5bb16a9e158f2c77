------------------------------ MODULE Presence ------------------------------
(***************************************************************************)
(* The presence of one user in Redis (packages/shared-redis/src/           *)
(* presence.ts) as the realtime servers drive it (realtime.server.ts).     *)
(*                                                                         *)
(* A connection of the user has a key that expires, presence:conn:<id>,    *)
(* and is a member of a set that does not, presence:user:<id>:connections. *)
(* The user is online when some member of the set has its key.  Registering*)
(* and unregistering a connection, and asking whether the user is online,  *)
(* are sequences of Redis calls with an await between any two of them, so  *)
(* the calls of all connections, on all servers, interleave.  The keys of  *)
(* different users are disjoint: one user is the whole of it.              *)
(*                                                                         *)
(* Each connection may be on a server of its own, which makes the crash of *)
(* a server the loss of single connections.  Time is in Expire alone.      *)
(***************************************************************************)
EXTENDS Naturals

CONSTANTS
  Conn,        \* connections the user opens
  Asker,       \* other users' connections that ask whether this user is online
  MaxFaults,   \* Redis calls that fail, and keys that expire while still refreshed
  MaxCrashes   \* connections lost with their server, without a close event

ASSUME PresenceAssumption == MaxFaults \in Nat /\ MaxCrashes \in Nat

Register == {"register"} \X Conn
Unregister == {"unregister"} \X Conn
Ask == {"ask"} \X Asker
Task == Register \cup Unregister \cup Ask

VARIABLES
  conn,     \* the socket of each connection
  keys,     \* connections whose presence:conn:<id> exists
  members,  \* presence:user:<id>:connections
  pc,       \* the call each task is about to make
  todo,     \* isUserOnline: members whose key is still to be read
  drop,     \* isUserOnline: members found without a key, still to be removed
  online,   \* isUserOnline: the answer so far
  last,     \* the last event published on presence:events
  faults,
  crashes,
  added,    \* history: connections whose sAdd was carried out
  base      \* history: the live connections when the scan of a task began

vars == <<conn, keys, members, pc, todo, drop, online, last, faults, crashes,
          added, base>>
scan == <<todo, drop, online, base>>

ConnState == {"new", "open", "closed", "dead"}
Stage == {"idle", "ready", "members", "scanning", "set", "add", "del", "remove",
          "publish", "done", "failed"}

(* An open connection whose registration reached the set, its key not       *)
(* expired: it has to count.                                                *)
Live == {c \in added : conn[c] = "open" /\ c \in keys}

Init ==
  /\ conn = [c \in Conn |-> "new"]
  /\ keys = {}
  /\ members = {}
  /\ pc = [t \in Task |-> "idle"]
  /\ todo = [t \in Task |-> {}]
  /\ drop = [t \in Task |-> {}]
  /\ online = [t \in Task |-> FALSE]
  /\ base = [t \in Task |-> {}]
  /\ last = "none"
  /\ faults = 0
  /\ crashes = 0
  /\ added = {}

-----------------------------------------------------------------------------
(* How a call ends.  A call that was carried out may still be reported as  *)
(* failed, and every caller catches: the task gives up.                     *)

Reply(t, next) ==
  \/ /\ pc' = [pc EXCEPT ![t] = next]
     /\ UNCHANGED faults
  \/ /\ faults < MaxFaults
     /\ faults' = faults + 1
     /\ pc' = [pc EXCEPT ![t] = "failed"]

CallFails(t) ==
  /\ pc[t] \in {"members", "scanning", "set", "add", "del", "remove", "publish"}
  /\ faults < MaxFaults
  /\ faults' = faults + 1
  /\ pc' = [pc EXCEPT ![t] = "failed"]
  /\ UNCHANGED <<conn, keys, members, scan, last, crashes, added>>

-----------------------------------------------------------------------------
(* isUserOnline: read the set, then read the key of every member at the     *)
(* same time and remove the members without one.  The reads of a scan that  *)
(* failed go on: Promise.all rejects, it does not cancel.                    *)
ReadMembers(t) ==
  /\ pc[t] = "members"
  /\ todo' = [todo EXCEPT ![t] = members]
  /\ drop' = [drop EXCEPT ![t] = {}]
  /\ online' = [online EXCEPT ![t] = FALSE]
  /\ base' = [base EXCEPT ![t] = Live]
  /\ pc' = [pc EXCEPT ![t] = "scanning"]
  /\ UNCHANGED <<conn, keys, members, last, faults, crashes, added>>

ReadKey(t, c) ==
  /\ c \in todo[t]
  /\ todo' = [todo EXCEPT ![t] = @ \ {c}]
  /\ IF c \in keys
     THEN online' = [online EXCEPT ![t] = TRUE] /\ UNCHANGED drop
     ELSE drop' = [drop EXCEPT ![t] = @ \cup {c}] /\ UNCHANGED online
  /\ UNCHANGED <<conn, keys, members, pc, base, last, faults, crashes, added>>

DropMember(t, c) ==
  /\ c \in drop[t]
  /\ drop' = [drop EXCEPT ![t] = @ \ {c}]
  /\ members' = members \ {c}
  /\ UNCHANGED <<conn, keys, pc, todo, online, base, last, faults, crashes, added>>

(* What each caller does with the answer.                                    *)
AfterScan(t) ==
  CASE t \in Register -> "set"
    [] t \in Unregister -> IF online[t] THEN "done" ELSE "publish"
    [] OTHER -> "done"

(* A bug: the reads are not awaited.                                         *)
BrokenAnswer(t) ==
  /\ pc[t] = "scanning"
  /\ pc' = [pc EXCEPT ![t] = AfterScan(t)]
  /\ UNCHANGED <<conn, keys, members, scan, last, faults, crashes, added>>

Answer(t) ==
  /\ pc[t] = "scanning"
  /\ todo[t] = {} /\ drop[t] = {}
  /\ pc' = [pc EXCEPT ![t] = AfterScan(t)]
  /\ UNCHANGED <<conn, keys, members, scan, last, faults, crashes, added>>

-----------------------------------------------------------------------------
(* registerPresence of connection c.                                         *)

SetKey(c) ==
  /\ pc[<<"register", c>>] = "set"
  /\ keys' = keys \cup {c}
  /\ Reply(<<"register", c>>, "add")
  /\ UNCHANGED <<conn, members, scan, last, crashes, added>>

(* The event is published only if the user was offline before.               *)
AddMember(c) ==
  /\ pc[<<"register", c>>] = "add"
  /\ members' = members \cup {c}
  /\ added' = added \cup {c}
  /\ Reply(<<"register", c>>, IF online[<<"register", c>>] THEN "done" ELSE "publish")
  /\ UNCHANGED <<conn, keys, scan, last, crashes>>

PublishOnline(c) ==
  /\ pc[<<"register", c>>] = "publish"
  /\ last' = "online"
  /\ Reply(<<"register", c>>, "done")
  /\ UNCHANGED <<conn, keys, members, scan, crashes, added>>

-----------------------------------------------------------------------------
(* unregisterPresence of connection c.                                       *)

DeleteKey(c) ==
  /\ pc[<<"unregister", c>>] = "del"
  /\ keys' = keys \ {c}
  /\ Reply(<<"unregister", c>>, "remove")
  /\ UNCHANGED <<conn, members, scan, last, crashes, added>>

RemoveMember(c) ==
  /\ pc[<<"unregister", c>>] = "remove"
  /\ members' = members \ {c}
  /\ Reply(<<"unregister", c>>, "members")
  /\ UNCHANGED <<conn, keys, scan, last, crashes, added>>

PublishOffline(c) ==
  /\ pc[<<"unregister", c>>] = "publish"
  /\ last' = "offline"
  /\ Reply(<<"unregister", c>>, "done")
  /\ UNCHANGED <<conn, keys, members, scan, crashes, added>>

-----------------------------------------------------------------------------
(* The connection handler of the realtime server.                            *)

(* The handler registers the client and waits for its memberships.           *)
Connect(c) ==
  /\ conn[c] = "new"
  /\ conn' = [conn EXCEPT ![c] = "open"]
  /\ UNCHANGED <<keys, members, pc, scan, last, faults, crashes, added>>

(* After the memberships the handler looks whether the socket is still open, *)
(* asks for the presence of the other members, and then registers.           *)
CheckOpen(c) ==
  /\ conn[c] = "open"
  /\ pc[<<"register", c>>] = "idle"
  /\ pc' = [pc EXCEPT ![<<"register", c>>] = "ready"]
  /\ UNCHANGED <<conn, keys, members, scan, last, faults, crashes, added>>

(* It does not look again: the socket may have closed in the meantime.       *)
StartRegister(c) ==
  /\ pc[<<"register", c>>] = "ready"
  /\ conn[c] # "dead"
  /\ pc' = [pc EXCEPT ![<<"register", c>>] = "members"]
  /\ UNCHANGED <<conn, keys, members, scan, last, faults, crashes, added>>

Close(c) ==
  /\ conn[c] = "open"
  /\ conn' = [conn EXCEPT ![c] = "closed"]
  /\ pc' = [pc EXCEPT ![<<"unregister", c>>] = "del"]
  /\ UNCHANGED <<keys, members, scan, last, faults, crashes, added>>

(* The server of c dies, and with it what it was doing for c.                *)
Crash(c) ==
  /\ conn[c] \in {"open", "closed"}
  /\ crashes < MaxCrashes
  /\ crashes' = crashes + 1
  /\ conn' = [conn EXCEPT ![c] = "dead"]
  /\ LET tasks == {<<"register", c>>, <<"unregister", c>>}
     IN  /\ pc' = [t \in Task |-> IF t \in tasks THEN "failed" ELSE pc[t]]
         /\ todo' = [t \in Task |-> IF t \in tasks THEN {} ELSE todo[t]]
         /\ drop' = [t \in Task |-> IF t \in tasks THEN {} ELSE drop[t]]
  /\ UNCHANGED <<keys, members, online, base, last, faults, added>>

StartAsk(a) ==
  /\ pc[<<"ask", a>>] = "idle"
  /\ pc' = [pc EXCEPT ![<<"ask", a>>] = "members"]
  /\ UNCHANGED <<conn, keys, members, scan, last, faults, crashes, added>>

-----------------------------------------------------------------------------
(* A bug: the refresh timer is not cleared when the socket closes.           *)
BrokenRefreshed(c) == conn[c] \in {"open", "closed"}

(* The timer of an open connection extends its key every ten seconds, and a *)
(* ping does too; the close handler clears the timer.                        *)
Refreshed(c) == conn[c] = "open"

(* A key nobody refreshes expires after thirty seconds.  One that is being   *)
(* refreshed expires if the refreshes fail for so long.                      *)
Expire(c) ==
  /\ c \in keys
  /\ keys' = keys \ {c}
  /\ IF Refreshed(c)
     THEN faults < MaxFaults /\ faults' = faults + 1
     ELSE UNCHANGED faults
  /\ UNCHANGED <<conn, members, pc, scan, last, crashes, added>>

(* The expiry that is bound to come.                                         *)
Lapse(c) == ~Refreshed(c) /\ Expire(c)

-----------------------------------------------------------------------------
(* A bug: the member is added before its key is set.                         *)
BrokenOrder(c) ==
  \/ /\ pc[<<"register", c>>] = "set"
     /\ members' = members \cup {c}
     /\ added' = added \cup {c}
     /\ Reply(<<"register", c>>, "add")
     /\ UNCHANGED <<conn, keys, scan, last, crashes>>
  \/ /\ pc[<<"register", c>>] = "add"
     /\ keys' = keys \cup {c}
     /\ Reply(<<"register", c>>,
              IF online[<<"register", c>>] THEN "done" ELSE "publish")
     /\ UNCHANGED <<conn, members, scan, last, crashes, added>>

SetAndAdd(c) == SetKey(c) \/ AddMember(c)

Scan(t) ==
  \/ ReadMembers(t)
  \/ \E c \in Conn : ReadKey(t, c) \/ DropMember(t, c)
  \/ Answer(t)

Calls(c) ==
  SetAndAdd(c) \/ PublishOnline(c) \/ DeleteKey(c) \/ RemoveMember(c) \/ PublishOffline(c)

Handler(c) == Connect(c) \/ CheckOpen(c) \/ StartRegister(c) \/ Close(c) \/ Crash(c)

Next ==
  \/ \E t \in Task : Scan(t) \/ CallFails(t)
  \/ \E c \in Conn : Calls(c) \/ Handler(c) \/ Expire(c)
  \/ \E a \in Asker : StartAsk(a)

Spec == Init /\ [][Next]_vars

-----------------------------------------------------------------------------
TypeOK ==
  /\ conn \in [Conn -> ConnState]
  /\ keys \subseteq Conn
  /\ members \subseteq Conn
  /\ pc \in [Task -> Stage]
  /\ todo \in [Task -> SUBSET Conn]
  /\ drop \in [Task -> SUBSET Conn]
  /\ online \in [Task -> BOOLEAN]
  /\ base \in [Task -> SUBSET Conn]
  /\ last \in {"none", "online", "offline"}
  /\ faults \in 0..MaxFaults
  /\ crashes \in 0..MaxCrashes
  /\ added \subseteq Conn

(* A live connection stays in the user's set, although every scan of every   *)
(* server removes the members it finds without a key and acts on that read   *)
(* after an await (presence.ts:80-82).                                        *)
LiveIsListed == Live \subseteq members

(* A scan that answers "offline" - after which an offline event goes out, or *)
(* a client is told nothing - overlooked no connection that was live from    *)
(* before the scan until now.                                                 *)
Answered(t) == pc[t] \in {"set", "add", "publish", "done"}
OfflineIsHonest ==
  \A t \in Task : Answered(t) /\ ~online[t] => base[t] \cap Live = {}

(* Nothing is set for a connection that is gone beyond the life of its key: *)
(* a registration that overtakes its own close leaves a key behind, and the  *)
(* time to live is all that removes it (presence.ts:36, realtime.server.ts:  *)
(* 308).                                                                      *)
GhostsExpire ==
  \A c \in Conn : conn[c] \in {"closed", "dead"} ~> [](c \notin keys)

(* When all calls are done, the last event says what is the case: the user's *)
(* status is shown in real time (spec.md:25).  The code does not keep this.   *)
Quiet == \A t \in Task : pc[t] \in {"idle", "done", "failed"}
LastEventIsTrue == Quiet /\ last # "none" => (last = "online" <=> Live # {})

-----------------------------------------------------------------------------
(* What makes the two inductive.  Only the registration of c sets the key of *)
(* c, it does so before anything can list c, and it does so once: a key that *)
(* a scan found missing does not come back.                                   *)
PastSet(c) == pc[<<"register", c>>] \in {"add", "publish", "done", "failed"}

ListedAfterSet ==
  /\ \A c \in keys \cup members \cup added : PastSet(c)
  /\ \A t \in Task : \A c \in todo[t] \cup drop[t] : PastSet(c)

DroppedAreGone == \A t \in Task : drop[t] \cap keys = {}

(* Registering follows the connection, unregistering follows its end.        *)
Lifecycle ==
  \A c \in Conn :
    /\ pc[<<"register", c>>] # "idle" => conn[c] # "new"
    /\ pc[<<"unregister", c>>] # "idle" => conn[c] \in {"closed", "dead"}

(* Halfway through a scan, a connection it must not overlook has been found  *)
(* or is still to be read.                                                    *)
ScanCovers ==
  \A t \in Task :
    /\ base[t] \subseteq added
    /\ pc[t] = "scanning" => \A c \in base[t] \cap Live : online[t] \/ c \in todo[t]

IInv ==
  /\ TypeOK
  /\ ListedAfterSet
  /\ DroppedAreGone
  /\ Lifecycle
  /\ ScanCovers
  /\ LiveIsListed
  /\ OfflineIsHonest
=============================================================================
