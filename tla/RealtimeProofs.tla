--------------------------- MODULE RealtimeProofs ---------------------------
(***************************************************************************)
(* What RealtimeServer keeps, for any sockets, users, rooms, frames and    *)
(* memberships.                                                            *)
(*                                                                         *)
(* Base is what every property needs: which sockets the server knows, how  *)
(* far each frame has come, and that rooms were read from RoomMember.      *)
(* Steps names the seven kinds of step there are, and the steps of frame   *)
(* handlers are brought to one form first, so that each property is shown  *)
(* once per kind and not once per action.                                  *)
(***************************************************************************)
EXTENDS RealtimeServer, TLAPS

CallPCs == {"idle", "limit", "lookup", "stranger", "index", "member", "publish", "stored",
            "failed", "done"}

Calls == [sock : Sock \cup {NoSock}, kind : {"none", "send", "typing"},
          room : Room \cup {NoRoom}, pc : CallPCs, tries : 0..(Attempts - 1)]

(* The sockets the server knows are those not yet closed; one it has not     *)
(* seen is nowhere; and a finished setup has indexed what it found.          *)
SocketsAreKnown ==
  \A s \in Sock :
    /\ s \in clients <=> sock[s] \in {"open", "closing"}
    /\ sock[s] = "new" =>
         /\ rooms[s] = {} /\ found[s] = {} /\ setup[s] = "none"
         /\ \A r \in Room : s \notin index[r]
    /\ \A k \in Call : s \in owed[k] => setup[s] \in {"done", "failed"}
    /\ setup[s] = "done" /\ sock[s] = "open" => found[s] \subseteq rooms[s]

(* A frame is of a socket that connected; from its lookup on, its sender is  *)
(* a member; and only frames that reached the stream are delivered.          *)
CallsAreWhole ==
  \A k \in Call :
    /\ call[k].pc = "idle" => call[k] = NoCall
    /\ call[k].pc # "idle" =>
         /\ call[k].sock \in Sock /\ sock[call[k].sock] # "new"
         /\ call[k].room \in Room /\ call[k].kind \in {"send", "typing"}
    /\ answer[k] # "none" => call[k].pc = "done"
    /\ k \in stream => call[k].pc \in {"publish", "stored", "failed", "done"}
    /\ call[k].pc = "stored" => k \in stream
    /\ call[k].pc \in {"index", "member", "publish", "stored"} \/ k \in stream
         => <<Sender(k), call[k].room>> \in member
    /\ owed[k] # {} => k \in stream
    /\ \A s \in Sock : k \in inbox[s] => k \in stream

(* What a socket's state says of its rooms was read from RoomMember.         *)
RoomsAreOfMembers ==
  \A s \in Sock : \A r \in rooms[s] \cup found[s] : <<UserOf[s], r>> \in member

-----------------------------------------------------------------------------
(* A frame handler goes to its next step.                                    *)
LEMMA CallMoves ==
  ASSUME call \in [Call -> Calls], NEW k \in Call, NEW pc \in CallPCs, To(k, pc)
  PROVE  /\ call' \in [Call -> Calls]
         /\ \A j \in Call : j # k => call'[j] = call[j]
         /\ call'[k].sock = call[k].sock /\ call'[k].kind = call[k].kind
         /\ call'[k].room = call[k].room /\ call'[k].pc = pc /\ call'[k].tries = call[k].tries
<1>1. call' = [call EXCEPT ![k] = [call[k] EXCEPT !.pc = pc]]
  BY DEF To
<1>2. call[k] \in Calls
  OBVIOUS
<1>3. [call[k] EXCEPT !.pc = pc] \in Calls
  BY <1>2 DEF Calls
<1>4. QED
  BY <1>1, <1>2, <1>3 DEF Calls

(* A failed publish is tried again.                                          *)
LEMMA RetryMoves ==
  ASSUME call \in [Call -> Calls], NEW k \in Call, call[k].tries + 1 < Attempts,
         call' = [call EXCEPT ![k].pc = "publish", ![k].tries = @ + 1]
  PROVE  /\ call' \in [Call -> Calls]
         /\ \A j \in Call : j # k => call'[j] = call[j]
         /\ call'[k].sock = call[k].sock /\ call'[k].kind = call[k].kind
         /\ call'[k].room = call[k].room /\ call'[k].pc = "publish"
<1>1. call[k] \in Calls
  OBVIOUS
<1>2. call[k].tries + 1 \in 0..(Attempts - 1)
  BY <1>1, RealtimeAssumption DEF Calls
<1>3. call' = [call EXCEPT ![k] = [call[k] EXCEPT !.pc = "publish", !.tries = call[k].tries + 1]]
  OBVIOUS
<1>4. [call[k] EXCEPT !.pc = "publish", !.tries = call[k].tries + 1] \in Calls
  BY <1>1, <1>2 DEF Calls, CallPCs
<1>5. QED
  BY <1>1, <1>3, <1>4 DEF Calls

(* A socket is closed when its send buffer is full, and no other is touched. *)
Closings == \A s \in Sock : sock'[s] = sock[s] \/ (sock[s] = "open" /\ sock'[s] = "closing")

SocketStates == {"new", "open", "closing", "closed"}

LEMMA SendJsonCloses ==
  ASSUME TypeOK, NEW ss, NEW full \in SUBSET Sock, SendJson(ss, full)
  PROVE  /\ sock' \in [Sock -> SocketStates] /\ faults' \in 0..MaxFaults /\ Closings
         /\ \A s \in full : sock[s] = "open" /\ sock'[s] = "closing"
<1>1. MaxFaults \in Nat /\ faults \in 0..MaxFaults
  BY RealtimeAssumption DEF TypeOK
<1>2. \A s \in full : sock[s] = "open"
  BY DEF SendJson, Recipients
<1>3. CASE full = {}
  BY <1>1, <1>3 DEF SendJson, TypeOK, SocketStates, Closings
<1>4. CASE full # {}
  <2>1. /\ faults < MaxFaults /\ faults' = faults + 1
        /\ sock' = [s \in Sock |-> IF s \in full THEN "closing" ELSE sock[s]]
    BY <1>4 DEF SendJson, Fault
  <2>2. faults' \in 0..MaxFaults
    BY <1>1, <2>1
  <2>3. QED
    BY <1>2, <2>1, <2>2 DEF TypeOK, SocketStates, Closings
<1>5. QED
  BY <1>3, <1>4

Answers == {"none", "lost", "ack", "validation_failed", "rate_limited", "forbidden",
            "buffer_unavailable"}

(* What the next step of a frame's handler does.                             *)
Advances(k) ==
  /\ call' \in [Call -> Calls]
  /\ \A j \in Call : j # k => call'[j] = call[j] /\ answer'[j] = answer[j]
  /\ call'[k].sock = call[k].sock /\ call'[k].kind = call[k].kind
  /\ call'[k].room = call[k].room
  /\ call[k].pc \notin {"idle", "done"} /\ call'[k].pc # "idle"
  /\ call[k].pc \in {"publish", "stored", "failed"} =>
       call'[k].pc \in {"publish", "stored", "failed", "done"}
  /\ call'[k].pc \in {"index", "member", "publish", "stored"} =>
       call[k].pc \in {"index", "member", "publish", "stored"} \/ IsMember(k)
  /\ call'[k].pc = "stored" => k \in stream'
  /\ stream' = stream \/ (stream' = stream \cup {k} /\ call'[k].pc = "stored")
  /\ answer' \in [Call -> Answers]
  /\ answer'[k] # answer[k] => call'[k].pc = "done"
  /\ call[k].kind = "send" /\ call'[k].pc = "done" => answer'[k] # "none"
  /\ answer'[k] # answer[k] /\ answer'[k] = "lost" => sock'[call[k].sock] # "open"
  /\ answer'[k] # answer[k] /\ answer'[k] = "ack" => call[k].pc = "stored"
  /\ \/ UNCHANGED <<rooms, index>>
     \/ /\ call[k].pc = "index" /\ call'[k].pc = "member"
        /\ AddSocketToRooms(call[k].sock, {call[k].room})
  /\ sock' \in [Sock -> SocketStates] /\ faults' \in 0..MaxFaults /\ Closings
  /\ UNCHANGED <<member, clients, setup, found, inbox, owed>>

LEMMA FinishAdvances ==
  ASSUME TypeOK, CallsAreWhole, NEW k \in Call, NEW full \in SUBSET Sock, NEW frame \in Answers,
         frame \notin {"none", "lost"}, call[k].pc \notin {"idle", "done"},
         frame = "ack" => call[k].pc = "stored", Finish(k, frame, full),
         UNCHANGED <<member, store, setup, found, bus>>
  PROVE  Advances(k)
<1>1. call \in [Call -> Calls] /\ call[k].sock \in Sock
  BY DEF TypeOK, Calls, CallPCs, CallsAreWhole
<1>2. /\ call' \in [Call -> Calls]
      /\ \A j \in Call : j # k => call'[j] = call[j]
      /\ call'[k].sock = call[k].sock /\ call'[k].kind = call[k].kind
      /\ call'[k].room = call[k].room /\ call'[k].pc = "done"
  <2>1. To(k, "done") /\ "done" \in CallPCs
    BY DEF Finish, To, CallPCs
  <2>2. QED
    BY <1>1, <2>1, CallMoves
<1>3. /\ sock' \in [Sock -> SocketStates] /\ faults' \in 0..MaxFaults /\ Closings
      /\ \A s \in full : sock[s] = "open" /\ sock'[s] = "closing"
  <2>1. SendJson({call[k].sock}, full)
    BY DEF Finish
  <2>2. QED
    BY <2>1, SendJsonCloses
<1>4. answer' = [answer EXCEPT ![k] =
        IF call[k].sock \in Recipients({call[k].sock}) \ full THEN frame ELSE "lost"]
  BY DEF Finish
<1>5. /\ answer' \in [Call -> Answers] /\ \A j \in Call : j # k => answer'[j] = answer[j]
      /\ answer'[k] \in {frame, "lost"}
  BY <1>4 DEF TypeOK, Answers
<1>6. answer'[k] = "lost" => sock'[call[k].sock] # "open"
  <2>1. answer'[k] = "lost" => call[k].sock \notin Recipients({call[k].sock}) \ full
    BY <1>4 DEF TypeOK
  <2>2. call[k].sock \notin Recipients({call[k].sock}) => sock[call[k].sock] # "open"
    BY DEF Recipients
  <2>3. sock[call[k].sock] # "open" => sock'[call[k].sock] # "open"
    BY <1>1, <1>3 DEF Closings
  <2>4. call[k].sock \in full => sock'[call[k].sock] # "open"
    BY <1>3
  <2>5. QED
    BY <2>1, <2>2, <2>3, <2>4
<1>7. QED
  BY <1>2, <1>3, <1>5, <1>6 DEF Advances, store, bus

(* Every step of a handler advances its frame.                               *)
LEMMA HandleAdvances ==
  ASSUME TypeOK, CallsAreWhole, RoomsAreOfMembers, NEW k \in Call, Handle(k)
  PROVE  Advances(k)
<1>1. call \in [Call -> Calls] /\ call[k] \in Calls
  BY DEF TypeOK, Calls, CallPCs
<1>2. /\ sock \in [Sock -> SocketStates] /\ faults \in 0..MaxFaults
      /\ answer \in [Call -> Answers] /\ MaxFaults \in Nat
  BY RealtimeAssumption DEF TypeOK, SocketStates, Answers
<1>3. UNCHANGED sock => Closings
  BY DEF Closings
<1>4. ASSUME NEW pc \in CallPCs \ {"idle"}, To(k, pc), call[k].pc \notin {"idle", "done"},
             call[k].pc \in {"publish", "stored", "failed"} => pc \in {"publish", "stored", "failed", "done"},
             pc \in {"index", "member", "publish", "stored"} =>
               call[k].pc \in {"index", "member", "publish", "stored"} \/ IsMember(k),
             pc = "stored" => k \in stream',
             stream' = stream \/ (stream' = stream \cup {k} /\ pc = "stored"),
             UNCHANGED answer, call[k].kind = "send" => pc # "done",
             \/ UNCHANGED <<rooms, index>>
             \/ call[k].pc = "index" /\ pc = "member"
                /\ AddSocketToRooms(call[k].sock, {call[k].room}),
             sock' \in [Sock -> SocketStates], faults' \in 0..MaxFaults, Closings,
             UNCHANGED <<member, clients, setup, found, inbox, owed>>
      PROVE  Advances(k)
  <2>1. /\ call' \in [Call -> Calls]
        /\ \A j \in Call : j # k => call'[j] = call[j]
        /\ call'[k].sock = call[k].sock /\ call'[k].kind = call[k].kind
        /\ call'[k].room = call[k].room /\ call'[k].pc = pc
    BY <1>1, <1>4, CallMoves
  <2>2. answer' \in [Call -> Answers]
    BY <1>2, <1>4
  <2>3. QED
    BY <1>4, <2>1, <2>2 DEF Advances
<1>5. ASSUME Allowed(k) PROVE Advances(k)
  <2>1. call[k].pc = "limit" /\ call[k].sock \in Sock
    BY <1>5 DEF Allowed, CallsAreWhole
  <2>2. PICK pc \in {"member", "lookup"} : /\ To(k, pc)
                                           /\ pc = "member" => call[k].room \in rooms[call[k].sock]
    BY <1>5 DEF Allowed
  <2>3. pc = "member" => IsMember(k)
    BY <2>1, <2>2 DEF RoomsAreOfMembers, IsMember
  <2>4. UNCHANGED <<member, sock, store, setup, found, answer, bus, faults>>
    BY <1>5 DEF Allowed
  <2>5. QED
    BY <1>2, <1>3, <1>4, <2>1, <2>2, <2>3, <2>4 DEF CallPCs, store, bus
<1>6. ASSUME LookUp(k) PROVE Advances(k)
  <2>1. PICK pc \in {"index", "stranger"} : To(k, pc) /\ (pc = "index" => IsMember(k))
    BY <1>6 DEF LookUp
  <2>2. call[k].pc = "lookup" /\ UNCHANGED <<member, sock, store, setup, found, answer, bus, faults>>
    BY <1>6 DEF LookUp
  <2>3. QED
    BY <1>2, <1>3, <1>4, <2>1, <2>2 DEF CallPCs, store, bus
<1>7. ASSUME IndexRoom(k) PROVE Advances(k)
  BY <1>2, <1>3, <1>4, <1>7 DEF IndexRoom, CallPCs, bus, AddSocketToRooms
<1>8. ASSUME StartPublish(k) PROVE Advances(k)
  BY <1>2, <1>3, <1>4, <1>8 DEF StartPublish, CallPCs, bus, store
<1>9. ASSUME Stored(k) PROVE Advances(k)
  BY <1>2, <1>3, <1>4, <1>9 DEF Stored, CallPCs, store
<1>10. ASSUME PublishFails(k) PROVE Advances(k)
  <2>1. /\ call[k].pc \in {"publish", "stored"} /\ faults' \in 0..MaxFaults
        /\ UNCHANGED <<member, sock, store, setup, found, answer, bus>>
    <3>1. faults < MaxFaults /\ faults' = faults + 1
      BY <1>10 DEF PublishFails, Fault
    <3>2. faults' \in 0..MaxFaults
      BY <1>2, <3>1
    <3>3. QED
      BY <1>10, <3>2 DEF PublishFails
  <2>2. CASE call[k].tries + 1 < Attempts
    <3>1. call' = [call EXCEPT ![k].pc = "publish", ![k].tries = @ + 1]
      BY <1>10, <2>2 DEF PublishFails
    <3>2. /\ call' \in [Call -> Calls]
          /\ \A j \in Call : j # k => call'[j] = call[j]
          /\ call'[k].sock = call[k].sock /\ call'[k].kind = call[k].kind
          /\ call'[k].room = call[k].room /\ call'[k].pc = "publish"
      BY <1>1, <2>2, <3>1, RetryMoves
    <3>3. QED
      BY <1>2, <1>3, <2>1, <3>2 DEF Advances, bus, store
  <2>3. CASE ~ (call[k].tries + 1 < Attempts)
    <3>1. To(k, "failed")
      BY <1>10, <2>3 DEF PublishFails
    <3>2. QED
      BY <1>2, <1>3, <1>4, <2>1, <3>1 DEF CallPCs, bus, store
  <2>4. QED
    BY <2>2, <2>3
<1>11. ASSUME NEW full \in SUBSET Sock,
              \/ Invalid(k, full) \/ RateLimited(k, full) \/ Forbidden(k, full)
              \/ Acknowledge(k, full) \/ BufferUnavailable(k, full)
       PROVE  Advances(k)
  <2>1. PICK frame \in {"validation_failed", "rate_limited", "forbidden", "ack", "buffer_unavailable"} :
          /\ Finish(k, frame, full) /\ call[k].pc \in {"limit", "stranger", "stored", "failed"}
          /\ frame = "ack" => call[k].pc = "stored"
    BY <1>11 DEF Invalid, RateLimited, Forbidden, Acknowledge, BufferUnavailable
  <2>2. UNCHANGED <<member, store, setup, found, bus>>
    BY <1>11 DEF Invalid, RateLimited, Forbidden, Acknowledge, BufferUnavailable
  <2>3. QED
    BY <2>1, <2>2, FinishAdvances DEF Answers
<1>12. ASSUME NEW full \in SUBSET Sock, Typing(k, full) PROVE Advances(k)
  <2>1. /\ call[k].pc = "member" /\ call[k].kind = "typing" /\ To(k, "done")
        /\ UNCHANGED <<member, store, setup, found, answer, bus>>
    BY <1>12 DEF Typing
  <2>2. sock' \in [Sock -> SocketStates] /\ faults' \in 0..MaxFaults /\ Closings
    BY <1>12, SendJsonCloses DEF Typing
  <2>3. QED
    BY <1>4, <2>1, <2>2 DEF CallPCs, store, bus
<1>13. QED
  BY <1>5, <1>6, <1>7, <1>8, <1>9, <1>10, <1>11, <1>12 DEF Handle

-----------------------------------------------------------------------------
Sets == {"none", "query", "resume", "done", "failed"}

(* The state's types, one half and the other.                                *)
StoreTyped ==
  /\ member \subseteq User \X Room
  /\ sock \in [Sock -> SocketStates]
  /\ clients \subseteq Sock
  /\ rooms \in [Sock -> SUBSET Room]
  /\ index \in [Room -> SUBSET Sock]
  /\ setup \in [Sock -> Sets]
  /\ found \in [Sock -> SUBSET Room]

FramesTyped ==
  /\ call \in [Call -> Calls]
  /\ answer \in [Call -> Answers]
  /\ stream \subseteq Call
  /\ inbox \in [Sock -> SUBSET Call]
  /\ owed \in [Call -> SUBSET Sock]
  /\ faults \in 0..MaxFaults

LEMMA TypesAreBoth == TypeOK <=> StoreTyped /\ FramesTyped
BY DEF TypeOK, StoreTyped, FramesTyped, SocketStates, Sets, Calls, CallPCs, Answers

(* Memberships are only added, and a frame stays the frame it is.            *)
GoesOn ==
  /\ member \subseteq member'
  /\ stream \subseteq stream'
  /\ \A s \in Sock : /\ sock[s] # "new" => sock'[s] # "new"
                     /\ sock[s] \notin {"new", "open"} => sock'[s] \notin {"new", "open"}
  /\ \A k \in Call : call[k].pc # "idle" =>
       /\ call'[k].sock = call[k].sock /\ call'[k].room = call[k].room
       /\ call'[k].kind = call[k].kind /\ call'[k].pc # "idle"

Base == StoreTyped /\ FramesTyped /\ SocketsAreKnown /\ CallsAreWhole /\ RoomsAreOfMembers

LEMMA AdvanceKeepsBase ==
  ASSUME Base, IndexIsRight, NEW k \in Call, Advances(k)
  PROVE  Base' /\ GoesOn
<1> USE DEF Base
<1>1. StoreTyped /\ FramesTyped
  OBVIOUS
<1>2. call[k].sock \in Sock /\ call[k].room \in Room /\ sock[call[k].sock] # "new"
  BY DEF Advances, CallsAreWhole
<1>3. ASSUME AddSocketToRooms(call[k].sock, {call[k].room})
      PROVE  /\ rooms' = [rooms EXCEPT ![call[k].sock] = rooms[call[k].sock] \cup {call[k].room}]
             /\ index' = [r \in Room |-> IF r = call[k].room THEN index[r] \cup {call[k].sock}
                                         ELSE index[r]]
  BY <1>3 DEF AddSocketToRooms
<1>4. GoesOn
  BY DEF GoesOn, Advances, Closings
<1>5. StoreTyped' /\ FramesTyped'
  <2>1. rooms' \in [Sock -> SUBSET Room] /\ index' \in [Room -> SUBSET Sock]
    BY <1>1, <1>2, <1>3 DEF StoreTyped, Advances
  <2>2. stream' \subseteq Call
    BY <1>1 DEF FramesTyped, Advances
  <2>3. QED
    BY <1>1, <2>1, <2>2 DEF StoreTyped, FramesTyped, Advances
<1>6. SocketsAreKnown'
  <2>1. \A s \in Sock : s \in clients' <=> sock'[s] \in {"open", "closing"}
    BY DEF SocketsAreKnown, Advances, Closings
  <2>2. \A s \in Sock : sock'[s] = "new" =>
           sock[s] = "new" /\ rooms'[s] = rooms[s] /\ \A r \in Room : s \in index'[r] => s \in index[r]
    BY <1>1, <1>2, <1>3 DEF Advances, Closings, StoreTyped
  <2>3. \A s \in Sock : rooms[s] \subseteq rooms'[s] /\ (sock'[s] = "open" => sock[s] = "open")
    BY <1>1, <1>2, <1>3 DEF Advances, Closings, StoreTyped
  <2>4. UNCHANGED <<found, setup, owed>>
    BY DEF Advances
  <2>5. QED
    BY <2>1, <2>2, <2>3, <2>4 DEF SocketsAreKnown
<1>7. CallsAreWhole'
  <2>1. ASSUME NEW j \in Call, j # k
        PROVE  call'[j] = call[j] /\ answer'[j] = answer[j] /\ (j \in stream' <=> j \in stream)
    BY <2>1 DEF Advances
  <2>2. /\ call'[k].pc # "idle"
        /\ call'[k].sock \in Sock /\ sock'[call'[k].sock] # "new"
        /\ call'[k].room \in Room /\ call'[k].kind \in {"send", "typing"}
        /\ answer'[k] # "none" => call'[k].pc = "done"
        /\ k \in stream' => call'[k].pc \in {"publish", "stored", "failed", "done"}
        /\ call'[k].pc = "stored" => k \in stream'
    BY <1>2, <1>4 DEF Advances, CallsAreWhole, GoesOn
  <2>3. ASSUME call'[k].pc \in {"index", "member", "publish", "stored"} \/ k \in stream'
        PROVE  <<UserOf[call'[k].sock], call'[k].room>> \in member'
    BY <2>3 DEF Advances, CallsAreWhole, IsMember, Sender
  <2>4. UNCHANGED <<owed, inbox, member>> /\ stream \subseteq stream'
    BY <1>4 DEF Advances, GoesOn
  <2>5. ASSUME NEW j \in Call, j # k
        PROVE  /\ call'[j].pc = "idle" => call'[j] = NoCall
               /\ call'[j].pc # "idle" =>
                    /\ call'[j].sock \in Sock /\ sock'[call'[j].sock] # "new"
                    /\ call'[j].room \in Room /\ call'[j].kind \in {"send", "typing"}
               /\ answer'[j] # "none" => call'[j].pc = "done"
               /\ j \in stream' => call'[j].pc \in {"publish", "stored", "failed", "done"}
               /\ call'[j].pc = "stored" => j \in stream'
               /\ call'[j].pc \in {"index", "member", "publish", "stored"} \/ j \in stream'
                    => <<UserOf[call'[j].sock], call'[j].room>> \in member'
    BY <1>4, <2>1, <2>4, <2>5 DEF CallsAreWhole, GoesOn, Sender
  <2>6. \A j \in Call : /\ owed'[j] # {} => j \in stream'
                        /\ \A s \in Sock : j \in inbox'[s] => j \in stream'
    BY <2>4 DEF CallsAreWhole
  <2>7. QED
    BY <2>2, <2>3, <2>5, <2>6 DEF CallsAreWhole, Sender, NoCall
<1>8. RoomsAreOfMembers'
  <2>1. call[k].pc = "index" => <<UserOf[call[k].sock], call[k].room>> \in member
    BY DEF CallsAreWhole, Sender
  <2>2. ASSUME NEW s \in Sock, NEW r \in rooms'[s]
        PROVE  r \in rooms[s] \/ (s = call[k].sock /\ r = call[k].room /\ call[k].pc = "index")
    BY <1>1, <1>3, <2>2 DEF Advances, StoreTyped
  <2>3. QED
    BY <2>1, <2>2 DEF RoomsAreOfMembers, Advances
<1>9. QED
  BY <1>4, <1>5, <1>6, <1>7, <1>8

(* Frames are untouched, and a membership is only ever added.                *)
LEMMA FramesWait ==
  ASSUME Base, UNCHANGED <<call, answer>>, member \subseteq member', UNCHANGED <<stream, inbox, owed>>,
         \A s \in Sock : /\ sock[s] # "new" => sock'[s] # "new"
                         /\ sock[s] \notin {"new", "open"} => sock'[s] \notin {"new", "open"}
  PROVE  CallsAreWhole' /\ GoesOn
<1>1. GoesOn
  BY DEF GoesOn
<1>2. CallsAreWhole'
  BY DEF Base, CallsAreWhole, Sender
<1>3. QED
  BY <1>1, <1>2

LEMMA SetupKeepsBase ==
  ASSUME Base, IndexIsRight, NEW s \in Sock,
         Connect(s) \/ Setup(s) \/ BeginClose(s) \/ CloseEvent(s)
  PROVE  Base' /\ GoesOn
<1> USE DEF Base
<1>1. MaxFaults \in Nat /\ faults \in 0..MaxFaults
  BY RealtimeAssumption DEF FramesTyped
<1>2. ASSUME Connect(s) PROVE Base' /\ GoesOn
  <2>1. StoreTyped' /\ FramesTyped'
    BY <1>2 DEF Connect, StoreTyped, FramesTyped, SocketStates, Sets, bus
  <2>2. SocketsAreKnown'
    BY <1>2 DEF Connect, SocketsAreKnown, StoreTyped, bus
  <2>3. CallsAreWhole' /\ GoesOn
    BY <1>2, FramesWait DEF Connect, StoreTyped, bus
  <2>4. RoomsAreOfMembers'
    BY <1>2 DEF Connect, RoomsAreOfMembers
  <2>5. QED
    BY <2>1, <2>2, <2>3, <2>4
<1>3. ASSUME ReadMemberships(s) PROVE Base' /\ GoesOn
  <2>1. StoreTyped' /\ FramesTyped'
    BY <1>3 DEF ReadMemberships, StoreTyped, FramesTyped, SocketStates, Sets, bus, store
  <2>2. SocketsAreKnown'
    BY <1>3 DEF ReadMemberships, SocketsAreKnown, StoreTyped, bus, store
  <2>3. CallsAreWhole' /\ GoesOn
    BY <1>3, FramesWait DEF ReadMemberships, StoreTyped, bus
  <2>4. RoomsAreOfMembers'
    BY <1>3 DEF ReadMemberships, RoomsAreOfMembers, StoreTyped, store
  <2>5. QED
    BY <2>1, <2>2, <2>3, <2>4
<1>4. ASSUME MembershipsFail(s) PROVE Base' /\ GoesOn
  <2>1. faults' \in 0..MaxFaults
    BY <1>1, <1>4 DEF MembershipsFail, Fault
  <2>2. StoreTyped' /\ FramesTyped'
    BY <1>4, <2>1 DEF MembershipsFail, StoreTyped, FramesTyped, SocketStates, Sets, bus, store
  <2>3. SocketsAreKnown'
    BY <1>4 DEF MembershipsFail, SocketsAreKnown, StoreTyped, bus, store
  <2>4. CallsAreWhole' /\ GoesOn
    BY <1>4, FramesWait DEF MembershipsFail, StoreTyped, bus
  <2>5. RoomsAreOfMembers'
    BY <1>4 DEF MembershipsFail, RoomsAreOfMembers, StoreTyped, store
  <2>6. QED
    BY <2>2, <2>3, <2>4, <2>5
<1>5. ASSUME IndexMemberships(s) PROVE Base' /\ GoesOn
  <2>1. UNCHANGED <<member, sock, clients, found, call, answer, stream, inbox, owed, faults>>
        /\ setup' = [setup EXCEPT ![s] = "done"] /\ setup[s] = "resume"
    BY <1>5 DEF IndexMemberships, bus, store, AddSocketToRooms
  <2>2. CASE StillThere(s)
    <3>1. /\ rooms' = [rooms EXCEPT ![s] = rooms[s] \cup found[s]]
          /\ index' = [r \in Room |-> IF r \in found[s] THEN index[r] \cup {s} ELSE index[r]]
      BY <1>5, <2>2 DEF IndexMemberships, AddSocketToRooms
    <3>2. StoreTyped' /\ FramesTyped'
      BY <2>1, <3>1 DEF StoreTyped, FramesTyped, Sets
    <3>3. SocketsAreKnown'
      BY <2>1, <2>2, <3>1 DEF SocketsAreKnown, StoreTyped, StillThere
    <3>4. CallsAreWhole' /\ GoesOn
      BY <2>1, FramesWait
    <3>5. RoomsAreOfMembers'
      BY <2>1, <3>1 DEF RoomsAreOfMembers, StoreTyped
    <3>6. QED
      BY <3>2, <3>3, <3>4, <3>5
  <2>3. CASE ~ StillThere(s)
    <3>1. UNCHANGED <<rooms, index>>
      BY <1>5, <2>3 DEF IndexMemberships, store
    <3>2. StoreTyped' /\ FramesTyped'
      BY <2>1, <3>1 DEF StoreTyped, FramesTyped, Sets
    <3>3. SocketsAreKnown'
      BY <2>1, <2>3, <3>1 DEF SocketsAreKnown, StoreTyped, StillThere
    <3>4. CallsAreWhole' /\ GoesOn
      BY <2>1, FramesWait
    <3>5. RoomsAreOfMembers'
      BY <2>1, <3>1 DEF RoomsAreOfMembers
    <3>6. QED
      BY <3>2, <3>3, <3>4, <3>5
  <2>4. QED
    BY <2>2, <2>3
<1>6. ASSUME BeginClose(s) PROVE Base' /\ GoesOn
  <2>1. StoreTyped' /\ FramesTyped'
    BY <1>6 DEF BeginClose, StoreTyped, FramesTyped, SocketStates, bus, store
  <2>2. SocketsAreKnown'
    BY <1>6 DEF BeginClose, SocketsAreKnown, StoreTyped, bus, store
  <2>3. CallsAreWhole' /\ GoesOn
    BY <1>6, FramesWait DEF BeginClose, StoreTyped, bus
  <2>4. RoomsAreOfMembers'
    BY <1>6 DEF BeginClose, RoomsAreOfMembers, store
  <2>5. QED
    BY <2>1, <2>2, <2>3, <2>4
<1>7. ASSUME CloseEvent(s) PROVE Base' /\ GoesOn
  <2>1. StoreTyped' /\ FramesTyped'
    BY <1>7 DEF CloseEvent, RemoveClient, StoreTyped, FramesTyped, SocketStates, bus
  <2>2. SocketsAreKnown'
    BY <1>7 DEF CloseEvent, RemoveClient, SocketsAreKnown, StoreTyped, bus
  <2>3. CallsAreWhole' /\ GoesOn
    BY <1>7, FramesWait DEF CloseEvent, StoreTyped, bus
  <2>4. RoomsAreOfMembers'
    BY <1>7 DEF CloseEvent, RemoveClient, RoomsAreOfMembers
  <2>5. QED
    BY <2>1, <2>2, <2>3, <2>4
<1>8. QED
  BY <1>2, <1>3, <1>4, <1>5, <1>6, <1>7 DEF Setup

LEMMA ReceiveKeepsBase ==
  ASSUME Base, NEW k \in Call, NEW s \in Sock, NEW r \in Room, NEW kind \in {"send", "typing"},
         Receive(k, s, kind, r)
  PROVE  /\ Base' /\ GoesOn
         /\ UNCHANGED <<member, sock, store, setup, found, answer, bus, faults>>
         /\ call[k].pc = "idle" /\ call'[k].pc = "limit"
         /\ \A j \in Call : j # k => call'[j] = call[j]
<1> USE DEF Base
<1> DEFINE new == [sock |-> s, kind |-> kind, room |-> r, pc |-> "limit", tries |-> 0]
<1>1. /\ call' = [call EXCEPT ![k] = new] /\ call[k] = NoCall /\ s \in clients
      /\ UNCHANGED <<member, sock, store, setup, found, answer, bus, faults>>
  BY DEF Receive
<1>2. new \in Calls
  BY RealtimeAssumption DEF Calls, CallPCs
<1>3. /\ call' \in [Call -> Calls] /\ call'[k] = new /\ call[k].pc = "idle"
      /\ \A j \in Call : j # k => call'[j] = call[j]
  BY <1>1, <1>2 DEF FramesTyped, NoCall
<1>4. StoreTyped' /\ FramesTyped' /\ SocketsAreKnown' /\ RoomsAreOfMembers'
  BY <1>1, <1>3 DEF StoreTyped, FramesTyped, SocketsAreKnown, RoomsAreOfMembers, store, bus
<1>5. GoesOn
  BY <1>1, <1>3 DEF GoesOn, bus
<1>6. sock'[s] # "new"
  BY <1>1 DEF SocketsAreKnown
<1>7. answer[k] = "none" /\ k \notin stream
  BY <1>3 DEF CallsAreWhole
<1>8. CallsAreWhole'
  BY <1>1, <1>3, <1>6, <1>7 DEF CallsAreWhole, Sender, bus
<1>9. QED
  BY <1>1, <1>3, <1>4, <1>5, <1>8

(* What a room event does to inboxes, and to whom they were owed.            *)
LEMMA EventKeepsBase ==
  ASSUME Base, NEW k \in Call, NEW full \in SUBSET Sock, RoomEvent(k, full)
  PROVE  Base' /\ GoesOn /\ Closings
<1> USE DEF Base
<1>1. /\ k \in stream /\ SendJson(RecipientsOf(k), full)
      /\ inbox' = [s \in Sock |-> IF s \in RecipientsOf(k) \ full THEN inbox[s] \cup {k} ELSE inbox[s]]
      /\ owed' = [owed EXCEPT ![k] = owed[k] \cup Entitled(k)]
      /\ UNCHANGED <<member, store, setup, found, call, answer, stream>>
  BY DEF RoomEvent
<1>2. TypeOK
  BY TypesAreBoth
<1>3. sock' \in [Sock -> SocketStates] /\ faults' \in 0..MaxFaults /\ Closings
  BY <1>1, <1>2, SendJsonCloses
<1>4. /\ Entitled(k) \subseteq Sock
      /\ \A s \in Entitled(k) : sock[s] = "open" /\ setup[s] = "done"
  BY DEF Entitled
<1>5. StoreTyped' /\ FramesTyped'
  BY <1>1, <1>3, <1>4 DEF StoreTyped, FramesTyped, store
<1>6. SocketsAreKnown'
  BY <1>1, <1>3, <1>4 DEF SocketsAreKnown, FramesTyped, Closings, store
<1>7. GoesOn
  BY <1>1, <1>3 DEF GoesOn, Closings
<1>8. CallsAreWhole'
  <2>1. ASSUME NEW j \in Call PROVE /\ owed'[j] # {} => j \in stream
                                    /\ \A s \in Sock : j \in inbox'[s] => j \in stream
    BY <1>1 DEF CallsAreWhole, FramesTyped
  <2>2. \A j \in Call : call[j].pc # "idle" => sock'[call[j].sock] # "new"
    BY <1>3 DEF CallsAreWhole, Closings
  <2>3. QED
    BY <1>1, <2>1, <2>2 DEF CallsAreWhole, Sender
<1>9. RoomsAreOfMembers'
  BY <1>1 DEF RoomsAreOfMembers, store
<1>10. QED
  BY <1>3, <1>5, <1>6, <1>7, <1>8, <1>9

LEMMA CreateKeepsBase ==
  ASSUME Base, NEW r \in Room, CreateRoom(r)
  PROVE  Base' /\ GoesOn /\ UNCHANGED <<sock, store, setup, found, call, answer, bus, faults>>
<1> USE DEF Base
<1>1. /\ member \subseteq member' /\ member' \subseteq User \X Room
      /\ UNCHANGED <<sock, store, setup, found, call, answer, bus, faults>>
  BY RealtimeAssumption DEF CreateRoom, StoreTyped
<1>2. StoreTyped' /\ FramesTyped' /\ SocketsAreKnown'
  BY <1>1 DEF StoreTyped, FramesTyped, SocketsAreKnown, store, bus
<1>3. CallsAreWhole' /\ GoesOn
  BY <1>1, FramesWait DEF bus
<1>4. RoomsAreOfMembers'
  BY <1>1 DEF RoomsAreOfMembers, store
<1>5. QED
  BY <1>1, <1>2, <1>3, <1>4

(* With the process go its sockets and the frames it was handling.           *)
LEMMA DeathKeepsBase ==
  ASSUME Base, ProcessDies
  PROVE  /\ Base' /\ GoesOn
         /\ \A s \in Sock : rooms'[s] = {} /\ (sock'[s] \in {"new", "closed"})
         /\ \A r \in Room : index'[r] = {}
         /\ \A k \in Call : call[k].pc # "idle" => call'[k].pc = "done"
         /\ \A k \in Call : call[k].pc = "idle" => call'[k] = call[k]
         /\ \A k \in Call : answer'[k] = IF call[k].pc # "idle" /\ answer[k] = "none" THEN "lost"
                                         ELSE answer[k]
         /\ UNCHANGED <<member, found, stream, inbox, owed>>
<1> USE DEF Base
<1>1. /\ sock' = [s \in Sock |-> IF sock[s] = "new" THEN "new" ELSE "closed"]
      /\ clients' = {}
      /\ rooms' = [s \in Sock |-> {}]
      /\ index' = [r \in Room |-> {}]
      /\ setup' = [s \in Sock |-> IF setup[s] = "none" THEN "none" ELSE "failed"]
      /\ answer' = [k \in Call |-> IF call[k] # NoCall /\ answer[k] = "none" THEN "lost" ELSE answer[k]]
      /\ UNCHANGED <<member, found, stream, inbox, owed>>
  BY DEF ProcessDies, bus
<1>2. faults' \in 0..MaxFaults
  <2>1. MaxFaults \in Nat /\ faults \in 0..MaxFaults
    BY RealtimeAssumption DEF FramesTyped
  <2>2. faults < MaxFaults /\ faults' = faults + 1
    BY DEF ProcessDies, Fault
  <2>3. QED
    BY <2>1, <2>2
<1>3. \A k \in Call : call[k].pc = "idle" <=> call[k] = NoCall
  <2>1. NoCall.pc = "idle"
    BY DEF NoCall
  <2>2. QED
    BY <2>1 DEF CallsAreWhole
<1>4. /\ call' \in [Call -> Calls]
      /\ \A k \in Call : /\ call[k].pc = "idle" => call'[k] = call[k]
                         /\ call[k].pc # "idle" =>
                              /\ call'[k].sock = call[k].sock /\ call'[k].kind = call[k].kind
                              /\ call'[k].room = call[k].room /\ call'[k].pc = "done"
  <2>1. call' = [k \in Call |-> IF call[k] = NoCall THEN NoCall ELSE [call[k] EXCEPT !.pc = "done"]]
    BY DEF ProcessDies
  <2>2. \A x \in Calls : /\ [x EXCEPT !.pc = "done"] \in Calls
                         /\ [x EXCEPT !.pc = "done"].sock = x.sock
                         /\ [x EXCEPT !.pc = "done"].kind = x.kind
                         /\ [x EXCEPT !.pc = "done"].room = x.room
                         /\ [x EXCEPT !.pc = "done"].pc = "done"
    BY DEF Calls, CallPCs
  <2>3. \A k \in Call : call[k] \in Calls
    BY DEF FramesTyped
  <2>4. ASSUME NEW k \in Call
        PROVE  /\ call'[k] \in Calls
               /\ call[k].pc = "idle" => call'[k] = call[k]
               /\ call[k].pc # "idle" =>
                    /\ call'[k].sock = call[k].sock /\ call'[k].kind = call[k].kind
                    /\ call'[k].room = call[k].room /\ call'[k].pc = "done"
    <3>1. PICK x \in Calls : x = call[k]
      BY <2>3
    <3>2. CASE x = NoCall
      BY <1>3, <2>1, <3>1, <3>2 DEF NoCall
    <3>3. CASE x # NoCall
      <4>1. call'[k] = [x EXCEPT !.pc = "done"] /\ call[k].pc # "idle"
        BY <1>3, <2>1, <3>1, <3>3
      <4>2. QED
        BY <2>2, <3>1, <4>1
    <3>4. QED
      BY <3>2, <3>3
  <2>5. QED
    BY <2>1, <2>4
<1>5. StoreTyped' /\ FramesTyped'
  BY <1>1, <1>2, <1>4 DEF StoreTyped, FramesTyped, SocketStates, Sets, Answers
<1>6. SocketsAreKnown'
  BY <1>1 DEF SocketsAreKnown, StoreTyped
<1>7. GoesOn
  BY <1>1, <1>4 DEF GoesOn
<1>8. CallsAreWhole'
  <2>1. ASSUME NEW k \in Call, call[k].pc = "idle" PROVE answer'[k] = "none" /\ k \notin stream
    BY <1>1, <1>3, <2>1 DEF CallsAreWhole
  <2>2. \A k \in Call : call[k].pc # "idle" => sock'[call[k].sock] # "new"
    BY <1>1 DEF CallsAreWhole
  <2>3. QED
    BY <1>1, <1>4, <2>1, <2>2 DEF CallsAreWhole, Sender
<1>9. RoomsAreOfMembers'
  BY <1>1 DEF RoomsAreOfMembers
<1>10. ASSUME NEW s \in Sock PROVE rooms'[s] = {} /\ (sock'[s] \in {"new", "closed"})
  BY <1>1
<1>11. ASSUME NEW k \in Call
       PROVE  answer'[k] = IF call[k].pc # "idle" /\ answer[k] = "none" THEN "lost" ELSE answer[k]
  BY <1>1, <1>3
<1>12. \A r \in Room : index'[r] = {}
  BY <1>1
<1>13. QED
  BY <1>1, <1>4, <1>5, <1>6, <1>7, <1>8, <1>9, <1>10, <1>11, <1>12

-----------------------------------------------------------------------------
(* A step, by what it is for the properties.                                 *)
LEMMA Steps ==
  ASSUME Base, [Next]_vars
  PROVE  \/ \E s \in Sock : Connect(s) \/ Setup(s) \/ BeginClose(s) \/ CloseEvent(s)
         \/ \E k \in Call : Advances(k)
         \/ \E k \in Call, s \in Sock, r \in Room, kind \in {"send", "typing"} : Receive(k, s, kind, r)
         \/ \E k \in Call, full \in SUBSET Sock : RoomEvent(k, full)
         \/ \E r \in Room : CreateRoom(r)
         \/ ProcessDies
         \/ UNCHANGED vars
<1>1. TypeOK /\ CallsAreWhole /\ RoomsAreOfMembers
  BY TypesAreBoth DEF Base
<1>2. \A k \in Call : Handle(k) => Advances(k)
  BY <1>1, HandleAdvances
<1>3. QED
  BY <1>2, Zenon DEF Next

LEMMA BaseKept ==
  ASSUME Base, IndexIsRight, [Next]_vars
  PROVE  Base' /\ GoesOn
<1>1. UNCHANGED vars => Base' /\ GoesOn
  BY DEF vars, Base, StoreTyped, FramesTyped, SocketsAreKnown, CallsAreWhole, Sender,
    RoomsAreOfMembers, GoesOn, store, bus
<1>2. QED
  BY <1>1, Steps, SetupKeepsBase, AdvanceKeepsBase, ReceiveKeepsBase, EventKeepsBase,
    CreateKeepsBase, DeathKeepsBase, Zenon

-----------------------------------------------------------------------------
(* Both sides of the room index, and the memberships behind it.              *)
LEMMA IndexKept ==
  ASSUME Base, IndexIsRight, [Next]_vars
  PROVE  IndexIsRight'
<1> USE DEF Base
<1>1. Base' /\ GoesOn
  BY BaseKept
<1>2. ASSUME UNCHANGED <<clients, rooms, index>> PROVE IndexIsRight'
  BY <1>1, <1>2 DEF IndexIsRight, GoesOn
<1>3. ASSUME NEW s \in Sock, NEW R \in SUBSET Room, AddSocketToRooms(s, R),
             \A r \in R : <<UserOf[s], r>> \in member
      PROVE  IndexIsRight'
  BY <1>1, <1>3 DEF IndexIsRight, GoesOn, AddSocketToRooms, StoreTyped
<1>4. ASSUME NEW s \in Sock, Connect(s) PROVE IndexIsRight'
  BY <1>1, <1>4 DEF Connect, IndexIsRight, GoesOn, SocketsAreKnown
<1>5. ASSUME NEW s \in Sock, CloseEvent(s) PROVE IndexIsRight'
  BY <1>1, <1>5 DEF CloseEvent, RemoveClient, IndexIsRight, GoesOn, SocketsAreKnown
<1>6. ASSUME NEW s \in Sock, Setup(s) PROVE IndexIsRight'
  <2>1. \A r \in found[s] : <<UserOf[s], r>> \in member
    BY DEF RoomsAreOfMembers
  <2>2. found[s] \in SUBSET Room
    BY DEF StoreTyped
  <2>3. AddSocketToRooms(s, found[s]) \/ UNCHANGED <<clients, rooms, index>>
    BY <1>6 DEF Setup, ReadMemberships, MembershipsFail, IndexMemberships, store
  <2>4. QED
    BY <1>2, <1>3, <2>1, <2>2, <2>3
<1>7. ASSUME NEW k \in Call, Advances(k) PROVE IndexIsRight'
  <2>1. call[k].sock \in Sock /\ {call[k].room} \in SUBSET Room
    BY <1>7 DEF Advances, CallsAreWhole
  <2>2. call[k].pc = "index" => <<UserOf[call[k].sock], call[k].room>> \in member
    BY DEF CallsAreWhole, Sender
  <2>3. \/ UNCHANGED <<clients, rooms, index>>
        \/ call[k].pc = "index" /\ AddSocketToRooms(call[k].sock, {call[k].room})
    BY <1>7 DEF Advances
  <2>4. QED
    BY <1>2, <1>3, <2>1, <2>2, <2>3
<1>8. ASSUME ProcessDies PROVE IndexIsRight'
  BY <1>8, DeathKeepsBase DEF IndexIsRight
<1>9. ASSUME \/ \E s \in Sock : BeginClose(s)
             \/ \E k \in Call, s \in Sock, r \in Room, kind \in {"send", "typing"} : Receive(k, s, kind, r)
             \/ \E k \in Call, full \in SUBSET Sock : RoomEvent(k, full)
             \/ \E r \in Room : CreateRoom(r)
             \/ UNCHANGED vars
      PROVE  UNCHANGED <<clients, rooms, index>>
  BY <1>9 DEF BeginClose, Receive, RoomEvent, CreateRoom, vars, store
<1>10. QED
  BY <1>2, <1>4, <1>5, <1>6, <1>7, <1>8, <1>9, Steps

(* Only a frame handler puts a closed socket in the index.                   *)
Leaks ==
  \A s \in Sock, r \in Room :
    s \in index'[r] \ clients' =>
      \/ s \in index[r] \ clients
      \/ \E k \in Call : /\ call[k].sock = s /\ call[k].room = r
                        /\ call[k].pc = "index" /\ call'[k].pc = "member"

LEMMA LeaksAreOfFrames ==
  ASSUME Base, IndexIsRight, [Next]_vars
  PROVE  Leaks
<1> USE DEF Base, Leaks
<1>1. ASSUME UNCHANGED <<clients, index>> PROVE Leaks
  BY <1>1
<1>2. ASSUME NEW s \in Sock, Connect(s) PROVE Leaks
  BY <1>2 DEF Connect
<1>3. ASSUME NEW s \in Sock, CloseEvent(s) PROVE Leaks
  <2>1. s \in clients
    BY <1>3 DEF CloseEvent, SocketsAreKnown
  <2>2. \A r \in Room : s \notin index'[r]
    BY <1>3, <2>1 DEF CloseEvent, RemoveClient, IndexIsRight
  <2>3. \A t \in Sock, r \in Room : t \in index'[r] \ clients' /\ t # s => t \in index[r] \ clients
    BY <1>3 DEF CloseEvent, RemoveClient
  <2>4. QED
    BY <2>2, <2>3
<1>4. ASSUME NEW s \in Sock, Setup(s) PROVE Leaks
  <2>1. CASE UNCHANGED <<clients, index>>
    BY <1>1, <2>1
  <2>2. CASE s \in clients /\ AddSocketToRooms(s, found[s])
    BY <2>2 DEF AddSocketToRooms
  <2>3. QED
    BY <1>4, <2>1, <2>2 DEF Setup, ReadMemberships, MembershipsFail, IndexMemberships, StillThere, store
<1>5. ASSUME NEW k \in Call, Advances(k) PROVE Leaks
  BY <1>5 DEF Advances, AddSocketToRooms
<1>6. ASSUME ProcessDies PROVE Leaks
  BY <1>6, DeathKeepsBase
<1>7. ASSUME \/ \E s \in Sock : BeginClose(s)
             \/ \E k \in Call, s \in Sock, r \in Room, kind \in {"send", "typing"} : Receive(k, s, kind, r)
             \/ \E k \in Call, full \in SUBSET Sock : RoomEvent(k, full)
             \/ \E r \in Room : CreateRoom(r)
             \/ UNCHANGED vars
      PROVE  UNCHANGED <<clients, index>>
  BY <1>7 DEF BeginClose, Receive, RoomEvent, CreateRoom, vars, store
<1> HIDE DEF Leaks
<1>8. QED
  BY <1>1, <1>2, <1>3, <1>4, <1>5, <1>6, <1>7, Steps

(* Every step but a room event leaves the inboxes alone.                     *)
LEMMA InboxesWait ==
  ASSUME Base, [Next]_vars, ~ \E k \in Call, full \in SUBSET Sock : RoomEvent(k, full)
  PROVE  UNCHANGED <<inbox, owed>>
<1>1. ProcessDies => UNCHANGED <<inbox, owed>>
  BY DEF ProcessDies, bus
<1>2. \A s \in Sock : Connect(s) \/ Setup(s) \/ BeginClose(s) \/ CloseEvent(s) => UNCHANGED <<inbox, owed>>
  BY DEF Connect, Setup, ReadMemberships, MembershipsFail, IndexMemberships, BeginClose, CloseEvent, bus
<1>3. QED
  BY <1>1, <1>2, Steps DEF Advances, Receive, CreateRoom, vars, bus

(* A message is delivered to other members of its room.                      *)
LEMMA DeliveryKept ==
  ASSUME Base, IndexIsRight, OnlyOtherMembers, [Next]_vars
  PROVE  OnlyOtherMembers'
<1> USE DEF Base
<1>1. Base' /\ GoesOn
  BY BaseKept
<1>2. ASSUME NEW s \in Sock, NEW k \in inbox'[s], k \in inbox[s] \/
               (k \in stream /\ UserOf[s] # Sender(k) /\ <<UserOf[s], call[k].room>> \in member)
      PROVE  UserOf[s] # Sender(k)' /\ <<UserOf[s], call'[k].room>> \in member'
  <2>1. k \in Call /\ call[k].pc # "idle"
    BY <1>2 DEF FramesTyped, CallsAreWhole
  <2>2. call'[k].sock = call[k].sock /\ call'[k].room = call[k].room /\ member \subseteq member'
    BY <1>1, <2>1 DEF GoesOn
  <2>3. UserOf[s] # Sender(k) /\ <<UserOf[s], call[k].room>> \in member
    BY <1>2 DEF OnlyOtherMembers
  <2>4. QED
    BY <2>2, <2>3 DEF Sender
<1>3. ASSUME NEW k \in Call, NEW full \in SUBSET Sock, RoomEvent(k, full) PROVE OnlyOtherMembers'
  <2>1. k \in stream /\ call[k].room \in Room
    BY <1>3 DEF RoomEvent, CallsAreWhole
  <2>2. \A s \in Sock : s \in RecipientsOf(k) =>
          UserOf[s] # Sender(k) /\ <<UserOf[s], call[k].room>> \in member
    BY <2>1 DEF RecipientsOf, Recipients, IndexIsRight
  <2>3. ASSUME NEW s \in Sock, NEW j \in inbox'[s], j \notin inbox[s]
        PROVE  j = k /\ s \in RecipientsOf(k)
    BY <1>3, <2>3 DEF RoomEvent
  <2>4. QED
    BY <1>2, <2>1, <2>2, <2>3 DEF OnlyOtherMembers
<1>4. ASSUME UNCHANGED inbox PROVE OnlyOtherMembers'
  BY <1>2, <1>4 DEF OnlyOtherMembers
<1>5. QED
  BY <1>3, <1>4, InboxesWait

(* A socket gets what it is owed, or is no longer open.                      *)
LEMMA ReachKept ==
  ASSUME Base, IndexIsRight, PreloadedAreReached, [Next]_vars
  PROVE  PreloadedAreReached'
<1> USE DEF Base
<1>1. Base' /\ GoesOn
  BY BaseKept
<1>2. ASSUME NEW k \in Call, NEW s \in owed[k], k \in inbox[s] => k \in inbox'[s],
             call'[k].room \in found'[s]
      PROVE  k \in inbox'[s] \/ sock'[s] # "open"
  <2>1. s \in Sock /\ call[k].pc # "idle" /\ setup[s] \in {"done", "failed"} /\ sock[s] # "new"
    BY DEF FramesTyped, CallsAreWhole, SocketsAreKnown
  <2>2. call'[k].room = call[k].room
    BY <1>1, <2>1 DEF GoesOn
  <2>3. found'[s] = found[s]
    <3>1. \A t \in Sock : Connect(t) \/ Setup(t) \/ BeginClose(t) \/ CloseEvent(t) =>
            found' = found \/ (setup[t] = "query" /\ \A u \in Sock : u # t => found'[u] = found[u])
      BY DEF Connect, Setup, ReadMemberships, MembershipsFail, IndexMemberships, BeginClose,
        CloseEvent, StoreTyped
    <3>2. ProcessDies => found' = found
      BY DEF ProcessDies
    <3>3. QED
      BY <2>1, <3>1, <3>2, Steps DEF Advances, Receive, RoomEvent, CreateRoom, vars
  <2>4. k \in inbox[s] \/ sock[s] # "open"
    BY <1>2, <2>2, <2>3 DEF PreloadedAreReached
  <2>5. QED
    BY <1>1, <1>2, <2>1, <2>4 DEF GoesOn
<1>3. ASSUME NEW k \in Call, NEW full \in SUBSET Sock, RoomEvent(k, full) PROVE PreloadedAreReached'
  <2>1. /\ SendJson(RecipientsOf(k), full)
        /\ inbox' = [s \in Sock |-> IF s \in RecipientsOf(k) \ full THEN inbox[s] \cup {k} ELSE inbox[s]]
        /\ owed' = [owed EXCEPT ![k] = owed[k] \cup Entitled(k)]
        /\ UNCHANGED <<member, store, setup, found, call, answer, stream>>
    BY <1>3 DEF RoomEvent
  <2>2. \A s \in full : sock'[s] # "open"
    BY <2>1, SendJsonCloses, TypesAreBoth
  <2>3. ASSUME NEW s \in Entitled(k), call'[k].room \in found'[s]
        PROVE  k \in inbox'[s] \/ sock'[s] # "open"
    <3>1. /\ s \in Sock /\ sock[s] = "open" /\ setup[s] = "done" /\ UserOf[s] # Sender(k)
          /\ call[k].room \in Room /\ call[k].room \in found[s]
      BY <2>1, <2>3 DEF Entitled, StoreTyped
    <3>2. s \in clients /\ call[k].room \in rooms[s]
      BY <3>1 DEF SocketsAreKnown
    <3>3. s \in RecipientsOf(k)
      BY <3>1, <3>2 DEF IndexIsRight, RecipientsOf, Recipients
    <3>4. QED
      BY <2>1, <2>2, <3>1, <3>3
  <2>4. \A j \in Call : \A s \in owed'[j] : s \in owed[j] \/ (j = k /\ s \in Entitled(k))
    BY <2>1 DEF FramesTyped
  <2>5. \A j \in Call : \A s \in owed[j] : j \in inbox[s] => j \in inbox'[s]
    BY <2>1 DEF FramesTyped
  <2>6. QED
    BY <1>2, <2>3, <2>4, <2>5 DEF PreloadedAreReached
<1>4. ASSUME UNCHANGED <<inbox, owed>> PROVE PreloadedAreReached'
  BY <1>2, <1>4 DEF PreloadedAreReached
<1>5. QED
  BY <1>3, <1>4, InboxesWait

(* A send is answered as it ends, and the answer stays true.                 *)
LEMMA AnswersKept ==
  ASSUME Base, IndexIsRight, SendsAreAnswered, [Next]_vars
  PROVE  SendsAreAnswered'
<1> USE DEF Base
<1>1. Base' /\ GoesOn
  BY BaseKept
<1> DEFINE Answered(k) ==
      /\ call[k].pc = "done" <=> answer[k] # "none"
      /\ answer[k] = "lost" => sock[call[k].sock] # "open"
      /\ answer[k] = "ack" => k \in stream /\ <<Sender(k), call[k].room>> \in member
<1> DEFINE AnsweredThen(k) ==
      /\ call'[k].pc = "done" <=> answer'[k] # "none"
      /\ answer'[k] = "lost" => sock'[call'[k].sock] # "open"
      /\ answer'[k] = "ack" => k \in stream' /\ <<UserOf[call'[k].sock], call'[k].room>> \in member'
<1>2. SUFFICES ASSUME NEW k \in Call, call'[k].kind = "send" PROVE AnsweredThen(k)
  BY DEF SendsAreAnswered, Sender
<1>3. call[k].kind = "send" => Answered(k)
  BY DEF SendsAreAnswered
<1>4. CASE call'[k].pc = "idle"
  <2>1. answer'[k] = "none"
    BY <1>1, <1>4 DEF CallsAreWhole
  <2>2. QED
    BY <1>4, <2>1
<1>5. ASSUME call'[k].pc # "idle", call'[k] = call[k], answer'[k] = answer[k]
      PROVE  AnsweredThen(k)
  <2>1. call[k].sock \in Sock /\ sock[call[k].sock] # "new"
    BY <1>5 DEF CallsAreWhole
  <2>2. QED
    BY <1>1, <1>2, <1>3, <1>5, <2>1 DEF GoesOn, Sender
<1>6. ASSUME Advances(k) PROVE AnsweredThen(k)
  <2>1. /\ call[k].sock \in Sock /\ sock[call[k].sock] # "new" /\ call[k].kind = "send"
        /\ answer[k] = "none"
    BY <1>2, <1>6 DEF Advances, CallsAreWhole
  <2>2. call'[k].pc = "done" <=> answer'[k] # "none"
    BY <1>6, <2>1 DEF Advances
  <2>3. answer'[k] = "lost" => sock'[call'[k].sock] # "open"
    BY <1>6, <2>1 DEF Advances
  <2>4. answer'[k] = "ack" => call[k].pc = "stored" /\ k \in stream
    BY <1>6, <2>1 DEF Advances, CallsAreWhole
  <2>5. call[k].pc = "stored" => <<UserOf[call'[k].sock], call'[k].room>> \in member'
    BY <1>6 DEF Advances, CallsAreWhole, Sender
  <2>6. QED
    BY <1>1, <2>2, <2>3, <2>4, <2>5 DEF GoesOn
<1>7. ASSUME ProcessDies, call[k].pc # "idle" PROVE AnsweredThen(k)
  <2>1. /\ call'[k].pc = "done" /\ call'[k].sock = call[k].sock /\ call'[k].room = call[k].room
        /\ call[k].kind = "send" /\ sock'[call[k].sock] # "open" /\ call[k].sock \in Sock
        /\ answer'[k] = IF answer[k] = "none" THEN "lost" ELSE answer[k]
        /\ UNCHANGED <<stream, member>>
    BY <1>1, <1>2, <1>7, DeathKeepsBase DEF GoesOn, CallsAreWhole
  <2>2. QED
    BY <1>3, <2>1 DEF Sender
<1>8. ASSUME ProcessDies, call[k].pc = "idle" PROVE AnsweredThen(k)
  BY <1>4, <1>8, DeathKeepsBase
<1>9. ASSUME NEW j \in Call, j # k, Advances(j) PROVE call'[k] = call[k] /\ answer'[k] = answer[k]
  BY <1>9 DEF Advances
<1>10. ASSUME NEW j \in Call, NEW s \in Sock, NEW r \in Room, NEW kind \in {"send", "typing"},
              Receive(j, s, kind, r)
       PROVE  AnsweredThen(k)
  <2>1. /\ answer' = answer /\ call[j].pc = "idle" /\ call'[j].pc = "limit"
        /\ j # k => call'[k] = call[k]
    BY <1>10, ReceiveKeepsBase
  <2>2. CASE j = k
    <3>1. answer'[k] = "none"
      BY <1>1, <2>1, <2>2 DEF CallsAreWhole
    <3>2. QED
      BY <2>1, <2>2, <3>1
  <2>3. CASE j # k
    BY <1>4, <1>5, <2>1, <2>3
  <2>4. QED
    BY <2>2, <2>3
<1>11. ASSUME \/ \E s \in Sock : Connect(s) \/ Setup(s) \/ BeginClose(s) \/ CloseEvent(s)
              \/ \E j \in Call, full \in SUBSET Sock : RoomEvent(j, full)
              \/ \E r \in Room : CreateRoom(r)
              \/ UNCHANGED vars
       PROVE  call'[k] = call[k] /\ answer'[k] = answer[k]
  BY <1>11 DEF Connect, Setup, ReadMemberships, MembershipsFail, IndexMemberships, BeginClose,
    CloseEvent, RoomEvent, CreateRoom, vars
<1> HIDE DEF Answered, AnsweredThen
<1>12. QED
  BY <1>4, <1>5, <1>6, <1>7, <1>8, <1>9, <1>10, <1>11, Steps

-----------------------------------------------------------------------------
(* The inductive invariant.                                                  *)
Invariant ==
  /\ Base
  /\ IndexIsRight
  /\ OnlyOtherMembers /\ PreloadedAreReached
  /\ SendsAreAnswered

LEMMA InvariantInit == Init => Invariant
<1> SUFFICES ASSUME Init PROVE Invariant
  OBVIOUS
<1>1. 0 \in 0..(Attempts - 1) /\ 0 \in 0..MaxFaults
  BY RealtimeAssumption
<1>2. NoCall \in Calls
  BY <1>1 DEF NoCall, Calls, CallPCs
<1>3. StoreTyped /\ FramesTyped
  BY <1>1, <1>2, RealtimeAssumption DEF Init, StoreTyped, FramesTyped, SocketStates, Sets, Answers
<1>4. SocketsAreKnown /\ RoomsAreOfMembers
  BY DEF Init, SocketsAreKnown, RoomsAreOfMembers
<1>5. \A k \in Call : call[k] = NoCall /\ call[k].pc = "idle" /\ call[k].kind = "none"
  BY DEF Init, NoCall
<1>6. CallsAreWhole
  BY <1>5 DEF Init, CallsAreWhole
<1>7. IndexIsRight /\ OnlyOtherMembers /\ PreloadedAreReached
  BY DEF Init, IndexIsRight, OnlyOtherMembers, PreloadedAreReached
<1>8. SendsAreAnswered
  BY <1>5 DEF SendsAreAnswered
<1>9. QED
  BY <1>3, <1>4, <1>6, <1>7, <1>8 DEF Invariant, Base

(* Every reachable state is one the whole invariant describes.               *)
THEOREM Invariance == Spec => []Invariant
<1>1. Init => Invariant
  BY InvariantInit
<1>2. Invariant /\ [Next]_vars => Invariant'
  BY BaseKept, IndexKept, DeliveryKept, ReachKept, AnswersKept DEF Invariant
<1>3. QED
  BY <1>1, <1>2, PTL DEF Spec

(* The maps of RealtimeServer, its handlers and what they send stay within   *)
(* their types; a publish is tried at most Attempts times.                   *)
THEOREM TypeCorrect == Spec => []TypeOK
<1>1. Invariant => TypeOK
  BY TypesAreBoth DEF Invariant, Base
<1>2. QED
  BY <1>1, Invariance, PTL

(* roomSockets and the roomIds of every socket agree for as long as the      *)
(* server knows it, and both name only rooms its user is in.                 *)
THEOREM IndexIsAlwaysRight == Spec => []IndexIsRight
<1>1. Invariant => IndexIsRight
  BY DEF Invariant
<1>2. QED
  BY <1>1, Invariance, PTL

(* No step leaves a socket in the index that the server does not know, but   *)
(* the resumption of a frame's handler from its look-up: a close while the   *)
(* connection handler waits for its memberships, any other close and the     *)
(* death of the process do not.                                              *)
THEOREM OnlyFrameHandlersLeak == Spec => OnlyFramesLeak
<1>1. Invariant /\ [Next]_vars =>
        [\A s \in Sock, r \in Room :
           s \in index'[r] \ clients' =>
             \/ s \in index[r] \ clients
             \/ \E k \in Call : /\ call[k].sock = s /\ call[k].room = r
                               /\ call[k].pc = "index" /\ call'[k].pc = "member"]_vars
  BY LeaksAreOfFrames DEF Invariant, Leaks
<1>2. QED
  BY <1>1, Invariance, PTL DEF Spec, OnlyFramesLeak

(* broadcastRoomEventToLocalClients hands a message to members of its room   *)
(* and to no connection of its sender.                                       *)
THEOREM DeliveredToOtherMembers == Spec => []OnlyOtherMembers
<1>1. Invariant => OnlyOtherMembers
  BY DEF Invariant
<1>2. QED
  BY <1>1, Invariance, PTL

(* A socket that was set up with a room gets each of its messages that comes *)
(* by, unless it was closed for a full send buffer or left.                  *)
THEOREM PreloadedAreAlwaysReached == Spec => []PreloadedAreReached
<1>1. Invariant => PreloadedAreReached
  BY DEF Invariant
<1>2. QED
  BY <1>1, Invariance, PTL

(* handleSend answers every frame, with ack only for a message of a member   *)
(* that JetStream stored, in whatever order queries, closes, retries and     *)
(* the death of the process come.                                            *)
THEOREM SendsAreAlwaysAnswered == Spec => []SendsAreAnswered
<1>1. Invariant => SendsAreAnswered
  BY DEF Invariant
<1>2. QED
  BY <1>1, Invariance, PTL
=============================================================================
