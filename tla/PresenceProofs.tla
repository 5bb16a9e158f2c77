--------------------------- MODULE PresenceProofs ---------------------------
(***************************************************************************)
(* LiveIsListed and OfflineIsHonest hold for any number of connections and *)
(* askers, and any number of failures and crashes, also when the realtime  *)
(* servers of PresenceFeed show the user to others.  The argument: a key is*)
(* set once, before its connection can be listed, so a scan that found it  *)
(* missing is right to drop the member however late it does so.            *)
(***************************************************************************)
EXTENDS PresenceFeed, TLAPS

\* The tasks of different kinds and of different connections are different.
LEMMA Tasks ==
  /\ \A c \in Conn : <<"register", c>> \in Task /\ <<"unregister", c>> \in Task
  /\ \A a \in Asker : <<"ask", a>> \in Task
  /\ \A c \in Conn : <<"register", c>> \in Register /\ <<"unregister", c>> \notin Register
  /\ \A c, d : <<"register", c>> # <<"unregister", d>>
  /\ \A c, d : <<"ask", c>> # <<"register", d>> /\ <<"ask", c>> # <<"unregister", d>>
  /\ \A c, d : c # d => /\ <<"register", c>> # <<"register", d>>
                        /\ <<"unregister", c>> # <<"unregister", d>>
  BY DEF Task, Register, Unregister, Ask

\* Every step keeps the types.
LEMMA TypeStep == TypeOK /\ [Next]_vars => TypeOK'
  <1> SUFFICES ASSUME TypeOK, [Next]_vars PROVE TypeOK'
    OBVIOUS
  <1>1. ASSUME NEW t \in Task, ReadMembers(t) PROVE TypeOK'
    BY <1>1 DEF ReadMembers, TypeOK, Stage, Live
  <1>2. ASSUME NEW t \in Task, NEW c \in Conn, ReadKey(t, c) PROVE TypeOK'
    <2>1. todo' \in [Task -> SUBSET Conn] /\ drop' \in [Task -> SUBSET Conn]
      BY <1>2 DEF ReadKey, TypeOK
    <2>2. online' = [online EXCEPT ![t] = TRUE] \/ online' = online
      BY <1>2 DEF ReadKey
    <2>3. online' \in [Task -> BOOLEAN]
      BY <2>2, Zenon DEF TypeOK
    <2> QED
      BY <1>2, <2>1, <2>3 DEF ReadKey, TypeOK
  <1>3. ASSUME NEW t \in Task, NEW c \in Conn, DropMember(t, c) PROVE TypeOK'
    BY <1>3, Tasks, PresenceAssumption DEF DropMember, TypeOK, Stage, ConnState, scan
  <1>4. ASSUME NEW t \in Task, Answer(t) PROVE TypeOK'
    BY <1>4, Tasks, PresenceAssumption DEF Answer, AfterScan, TypeOK, Stage, ConnState, scan
  <1>5. ASSUME NEW t \in Task, CallFails(t) PROVE TypeOK'
    BY <1>5, Tasks, PresenceAssumption DEF CallFails, TypeOK, Stage, ConnState, scan
  <1>6. ASSUME NEW c \in Conn, SetKey(c) PROVE TypeOK'
    <2>1. pc' \in [Task -> Stage]
      BY <1>6, Tasks DEF SetKey, Reply, TypeOK, Stage
    <2>2. faults' \in 0..MaxFaults
      BY <1>6, PresenceAssumption DEF SetKey, Reply, TypeOK
    <2>3. keys' \subseteq Conn
      BY <1>6 DEF SetKey, TypeOK
    <2> QED
      BY <1>6, <2>1, <2>2, <2>3 DEF SetKey, TypeOK, scan
  <1>7. ASSUME NEW c \in Conn, AddMember(c) PROVE TypeOK'
    BY <1>7, Tasks, PresenceAssumption DEF AddMember, Reply, TypeOK, Stage, ConnState, scan
  <1>8. ASSUME NEW c \in Conn, PublishOnline(c) PROVE TypeOK'
    BY <1>8, Tasks, PresenceAssumption DEF PublishOnline, Reply, TypeOK, Stage, ConnState, scan
  <1>9. ASSUME NEW c \in Conn, DeleteKey(c) PROVE TypeOK'
    <2>1. pc' \in [Task -> Stage]
      BY <1>9, Tasks DEF DeleteKey, Reply, TypeOK, Stage
    <2>2. faults' \in 0..MaxFaults
      BY <1>9, PresenceAssumption DEF DeleteKey, Reply, TypeOK
    <2>3. keys' \subseteq Conn
      BY <1>9 DEF DeleteKey, TypeOK
    <2> QED
      BY <1>9, <2>1, <2>2, <2>3 DEF DeleteKey, TypeOK, scan
  <1>10. ASSUME NEW c \in Conn, RemoveMember(c) PROVE TypeOK'
    BY <1>10, Tasks, PresenceAssumption DEF RemoveMember, Reply, TypeOK, Stage, ConnState, scan
  <1>11. ASSUME NEW c \in Conn, PublishOffline(c) PROVE TypeOK'
    BY <1>11, Tasks, PresenceAssumption DEF PublishOffline, Reply, TypeOK, Stage, ConnState, scan
  <1>12. ASSUME NEW c \in Conn, Connect(c) PROVE TypeOK'
    BY <1>12, Tasks, PresenceAssumption DEF Connect, TypeOK, Stage, ConnState, scan
  <1>13. ASSUME NEW c \in Conn, CheckOpen(c) PROVE TypeOK'
    BY <1>13, Tasks, PresenceAssumption DEF CheckOpen, TypeOK, Stage, ConnState, scan
  <1>14. ASSUME NEW c \in Conn, StartRegister(c) PROVE TypeOK'
    BY <1>14, Tasks, PresenceAssumption DEF StartRegister, TypeOK, Stage, ConnState, scan
  <1>15. ASSUME NEW c \in Conn, Close(c) PROVE TypeOK'
    BY <1>15, Tasks, PresenceAssumption DEF Close, TypeOK, Stage, ConnState, scan
  <1>16. ASSUME NEW c \in Conn, Crash(c) PROVE TypeOK'
    BY <1>16, Tasks, PresenceAssumption DEF Crash, TypeOK, Stage, ConnState, scan
  <1>17. ASSUME NEW c \in Conn, Expire(c) PROVE TypeOK'
    BY <1>17, Tasks, PresenceAssumption DEF Expire, Refreshed, TypeOK, Stage, ConnState, scan
  <1>18. ASSUME NEW a \in Asker, StartAsk(a) PROVE TypeOK'
    BY <1>18, Tasks, PresenceAssumption DEF StartAsk, TypeOK, Stage, ConnState, scan
  <1>19. CASE UNCHANGED vars
    BY <1>19 DEF vars, TypeOK, Stage, ConnState, scan
  <1> QED
    BY <1>1, <1>2, <1>3, <1>4, <1>5, <1>6, <1>7, <1>8, <1>9, <1>10, <1>11, <1>12, <1>13, <1>14, <1>15, <1>16, <1>17, <1>18, <1>19
    DEF Next, Scan, Calls, SetAndAdd, Handler

\* Nothing is listed, read or dropped before its key was set, and a
\* registration does not go back.
LEMMA ListedStep == TypeOK /\ ListedAfterSet /\ [Next]_vars => ListedAfterSet'
  <1> SUFFICES ASSUME TypeOK, ListedAfterSet, [Next]_vars PROVE ListedAfterSet'
    OBVIOUS
  <1>1. ASSUME NEW t \in Task, ReadMembers(t) PROVE ListedAfterSet'
    BY <1>1, Tasks DEF ReadMembers, TypeOK, ListedAfterSet, PastSet, scan
  <1>2. ASSUME NEW t \in Task, NEW c \in Conn, ReadKey(t, c) PROVE ListedAfterSet'
    BY <1>2, Tasks DEF ReadKey, TypeOK, ListedAfterSet, PastSet, scan
  <1>3. ASSUME NEW t \in Task, NEW c \in Conn, DropMember(t, c) PROVE ListedAfterSet'
    BY <1>3, Tasks DEF DropMember, TypeOK, ListedAfterSet, PastSet, scan
  <1>4. ASSUME NEW t \in Task, Answer(t) PROVE ListedAfterSet'
    BY <1>4, Tasks DEF Answer, AfterScan, TypeOK, ListedAfterSet, PastSet, scan
  <1>5. ASSUME NEW t \in Task, CallFails(t) PROVE ListedAfterSet'
    BY <1>5, Tasks DEF CallFails, TypeOK, ListedAfterSet, PastSet, scan
  <1>6. ASSUME NEW c \in Conn, SetKey(c) PROVE ListedAfterSet'
    BY <1>6, Tasks DEF SetKey, Reply, TypeOK, ListedAfterSet, PastSet, scan
  <1>7. ASSUME NEW c \in Conn, AddMember(c) PROVE ListedAfterSet'
    BY <1>7, Tasks DEF AddMember, Reply, TypeOK, ListedAfterSet, PastSet, scan
  <1>8. ASSUME NEW c \in Conn, PublishOnline(c) PROVE ListedAfterSet'
    BY <1>8, Tasks DEF PublishOnline, Reply, TypeOK, ListedAfterSet, PastSet, scan
  <1>9. ASSUME NEW c \in Conn, DeleteKey(c) PROVE ListedAfterSet'
    BY <1>9, Tasks DEF DeleteKey, Reply, TypeOK, ListedAfterSet, PastSet, scan
  <1>10. ASSUME NEW c \in Conn, RemoveMember(c) PROVE ListedAfterSet'
    BY <1>10, Tasks DEF RemoveMember, Reply, TypeOK, ListedAfterSet, PastSet, scan
  <1>11. ASSUME NEW c \in Conn, PublishOffline(c) PROVE ListedAfterSet'
    BY <1>11, Tasks DEF PublishOffline, Reply, TypeOK, ListedAfterSet, PastSet, scan
  <1>12. ASSUME NEW c \in Conn, Connect(c) PROVE ListedAfterSet'
    BY <1>12, Tasks DEF Connect, TypeOK, ListedAfterSet, PastSet, scan
  <1>13. ASSUME NEW c \in Conn, CheckOpen(c) PROVE ListedAfterSet'
    BY <1>13, Tasks DEF CheckOpen, TypeOK, ListedAfterSet, PastSet, scan
  <1>14. ASSUME NEW c \in Conn, StartRegister(c) PROVE ListedAfterSet'
    BY <1>14, Tasks DEF StartRegister, TypeOK, ListedAfterSet, PastSet, scan
  <1>15. ASSUME NEW c \in Conn, Close(c) PROVE ListedAfterSet'
    BY <1>15, Tasks DEF Close, TypeOK, ListedAfterSet, PastSet, scan
  <1>16. ASSUME NEW c \in Conn, Crash(c) PROVE ListedAfterSet'
    BY <1>16, Tasks DEF Crash, TypeOK, ListedAfterSet, PastSet, scan
  <1>17. ASSUME NEW c \in Conn, Expire(c) PROVE ListedAfterSet'
    BY <1>17, Tasks DEF Expire, Refreshed, TypeOK, ListedAfterSet, PastSet, scan
  <1>18. ASSUME NEW a \in Asker, StartAsk(a) PROVE ListedAfterSet'
    BY <1>18, Tasks DEF StartAsk, TypeOK, ListedAfterSet, PastSet, scan
  <1>19. CASE UNCHANGED vars
    BY <1>19 DEF vars, TypeOK, ListedAfterSet, PastSet, scan
  <1> QED
    BY <1>1, <1>2, <1>3, <1>4, <1>5, <1>6, <1>7, <1>8, <1>9, <1>10, <1>11, <1>12, <1>13, <1>14, <1>15, <1>16, <1>17, <1>18, <1>19
    DEF Next, Scan, Calls, SetAndAdd, Handler

\* A key found missing does not come back while the member is dropped.
LEMMA DroppedStep == TypeOK /\ ListedAfterSet /\ DroppedAreGone /\ [Next]_vars => DroppedAreGone'
  <1> SUFFICES ASSUME TypeOK, ListedAfterSet, DroppedAreGone, [Next]_vars PROVE DroppedAreGone'
    OBVIOUS
  <1>1. ASSUME NEW t \in Task, ReadMembers(t) PROVE DroppedAreGone'
    BY <1>1, Tasks DEF ReadMembers, TypeOK, ListedAfterSet, DroppedAreGone, PastSet, scan
  <1>2. ASSUME NEW t \in Task, NEW c \in Conn, ReadKey(t, c) PROVE DroppedAreGone'
    BY <1>2, Tasks DEF ReadKey, TypeOK, ListedAfterSet, DroppedAreGone, PastSet, scan
  <1>3. ASSUME NEW t \in Task, NEW c \in Conn, DropMember(t, c) PROVE DroppedAreGone'
    BY <1>3, Tasks DEF DropMember, TypeOK, ListedAfterSet, DroppedAreGone, PastSet, scan
  <1>4. ASSUME NEW t \in Task, Answer(t) PROVE DroppedAreGone'
    BY <1>4, Tasks DEF Answer, AfterScan, TypeOK, ListedAfterSet, DroppedAreGone, PastSet, scan
  <1>5. ASSUME NEW t \in Task, CallFails(t) PROVE DroppedAreGone'
    BY <1>5, Tasks DEF CallFails, TypeOK, ListedAfterSet, DroppedAreGone, PastSet, scan
  <1>6. ASSUME NEW c \in Conn, SetKey(c) PROVE DroppedAreGone'
    BY <1>6, Tasks DEF SetKey, Reply, TypeOK, ListedAfterSet, DroppedAreGone, PastSet, scan
  <1>7. ASSUME NEW c \in Conn, AddMember(c) PROVE DroppedAreGone'
    BY <1>7, Tasks DEF AddMember, Reply, TypeOK, ListedAfterSet, DroppedAreGone, PastSet, scan
  <1>8. ASSUME NEW c \in Conn, PublishOnline(c) PROVE DroppedAreGone'
    BY <1>8, Tasks DEF PublishOnline, Reply, TypeOK, ListedAfterSet, DroppedAreGone, PastSet, scan
  <1>9. ASSUME NEW c \in Conn, DeleteKey(c) PROVE DroppedAreGone'
    BY <1>9, Tasks DEF DeleteKey, Reply, TypeOK, ListedAfterSet, DroppedAreGone, PastSet, scan
  <1>10. ASSUME NEW c \in Conn, RemoveMember(c) PROVE DroppedAreGone'
    BY <1>10, Tasks DEF RemoveMember, Reply, TypeOK, ListedAfterSet, DroppedAreGone, PastSet, scan
  <1>11. ASSUME NEW c \in Conn, PublishOffline(c) PROVE DroppedAreGone'
    BY <1>11, Tasks DEF PublishOffline, Reply, TypeOK, ListedAfterSet, DroppedAreGone, PastSet, scan
  <1>12. ASSUME NEW c \in Conn, Connect(c) PROVE DroppedAreGone'
    BY <1>12, Tasks DEF Connect, TypeOK, ListedAfterSet, DroppedAreGone, PastSet, scan
  <1>13. ASSUME NEW c \in Conn, CheckOpen(c) PROVE DroppedAreGone'
    BY <1>13, Tasks DEF CheckOpen, TypeOK, ListedAfterSet, DroppedAreGone, PastSet, scan
  <1>14. ASSUME NEW c \in Conn, StartRegister(c) PROVE DroppedAreGone'
    BY <1>14, Tasks DEF StartRegister, TypeOK, ListedAfterSet, DroppedAreGone, PastSet, scan
  <1>15. ASSUME NEW c \in Conn, Close(c) PROVE DroppedAreGone'
    BY <1>15, Tasks DEF Close, TypeOK, ListedAfterSet, DroppedAreGone, PastSet, scan
  <1>16. ASSUME NEW c \in Conn, Crash(c) PROVE DroppedAreGone'
    BY <1>16, Tasks DEF Crash, TypeOK, ListedAfterSet, DroppedAreGone, PastSet, scan
  <1>17. ASSUME NEW c \in Conn, Expire(c) PROVE DroppedAreGone'
    BY <1>17, Tasks DEF Expire, Refreshed, TypeOK, ListedAfterSet, DroppedAreGone, PastSet, scan
  <1>18. ASSUME NEW a \in Asker, StartAsk(a) PROVE DroppedAreGone'
    BY <1>18, Tasks DEF StartAsk, TypeOK, ListedAfterSet, DroppedAreGone, PastSet, scan
  <1>19. CASE UNCHANGED vars
    BY <1>19 DEF vars, TypeOK, ListedAfterSet, DroppedAreGone, PastSet, scan
  <1> QED
    BY <1>1, <1>2, <1>3, <1>4, <1>5, <1>6, <1>7, <1>8, <1>9, <1>10, <1>11, <1>12, <1>13, <1>14, <1>15, <1>16, <1>17, <1>18, <1>19
    DEF Next, Scan, Calls, SetAndAdd, Handler

\* Registering follows the connection, unregistering its end.
LEMMA LifecycleStep == TypeOK /\ Lifecycle /\ [Next]_vars => Lifecycle'
  <1> SUFFICES ASSUME TypeOK, Lifecycle, [Next]_vars PROVE Lifecycle'
    OBVIOUS
  <1>1. ASSUME NEW t \in Task, ReadMembers(t) PROVE Lifecycle'
    BY <1>1, Tasks DEF ReadMembers, TypeOK, Lifecycle, scan
  <1>2. ASSUME NEW t \in Task, NEW c \in Conn, ReadKey(t, c) PROVE Lifecycle'
    BY <1>2, Tasks DEF ReadKey, TypeOK, Lifecycle, scan
  <1>3. ASSUME NEW t \in Task, NEW c \in Conn, DropMember(t, c) PROVE Lifecycle'
    BY <1>3, Tasks DEF DropMember, TypeOK, Lifecycle, scan
  <1>4. ASSUME NEW t \in Task, Answer(t) PROVE Lifecycle'
    BY <1>4, Tasks DEF Answer, AfterScan, TypeOK, Lifecycle, scan
  <1>5. ASSUME NEW t \in Task, CallFails(t) PROVE Lifecycle'
    BY <1>5, Tasks DEF CallFails, TypeOK, Lifecycle, scan
  <1>6. ASSUME NEW c \in Conn, SetKey(c) PROVE Lifecycle'
    BY <1>6, Tasks DEF SetKey, Reply, TypeOK, Lifecycle, scan
  <1>7. ASSUME NEW c \in Conn, AddMember(c) PROVE Lifecycle'
    BY <1>7, Tasks DEF AddMember, Reply, TypeOK, Lifecycle, scan
  <1>8. ASSUME NEW c \in Conn, PublishOnline(c) PROVE Lifecycle'
    BY <1>8, Tasks DEF PublishOnline, Reply, TypeOK, Lifecycle, scan
  <1>9. ASSUME NEW c \in Conn, DeleteKey(c) PROVE Lifecycle'
    BY <1>9, Tasks DEF DeleteKey, Reply, TypeOK, Lifecycle, scan
  <1>10. ASSUME NEW c \in Conn, RemoveMember(c) PROVE Lifecycle'
    BY <1>10, Tasks DEF RemoveMember, Reply, TypeOK, Lifecycle, scan
  <1>11. ASSUME NEW c \in Conn, PublishOffline(c) PROVE Lifecycle'
    BY <1>11, Tasks DEF PublishOffline, Reply, TypeOK, Lifecycle, scan
  <1>12. ASSUME NEW c \in Conn, Connect(c) PROVE Lifecycle'
    BY <1>12, Tasks DEF Connect, TypeOK, Lifecycle, scan
  <1>13. ASSUME NEW c \in Conn, CheckOpen(c) PROVE Lifecycle'
    BY <1>13, Tasks DEF CheckOpen, TypeOK, Lifecycle, scan
  <1>14. ASSUME NEW c \in Conn, StartRegister(c) PROVE Lifecycle'
    BY <1>14, Tasks DEF StartRegister, TypeOK, Lifecycle, scan
  <1>15. ASSUME NEW c \in Conn, Close(c) PROVE Lifecycle'
    BY <1>15, Tasks DEF Close, TypeOK, Lifecycle, scan
  <1>16. ASSUME NEW c \in Conn, Crash(c) PROVE Lifecycle'
    BY <1>16, Tasks DEF Crash, TypeOK, Lifecycle, scan
  <1>17. ASSUME NEW c \in Conn, Expire(c) PROVE Lifecycle'
    BY <1>17, Tasks DEF Expire, Refreshed, TypeOK, Lifecycle, scan
  <1>18. ASSUME NEW a \in Asker, StartAsk(a) PROVE Lifecycle'
    BY <1>18, Tasks DEF StartAsk, TypeOK, Lifecycle, scan
  <1>19. CASE UNCHANGED vars
    BY <1>19 DEF vars, TypeOK, Lifecycle, scan
  <1> QED
    BY <1>1, <1>2, <1>3, <1>4, <1>5, <1>6, <1>7, <1>8, <1>9, <1>10, <1>11, <1>12, <1>13, <1>14, <1>15, <1>16, <1>17, <1>18, <1>19
    DEF Next, Scan, Calls, SetAndAdd, Handler

\* Whoever leaves the set has no key or is closed.
LEMMA LiveStep == TypeOK /\ ListedAfterSet /\ DroppedAreGone /\ Lifecycle /\ LiveIsListed /\ [Next]_vars => LiveIsListed'
  <1> SUFFICES ASSUME TypeOK, ListedAfterSet, DroppedAreGone, Lifecycle, LiveIsListed, [Next]_vars PROVE LiveIsListed'
    OBVIOUS
  <1>1. ASSUME NEW t \in Task, ReadMembers(t) PROVE LiveIsListed'
    BY <1>1, Tasks DEF ReadMembers, TypeOK, ListedAfterSet, DroppedAreGone, Lifecycle, LiveIsListed, Live, PastSet, scan
  <1>2. ASSUME NEW t \in Task, NEW c \in Conn, ReadKey(t, c) PROVE LiveIsListed'
    BY <1>2, Tasks DEF ReadKey, TypeOK, ListedAfterSet, DroppedAreGone, Lifecycle, LiveIsListed, Live, PastSet, scan
  <1>3. ASSUME NEW t \in Task, NEW c \in Conn, DropMember(t, c) PROVE LiveIsListed'
    BY <1>3, Tasks DEF DropMember, TypeOK, ListedAfterSet, DroppedAreGone, Lifecycle, LiveIsListed, Live, PastSet, scan
  <1>4. ASSUME NEW t \in Task, Answer(t) PROVE LiveIsListed'
    BY <1>4, Tasks DEF Answer, AfterScan, TypeOK, ListedAfterSet, DroppedAreGone, Lifecycle, LiveIsListed, Live, PastSet, scan
  <1>5. ASSUME NEW t \in Task, CallFails(t) PROVE LiveIsListed'
    BY <1>5, Tasks DEF CallFails, TypeOK, ListedAfterSet, DroppedAreGone, Lifecycle, LiveIsListed, Live, PastSet, scan
  <1>6. ASSUME NEW c \in Conn, SetKey(c) PROVE LiveIsListed'
    BY <1>6, Tasks DEF SetKey, Reply, TypeOK, ListedAfterSet, DroppedAreGone, Lifecycle, LiveIsListed, Live, PastSet, scan
  <1>7. ASSUME NEW c \in Conn, AddMember(c) PROVE LiveIsListed'
    BY <1>7, Tasks DEF AddMember, Reply, TypeOK, ListedAfterSet, DroppedAreGone, Lifecycle, LiveIsListed, Live, PastSet, scan
  <1>8. ASSUME NEW c \in Conn, PublishOnline(c) PROVE LiveIsListed'
    BY <1>8, Tasks DEF PublishOnline, Reply, TypeOK, ListedAfterSet, DroppedAreGone, Lifecycle, LiveIsListed, Live, PastSet, scan
  <1>9. ASSUME NEW c \in Conn, DeleteKey(c) PROVE LiveIsListed'
    BY <1>9, Tasks DEF DeleteKey, Reply, TypeOK, ListedAfterSet, DroppedAreGone, Lifecycle, LiveIsListed, Live, PastSet, scan
  <1>10. ASSUME NEW c \in Conn, RemoveMember(c) PROVE LiveIsListed'
    BY <1>10, Tasks DEF RemoveMember, Reply, TypeOK, ListedAfterSet, DroppedAreGone, Lifecycle, LiveIsListed, Live, PastSet, scan
  <1>11. ASSUME NEW c \in Conn, PublishOffline(c) PROVE LiveIsListed'
    BY <1>11, Tasks DEF PublishOffline, Reply, TypeOK, ListedAfterSet, DroppedAreGone, Lifecycle, LiveIsListed, Live, PastSet, scan
  <1>12. ASSUME NEW c \in Conn, Connect(c) PROVE LiveIsListed'
    BY <1>12, Tasks DEF Connect, TypeOK, ListedAfterSet, DroppedAreGone, Lifecycle, LiveIsListed, Live, PastSet, scan
  <1>13. ASSUME NEW c \in Conn, CheckOpen(c) PROVE LiveIsListed'
    BY <1>13, Tasks DEF CheckOpen, TypeOK, ListedAfterSet, DroppedAreGone, Lifecycle, LiveIsListed, Live, PastSet, scan
  <1>14. ASSUME NEW c \in Conn, StartRegister(c) PROVE LiveIsListed'
    BY <1>14, Tasks DEF StartRegister, TypeOK, ListedAfterSet, DroppedAreGone, Lifecycle, LiveIsListed, Live, PastSet, scan
  <1>15. ASSUME NEW c \in Conn, Close(c) PROVE LiveIsListed'
    BY <1>15, Tasks DEF Close, TypeOK, ListedAfterSet, DroppedAreGone, Lifecycle, LiveIsListed, Live, PastSet, scan
  <1>16. ASSUME NEW c \in Conn, Crash(c) PROVE LiveIsListed'
    BY <1>16, Tasks DEF Crash, TypeOK, ListedAfterSet, DroppedAreGone, Lifecycle, LiveIsListed, Live, PastSet, scan
  <1>17. ASSUME NEW c \in Conn, Expire(c) PROVE LiveIsListed'
    BY <1>17, Tasks DEF Expire, Refreshed, TypeOK, ListedAfterSet, DroppedAreGone, Lifecycle, LiveIsListed, Live, PastSet, scan
  <1>18. ASSUME NEW a \in Asker, StartAsk(a) PROVE LiveIsListed'
    BY <1>18, Tasks DEF StartAsk, TypeOK, ListedAfterSet, DroppedAreGone, Lifecycle, LiveIsListed, Live, PastSet, scan
  <1>19. CASE UNCHANGED vars
    BY <1>19 DEF vars, TypeOK, ListedAfterSet, DroppedAreGone, Lifecycle, LiveIsListed, Live, PastSet, scan
  <1> QED
    BY <1>1, <1>2, <1>3, <1>4, <1>5, <1>6, <1>7, <1>8, <1>9, <1>10, <1>11, <1>12, <1>13, <1>14, <1>15, <1>16, <1>17, <1>18, <1>19
    DEF Next, Scan, Calls, SetAndAdd, Handler

\* A connection that is no longer live does not become live again.
LEMMA NoneReturns == TypeOK /\ ListedAfterSet /\ Lifecycle /\ [Next]_vars => added \cap Live' \subseteq Live
  <1> SUFFICES ASSUME TypeOK, ListedAfterSet, Lifecycle, [Next]_vars PROVE added \cap Live' \subseteq Live
    OBVIOUS
  <1>1. ASSUME NEW t \in Task, ReadMembers(t) PROVE added \cap Live' \subseteq Live
    BY <1>1, Tasks DEF ReadMembers, TypeOK, ListedAfterSet, Lifecycle, Live, PastSet, scan
  <1>2. ASSUME NEW t \in Task, NEW c \in Conn, ReadKey(t, c) PROVE added \cap Live' \subseteq Live
    BY <1>2, Tasks DEF ReadKey, TypeOK, ListedAfterSet, Lifecycle, Live, PastSet, scan
  <1>3. ASSUME NEW t \in Task, NEW c \in Conn, DropMember(t, c) PROVE added \cap Live' \subseteq Live
    BY <1>3, Tasks DEF DropMember, TypeOK, ListedAfterSet, Lifecycle, Live, PastSet, scan
  <1>4. ASSUME NEW t \in Task, Answer(t) PROVE added \cap Live' \subseteq Live
    BY <1>4, Tasks DEF Answer, AfterScan, TypeOK, ListedAfterSet, Lifecycle, Live, PastSet, scan
  <1>5. ASSUME NEW t \in Task, CallFails(t) PROVE added \cap Live' \subseteq Live
    BY <1>5, Tasks DEF CallFails, TypeOK, ListedAfterSet, Lifecycle, Live, PastSet, scan
  <1>6. ASSUME NEW c \in Conn, SetKey(c) PROVE added \cap Live' \subseteq Live
    BY <1>6, Tasks DEF SetKey, Reply, TypeOK, ListedAfterSet, Lifecycle, Live, PastSet, scan
  <1>7. ASSUME NEW c \in Conn, AddMember(c) PROVE added \cap Live' \subseteq Live
    BY <1>7, Tasks DEF AddMember, Reply, TypeOK, ListedAfterSet, Lifecycle, Live, PastSet, scan
  <1>8. ASSUME NEW c \in Conn, PublishOnline(c) PROVE added \cap Live' \subseteq Live
    BY <1>8, Tasks DEF PublishOnline, Reply, TypeOK, ListedAfterSet, Lifecycle, Live, PastSet, scan
  <1>9. ASSUME NEW c \in Conn, DeleteKey(c) PROVE added \cap Live' \subseteq Live
    BY <1>9, Tasks DEF DeleteKey, Reply, TypeOK, ListedAfterSet, Lifecycle, Live, PastSet, scan
  <1>10. ASSUME NEW c \in Conn, RemoveMember(c) PROVE added \cap Live' \subseteq Live
    BY <1>10, Tasks DEF RemoveMember, Reply, TypeOK, ListedAfterSet, Lifecycle, Live, PastSet, scan
  <1>11. ASSUME NEW c \in Conn, PublishOffline(c) PROVE added \cap Live' \subseteq Live
    BY <1>11, Tasks DEF PublishOffline, Reply, TypeOK, ListedAfterSet, Lifecycle, Live, PastSet, scan
  <1>12. ASSUME NEW c \in Conn, Connect(c) PROVE added \cap Live' \subseteq Live
    BY <1>12, Tasks DEF Connect, TypeOK, ListedAfterSet, Lifecycle, Live, PastSet, scan
  <1>13. ASSUME NEW c \in Conn, CheckOpen(c) PROVE added \cap Live' \subseteq Live
    BY <1>13, Tasks DEF CheckOpen, TypeOK, ListedAfterSet, Lifecycle, Live, PastSet, scan
  <1>14. ASSUME NEW c \in Conn, StartRegister(c) PROVE added \cap Live' \subseteq Live
    BY <1>14, Tasks DEF StartRegister, TypeOK, ListedAfterSet, Lifecycle, Live, PastSet, scan
  <1>15. ASSUME NEW c \in Conn, Close(c) PROVE added \cap Live' \subseteq Live
    BY <1>15, Tasks DEF Close, TypeOK, ListedAfterSet, Lifecycle, Live, PastSet, scan
  <1>16. ASSUME NEW c \in Conn, Crash(c) PROVE added \cap Live' \subseteq Live
    BY <1>16, Tasks DEF Crash, TypeOK, ListedAfterSet, Lifecycle, Live, PastSet, scan
  <1>17. ASSUME NEW c \in Conn, Expire(c) PROVE added \cap Live' \subseteq Live
    BY <1>17, Tasks DEF Expire, Refreshed, TypeOK, ListedAfterSet, Lifecycle, Live, PastSet, scan
  <1>18. ASSUME NEW a \in Asker, StartAsk(a) PROVE added \cap Live' \subseteq Live
    BY <1>18, Tasks DEF StartAsk, TypeOK, ListedAfterSet, Lifecycle, Live, PastSet, scan
  <1>19. CASE UNCHANGED vars
    BY <1>19 DEF vars, TypeOK, ListedAfterSet, Lifecycle, Live, PastSet, scan
  <1> QED
    BY <1>1, <1>2, <1>3, <1>4, <1>5, <1>6, <1>7, <1>8, <1>9, <1>10, <1>11, <1>12, <1>13, <1>14, <1>15, <1>16, <1>17, <1>18, <1>19
    DEF Next, Scan, Calls, SetAndAdd, Handler

\* A scan starts with every live connection to read, and finds those it reads.
LEMMA CoverStep == TypeOK /\ ListedAfterSet /\ Lifecycle /\ LiveIsListed /\ ScanCovers /\ [Next]_vars => ScanCovers'
  <1> SUFFICES ASSUME TypeOK, ListedAfterSet, Lifecycle, LiveIsListed, ScanCovers, [Next]_vars PROVE ScanCovers'
    OBVIOUS
  <1>1. ASSUME NEW t \in Task, ReadMembers(t) PROVE ScanCovers'
    BY <1>1, NoneReturns DEF ReadMembers, TypeOK, ScanCovers, LiveIsListed, Live
  <1>2. ASSUME NEW t \in Task, NEW c \in Conn, ReadKey(t, c) PROVE ScanCovers'
    BY <1>2, NoneReturns DEF ReadKey, TypeOK, ScanCovers, Live
  <1>3. ASSUME NEW t \in Task, NEW c \in Conn, DropMember(t, c) PROVE ScanCovers'
    BY <1>3, Tasks, NoneReturns DEF DropMember, TypeOK, ScanCovers, scan
  <1>4. ASSUME NEW t \in Task, Answer(t) PROVE ScanCovers'
    BY <1>4, Tasks, NoneReturns DEF Answer, AfterScan, TypeOK, ScanCovers, scan
  <1>5. ASSUME NEW t \in Task, CallFails(t) PROVE ScanCovers'
    BY <1>5, Tasks, NoneReturns DEF CallFails, TypeOK, ScanCovers, scan
  <1>6. ASSUME NEW c \in Conn, SetKey(c) PROVE ScanCovers'
    BY <1>6, Tasks, NoneReturns DEF SetKey, Reply, TypeOK, ScanCovers, scan
  <1>7. ASSUME NEW c \in Conn, AddMember(c) PROVE ScanCovers'
    BY <1>7, Tasks, NoneReturns DEF AddMember, Reply, TypeOK, ScanCovers, scan
  <1>8. ASSUME NEW c \in Conn, PublishOnline(c) PROVE ScanCovers'
    BY <1>8, Tasks, NoneReturns DEF PublishOnline, Reply, TypeOK, ScanCovers, scan
  <1>9. ASSUME NEW c \in Conn, DeleteKey(c) PROVE ScanCovers'
    BY <1>9, Tasks, NoneReturns DEF DeleteKey, Reply, TypeOK, ScanCovers, scan
  <1>10. ASSUME NEW c \in Conn, RemoveMember(c) PROVE ScanCovers'
    BY <1>10, Tasks, NoneReturns DEF RemoveMember, Reply, TypeOK, ScanCovers, scan
  <1>11. ASSUME NEW c \in Conn, PublishOffline(c) PROVE ScanCovers'
    BY <1>11, Tasks, NoneReturns DEF PublishOffline, Reply, TypeOK, ScanCovers, scan
  <1>12. ASSUME NEW c \in Conn, Connect(c) PROVE ScanCovers'
    BY <1>12, Tasks, NoneReturns DEF Connect, TypeOK, ScanCovers, scan
  <1>13. ASSUME NEW c \in Conn, CheckOpen(c) PROVE ScanCovers'
    BY <1>13, Tasks, NoneReturns DEF CheckOpen, TypeOK, ScanCovers, scan
  <1>14. ASSUME NEW c \in Conn, StartRegister(c) PROVE ScanCovers'
    BY <1>14, Tasks, NoneReturns DEF StartRegister, TypeOK, ScanCovers, scan
  <1>15. ASSUME NEW c \in Conn, Close(c) PROVE ScanCovers'
    BY <1>15, Tasks, NoneReturns DEF Close, TypeOK, ScanCovers, scan
  <1>16. ASSUME NEW c \in Conn, Crash(c) PROVE ScanCovers'
    BY <1>16, Tasks, NoneReturns DEF Crash, TypeOK, ScanCovers, scan
  <1>17. ASSUME NEW c \in Conn, Expire(c) PROVE ScanCovers'
    BY <1>17, Tasks, NoneReturns DEF Expire, Refreshed, TypeOK, ScanCovers, scan
  <1>18. ASSUME NEW a \in Asker, StartAsk(a) PROVE ScanCovers'
    BY <1>18, Tasks, NoneReturns DEF StartAsk, TypeOK, ScanCovers, scan
  <1>19. CASE UNCHANGED vars
    BY <1>19 DEF vars, TypeOK, ScanCovers, scan, Live
  <1> QED
    BY <1>1, <1>2, <1>3, <1>4, <1>5, <1>6, <1>7, <1>8, <1>9, <1>10, <1>11, <1>12, <1>13, <1>14, <1>15, <1>16, <1>17, <1>18, <1>19
    DEF Next, Scan, Calls, SetAndAdd, Handler

\* An answer covers every live connection, and none comes back to life.
LEMMA HonestStep == TypeOK /\ ListedAfterSet /\ Lifecycle /\ ScanCovers /\ OfflineIsHonest /\ [Next]_vars => OfflineIsHonest'
  <1> SUFFICES ASSUME TypeOK, ListedAfterSet, Lifecycle, ScanCovers, OfflineIsHonest, [Next]_vars PROVE OfflineIsHonest'
    OBVIOUS
  <1>1. ASSUME NEW t \in Task, ReadMembers(t) PROVE OfflineIsHonest'
    BY <1>1, Tasks, NoneReturns DEF ReadMembers, TypeOK, ScanCovers, OfflineIsHonest, Answered, scan
  <1>2. ASSUME NEW t \in Task, NEW c \in Conn, ReadKey(t, c) PROVE OfflineIsHonest'
    BY <1>2, Tasks, NoneReturns DEF ReadKey, TypeOK, ScanCovers, OfflineIsHonest, Answered, scan
  <1>3. ASSUME NEW t \in Task, NEW c \in Conn, DropMember(t, c) PROVE OfflineIsHonest'
    BY <1>3, Tasks, NoneReturns DEF DropMember, TypeOK, ScanCovers, OfflineIsHonest, Answered, scan
  <1>4. ASSUME NEW t \in Task, Answer(t) PROVE OfflineIsHonest'
    BY <1>4, Tasks, NoneReturns DEF Answer, AfterScan, TypeOK, ScanCovers, OfflineIsHonest, Answered, scan
  <1>5. ASSUME NEW t \in Task, CallFails(t) PROVE OfflineIsHonest'
    BY <1>5, Tasks, NoneReturns DEF CallFails, TypeOK, ScanCovers, OfflineIsHonest, Answered, scan
  <1>6. ASSUME NEW c \in Conn, SetKey(c) PROVE OfflineIsHonest'
    BY <1>6, Tasks, NoneReturns DEF SetKey, Reply, TypeOK, ScanCovers, OfflineIsHonest, Answered, scan
  <1>7. ASSUME NEW c \in Conn, AddMember(c) PROVE OfflineIsHonest'
    BY <1>7, Tasks, NoneReturns DEF AddMember, Reply, TypeOK, ScanCovers, OfflineIsHonest, Answered, scan
  <1>8. ASSUME NEW c \in Conn, PublishOnline(c) PROVE OfflineIsHonest'
    BY <1>8, Tasks, NoneReturns DEF PublishOnline, Reply, TypeOK, ScanCovers, OfflineIsHonest, Answered, scan
  <1>9. ASSUME NEW c \in Conn, DeleteKey(c) PROVE OfflineIsHonest'
    BY <1>9, Tasks, NoneReturns DEF DeleteKey, Reply, TypeOK, ScanCovers, OfflineIsHonest, Answered, scan
  <1>10. ASSUME NEW c \in Conn, RemoveMember(c) PROVE OfflineIsHonest'
    BY <1>10, Tasks, NoneReturns DEF RemoveMember, Reply, TypeOK, ScanCovers, OfflineIsHonest, Answered, scan
  <1>11. ASSUME NEW c \in Conn, PublishOffline(c) PROVE OfflineIsHonest'
    BY <1>11, Tasks, NoneReturns DEF PublishOffline, Reply, TypeOK, ScanCovers, OfflineIsHonest, Answered, scan
  <1>12. ASSUME NEW c \in Conn, Connect(c) PROVE OfflineIsHonest'
    BY <1>12, Tasks, NoneReturns DEF Connect, TypeOK, ScanCovers, OfflineIsHonest, Answered, scan
  <1>13. ASSUME NEW c \in Conn, CheckOpen(c) PROVE OfflineIsHonest'
    BY <1>13, Tasks, NoneReturns DEF CheckOpen, TypeOK, ScanCovers, OfflineIsHonest, Answered, scan
  <1>14. ASSUME NEW c \in Conn, StartRegister(c) PROVE OfflineIsHonest'
    BY <1>14, Tasks, NoneReturns DEF StartRegister, TypeOK, ScanCovers, OfflineIsHonest, Answered, scan
  <1>15. ASSUME NEW c \in Conn, Close(c) PROVE OfflineIsHonest'
    BY <1>15, Tasks, NoneReturns DEF Close, TypeOK, ScanCovers, OfflineIsHonest, Answered, scan
  <1>16. ASSUME NEW c \in Conn, Crash(c) PROVE OfflineIsHonest'
    BY <1>16, Tasks, NoneReturns DEF Crash, TypeOK, ScanCovers, OfflineIsHonest, Answered, scan
  <1>17. ASSUME NEW c \in Conn, Expire(c) PROVE OfflineIsHonest'
    BY <1>17, Tasks, NoneReturns DEF Expire, Refreshed, TypeOK, ScanCovers, OfflineIsHonest, Answered, scan
  <1>18. ASSUME NEW a \in Asker, StartAsk(a) PROVE OfflineIsHonest'
    BY <1>18, Tasks, NoneReturns DEF StartAsk, TypeOK, ScanCovers, OfflineIsHonest, Answered, scan
  <1>19. CASE UNCHANGED vars
    BY <1>19 DEF vars, TypeOK, ScanCovers, OfflineIsHonest, Answered, scan, Live
  <1> QED
    BY <1>1, <1>2, <1>3, <1>4, <1>5, <1>6, <1>7, <1>8, <1>9, <1>10, <1>11, <1>12, <1>13, <1>14, <1>15, <1>16, <1>17, <1>18, <1>19
    DEF Next, Scan, Calls, SetAndAdd, Handler

LEMMA Initially == Init => IInv
  BY PresenceAssumption, Tasks
  DEF Init, IInv, TypeOK, ConnState, Stage, ListedAfterSet, DroppedAreGone, Lifecycle,
      ScanCovers, LiveIsListed, OfflineIsHonest, Answered, Live

LEMMA Kept == IInv /\ [Next]_vars => IInv'
  BY TypeStep, ListedStep, DroppedStep, LifecycleStep, LiveStep, CoverStep, HonestStep
  DEF IInv

\* The conjunction is an invariant, whatever fails and whoever crashes.
THEOREM Invariance == Spec => []IInv
  BY Initially, Kept, PTL DEF Spec

\* A live connection is a member of its user's set, whatever scans run
\* (LiveIsListed, presence.ts:80-82).
THEOREM LiveConnectionsAreListed == Spec => []LiveIsListed
  <1>1. IInv => LiveIsListed
    BY DEF IInv
  <1> QED
    BY <1>1, Invariance, PTL

\* No scan that answers "offline" overlooked a connection that was live all the
\* while (OfflineIsHonest, presence.ts:66-67).
THEOREM OfflineAnswersAreHonest == Spec => []OfflineIsHonest
  <1>1. IInv => OfflineIsHonest
    BY DEF IInv
  <1> QED
    BY <1>1, Invariance, PTL

-----------------------------------------------------------------------------
\* The same with the realtime servers that forward the events.  A step of
\* PresenceFeed is one of Presence, moves only watchers and handlers, or is a
\* failed query of a handler, which counts as a fault and nothing else here.
LEMMA FeedStep ==
  ASSUME [FeedNext]_feedVars
  PROVE  \/ [Next]_vars
         \/ \E w \in Asker, e \in Event : ForwardFails(w, e)
  <1>1. ASSUME NEW t \in Task, Quietly(Scan(t)) \/ Quietly(CallFails(t)) PROVE Next
    BY <1>1 DEF Quietly, Next
  <1>2. ASSUME NEW c \in Conn, Quietly(Stores(c)) \/ Announce(c) \/ Quietly(Opens(c)) \/ Quietly(Moves(c))
        PROVE  Next
    BY <1>2 DEF Quietly, Stores, Announce, Opens, Moves, Next, Calls, SetAndAdd, Handler
  <1>3. ASSUME NEW w \in Asker, AskForMember(w) PROVE Next
    BY <1>3 DEF AskForMember, Next
  <1>4. ASSUME NEW w \in Asker, Join(w) \/ Leave(w) \/ Greet(w) \/ GreetFails(w) PROVE UNCHANGED vars
    BY <1>4 DEF Join, Leave, Greet, GreetFails
  <1>5. ASSUME NEW w \in Asker, NEW e \in Event, Forward(w, e) PROVE UNCHANGED vars
    BY <1>5 DEF Forward
  <1>6. CASE UNCHANGED feedVars
    BY <1>6 DEF feedVars
  <1> QED
    BY <1>1, <1>2, <1>3, <1>4, <1>5, <1>6 DEF FeedNext, Handled

LEMMA FaultsAreNoMatter ==
  ASSUME IInv, NEW w \in Asker, NEW e \in Event, ForwardFails(w, e) PROVE IInv'
  <1>1. /\ faults' \in 0..MaxFaults
        /\ conn' = conn /\ keys' = keys /\ members' = members /\ pc' = pc /\ todo' = todo
        /\ drop' = drop /\ online' = online /\ base' = base /\ last' = last
        /\ crashes' = crashes /\ added' = added
    BY PresenceAssumption DEF ForwardFails, scan, IInv, TypeOK
  <1>2. TypeOK'
    BY <1>1 DEF IInv, TypeOK
  <1>3. Live' = Live
    BY <1>1 DEF Live
  <1>4. ListedAfterSet' /\ DroppedAreGone' /\ Lifecycle'
    BY <1>1 DEF IInv, ListedAfterSet, PastSet, DroppedAreGone, Lifecycle
  <1>5. ScanCovers' /\ LiveIsListed' /\ OfflineIsHonest'
    BY <1>1, <1>3 DEF IInv, ScanCovers, LiveIsListed, OfflineIsHonest, Answered
  <1> QED
    BY <1>2, <1>4, <1>5 DEF IInv

LEMMA FeedTypeStep == FeedTypeOK /\ [FeedNext]_feedVars => FeedTypeOK'
  <1> SUFFICES ASSUME FeedTypeOK, [FeedNext]_feedVars PROVE FeedTypeOK'
    OBVIOUS
  <1> DEFINE Seat == {"new", "late", "indexed", "greeted", "closed"}
  <1>1. ASSUME UNCHANGED feed PROVE FeedTypeOK'
    BY <1>1 DEF feed, FeedTypeOK
  <1>2. ASSUME NEW c \in Conn, Announce(c) PROVE FeedTypeOK'
    <2>1. ASSUME NEW e \in Event, Arrive(e) PROVE FeedTypeOK'
      <3>1. ASSUME NEW w \in Asker PROVE [inflight[w] EXCEPT ![e] = @ + 1] \in [Event -> Nat]
        BY DEF FeedTypeOK
      <3>2. inflight' \in [Asker -> [Event -> Nat]]
        BY <2>1, <3>1 DEF Arrive, FeedTypeOK
      <3> QED
        BY <2>1, <3>2 DEF Arrive, FeedTypeOK
    <2> QED
      BY <1>2, <2>1 DEF Announce, Event
  <1>3. ASSUME NEW w \in Asker, Join(w) \/ Leave(w) \/ GreetFails(w) PROVE FeedTypeOK'
    BY <1>3 DEF Join, Leave, GreetFails, FeedTypeOK
  <1>4. ASSUME NEW w \in Asker, Greet(w) PROVE FeedTypeOK'
    BY <1>4 DEF Greet, FeedTypeOK, Event
  <1>5. ASSUME NEW w \in Asker, NEW e \in Event, Forward(w, e) PROVE FeedTypeOK'
    <2>1. inflight[w] \in [Event -> Nat] /\ inflight[w][e] - 1 \in Nat
      BY <1>5 DEF Forward, FeedTypeOK
    <2>2. inflight' \in [Asker -> [Event -> Nat]]
      BY <1>5, <2>1 DEF Forward, FeedTypeOK
    <2> QED
      BY <1>5, <2>2 DEF Forward, FeedTypeOK
  <1>6. ASSUME NEW w \in Asker, NEW e \in Event, ForwardFails(w, e) PROVE FeedTypeOK'
    <2>1. inflight' \in [Asker -> [Event -> Nat]]
      BY <1>6 DEF ForwardFails, FeedTypeOK
    <2> QED
      BY <1>6, <2>1 DEF ForwardFails, FeedTypeOK
  <1> QED
    BY <1>1, <1>2, <1>3, <1>4, <1>5, <1>6
    DEF FeedNext, Handled, Quietly, AskForMember, feedVars

LEMMA FeedStart == FeedInit => IInv /\ FeedTypeOK
  <1>1. FeedInit => FeedTypeOK
    BY DEF FeedInit, FeedTypeOK, Event
  <1> QED
    BY <1>1, Initially DEF FeedInit

\* Forwarding events, and failing at it, disturbs nothing of Presence.
THEOREM FeedInvariance == FeedSpec => [](IInv /\ FeedTypeOK)
  <1>1. IInv /\ [FeedNext]_feedVars => IInv'
    BY Kept, FeedStep, FaultsAreNoMatter
  <1> QED
    BY <1>1, FeedStart, FeedTypeStep, PTL DEF FeedSpec
=============================================================================
