------------------------ MODULE DeviceRegistryProofs ------------------------
(***************************************************************************)
(* The safety of the device registry for every set of devices and          *)
(* connections: types, no ghost sessions, no device forgotten.             *)
(***************************************************************************)
EXTENDS DeviceRegistry, TLAPS

(* What a task carries fits where it is: it works for a device whenever it *)
(* is about to use one, a handler works for its own session, and a task    *)
(* about to park an entry has one in its hands.                            *)
JobsOK ==
  /\ \A s \in Sessions :
       /\ pc[s] \notin {"sleep", "scan", "next"}
       /\ pc[s] \notin {"new", "ended"} => job[s] # Absent
       /\ job[s] # Absent => job[s].sid = s
       /\ ret[s] \in {"serve", "ended"}
  /\ pc[Sweeper] \notin {"new", "ended"}
  /\ pc[Sweeper] \notin {"sleep", "scan", "next"} => job[Sweeper] # Absent
  /\ ret[Sweeper] = "next"
  /\ \A t \in Tasks : pc[t] = "park" => hand[t] # Absent

(* The handler of s is responsible for d, on behalf of its own session.    *)
Owns(s, d) == Responsible(s) /\ job[s] = [dev |-> d, sid |-> s]

(* Where a device in the server's care is.                                 *)
Kept(d) == \/ devices[d] # Absent
           \/ offline_devices[d] # Absent
           \/ \E t \in Tasks : Moving(t, d)

(* The inductive invariant.                                                *)
Inv == TypeOK /\ JobsOK /\ OnlineHasHandler /\ NeverForgotten

(* An entry of devices is not Absent, and stays an entry when it is        *)
(* refreshed, reported on or aged.                                         *)
LEMMA OnlineEntry ==
  ASSUME NEW r \in OnlineRec
  PROVE  /\ r # Absent
         /\ r.session \in Sessions
         /\ Lasting(r) \in OfflineRec /\ Lasting(r) # Absent
         /\ Heard(r) \in OnlineRec /\ Heard(r).session = r.session
         /\ Silent(r) \in OnlineRec /\ Silent(r).session = r.session
         /\ \A st \in Statuses : /\ Reported(r, st) \in OnlineRec
                                 /\ Reported(r, st).session = r.session
<1>1. r # Absent
  BY RegistryAssumption
<1>2. Lasting(r) \in OfflineRec /\ r.session \in Sessions
  BY <1>1 DEF Lasting, OfflineRec, OnlineRec
<1>3. Lasting(r) # Absent
  BY <1>2, RegistryAssumption
<1>4. Heard(r) \in OnlineRec /\ Heard(r).session = r.session
  BY DEF Heard, OnlineRec
<1>5. Silent(r) \in OnlineRec /\ Silent(r).session = r.session
  BY DEF Silent, OnlineRec
<1>6. \A st \in Statuses : /\ Reported(r, st) \in OnlineRec
                           /\ Reported(r, st).session = r.session
  BY DEF Reported, OnlineRec
<1> QED
  BY <1>1, <1>2, <1>3, <1>4, <1>5, <1>6

(* An entry of offline_devices is not Absent.                              *)
LEMMA OfflineEntry ==
  ASSUME NEW r \in OfflineRec
  PROVE  r # Absent /\ Lasting(r) \in OfflineRec /\ Lasting(r) # Absent
  BY RegistryAssumption DEF Lasting, OfflineRec

(* A task's job names a device and a session.                              *)
LEMMA JobFields ==
  ASSUME NEW j \in Job
  PROVE  j # Absent /\ j.dev \in Devices /\ j.sid \in Sessions
  BY RegistryAssumption DEF Job

(* Visiting an entry keeps what is collected a snapshot.                   *)
LEMMA SnapshotGrows ==
  ASSUME NEW sn \in Snapshot, NEW d \in Devices, NEW r \in OfflineRec \cup {Absent}
  PROVE  WithOn(sn, d, r) \in Snapshot /\ WithOff(sn, d, r) \in Snapshot
  BY DEF WithOn, WithOff, Snapshot, PersistedMap

(* Every step is one of the actions.                                       *)
LEMMA NextCases ==
  ASSUME [Next]_vars
  PROVE  \/ UNCHANGED vars
         \/ \E s \in Sessions : Accept(s)
         \/ \E s \in Sessions : Reject(s)
         \/ \E s \in Sessions : TakePrior(s)
         \/ \E s \in Sessions : InsertOnline(s)
         \/ \E s \in Sessions : Pong(s)
         \/ \E s \in Sessions : Status(s)
         \/ \E s \in Sessions : PingFrame(s)
         \/ \E s \in Sessions : Ping(s)
         \/ \E s \in Sessions : Close(s)
         \/ \E s \in Sessions : LinkDies(s)
         \/ \E s \in Sessions : End(s)
         \/ \E t \in Tasks : SnapOnline(t)
         \/ \E t \in Tasks : SnapOffline(t)
         \/ \E t \in Tasks : Save(t)
         \/ \E t \in Tasks : BuildOnline(t)
         \/ \E t \in Tasks : BuildOffline(t)
         \/ \E t \in Tasks : SendEvent(t)
         \/ \E t \in Tasks : CheckSession(t)
         \/ \E t \in Tasks : RemoveOnline(t)
         \/ \E t \in Tasks : Park(t)
         \/ StartSweep \/ Scan \/ NextStale
         \/ \E d \in Devices : Age(d)
         \/ Restart
  BY DEF Next, Handler, Finish, Unregister, Sweep, Tasks

(* Types are preserved.                                                    *)
LEMMA TypeStep ==
  ASSUME TypeOK, JobsOK, [Next]_vars
  PROVE  TypeOK'
<1> USE DEF TypeOK, Goto, Tasks, Places
<1>a. \A t \in Tasks : job[t] # Absent => Dev(t) \in Devices
  BY JobFields DEF Dev
<1>b. \A s \in Sessions : pc[s] \notin {"new", "ended"} => Dev(s) \in Devices
  BY <1>a DEF JobsOK
<1>c. \A t \in Tasks : pc[t] \in Finishing \cup {"check", "remove", "park"} => Dev(t) \in Devices
  BY <1>a DEF JobsOK, Finishing
<1>1. CASE UNCHANGED vars
  BY <1>1 DEF vars, maps
<1>2. ASSUME NEW s \in Sessions, Accept(s) PROVE TypeOK'
  BY <1>2 DEF Accept, maps, Job
<1>3. ASSUME NEW s \in Sessions, Reject(s) PROVE TypeOK'
  BY <1>3 DEF Reject, maps
<1>4. ASSUME NEW s \in Sessions, TakePrior(s) PROVE TypeOK'
  BY <1>4, <1>b DEF TakePrior, maps, PersistedMap
<1>5. ASSUME NEW s \in Sessions, InsertOnline(s) PROVE TypeOK'
  BY <1>5, <1>b DEF InsertOnline, maps, FinishWith, AfterWrite, AfterSave,
     Prior, Fresh, OnlineRec, OfflineRec
<1>6. ASSUME NEW s \in Sessions, Pong(s) PROVE TypeOK'
  BY <1>6 DEF Pong, maps
<1>7. ASSUME NEW s \in Sessions, Status(s) PROVE TypeOK'
  <2>1. PICK st \in Statuses :
          devices' = [devices EXCEPT ![Dev(s)] = Reported(@, st)]
    BY <1>7 DEF Status
  <2>2. devices' \in [Devices -> OnlineRec \cup {Absent}]
    BY <1>7, <2>1, <1>b, OnlineEntry DEF Status
  <2> QED
    BY <1>7, <2>2 DEF Status, maps, FinishWith, AfterWrite, AfterSave
<1>8. ASSUME NEW s \in Sessions, PingFrame(s) PROVE TypeOK'
  BY <1>8, <1>b, OnlineEntry DEF PingFrame, maps, Touch
<1>9. ASSUME NEW s \in Sessions, Ping(s) PROVE TypeOK'
  BY <1>9, <1>b, OnlineEntry DEF Ping, maps, Touch
<1>10. ASSUME NEW s \in Sessions, Close(s) PROVE TypeOK'
  BY <1>10 DEF Close, maps
<1>11. ASSUME NEW s \in Sessions, LinkDies(s) PROVE TypeOK'
  BY <1>11 DEF LinkDies, maps
<1>12. ASSUME NEW s \in Sessions, End(s) PROVE TypeOK'
  BY <1>12 DEF End, maps, Leave
<1>13. ASSUME NEW t \in Tasks, SnapOnline(t) PROVE TypeOK'
  <2>1. \A d \in Devices : Lasting(devices[d]) \in OfflineRec \cup {Absent}
    BY OnlineEntry DEF Lasting
  <2>2. snap' \in [Tasks -> Snapshot]
    BY <1>13, <2>1, SnapshotGrows DEF SnapOnline
  <2> QED
    BY <1>13, <2>2 DEF SnapOnline, maps
<1>14. ASSUME NEW t \in Tasks, SnapOffline(t) PROVE TypeOK'
  <2>1. snap' \in [Tasks -> Snapshot]
    BY <1>14, SnapshotGrows DEF SnapOffline, PersistedMap
  <2> QED
    BY <1>14, <2>1 DEF SnapOffline, maps
<1>15. ASSUME NEW t \in Tasks, Save(t) PROVE TypeOK'
  <2>1. EmptySnap \in Snapshot
    BY DEF EmptySnap, EmptyMap, Snapshot, PersistedMap
  <2>2. file' \in Snapshot
    BY <1>15, <2>1 DEF Save, Saved
  <2> QED
    BY <1>15, <2>1, <2>2 DEF Save, maps, AfterSave
<1>16. ASSUME NEW t \in Tasks, BuildOnline(t) PROVE TypeOK'
  <2>1. devices[Dev(t)] # Absent =>
          [online |-> TRUE, status |-> devices[Dev(t)].status] \in View
    BY <1>16, <1>c DEF BuildOnline, Finishing, View, OnlineRec
  <2> QED
    BY <1>16, <2>1 DEF BuildOnline, maps
<1>17. ASSUME NEW t \in Tasks, BuildOffline(t) PROVE TypeOK'
  BY <1>17, <1>c DEF BuildOffline, maps, Finishing, View, OfflineRec,
     PersistedMap
<1>18. ASSUME NEW t \in Tasks, SendEvent(t) PROVE TypeOK'
  BY <1>18, <1>c DEF SendEvent, maps, Finishing
<1>19. ASSUME NEW t \in Tasks, CheckSession(t) PROVE TypeOK'
  BY <1>19 DEF CheckSession, maps, Done
<1>20. ASSUME NEW t \in Tasks, RemoveOnline(t) PROVE TypeOK'
  BY <1>20, <1>c DEF RemoveOnline, maps, Done, Finishing
<1>21. ASSUME NEW t \in Tasks, Park(t) PROVE TypeOK'
  <2>1. hand[t] # Absent /\ Dev(t) \in Devices
    BY <1>21, <1>c DEF Park, JobsOK
  <2>2. Lasting(hand[t]) \in OfflineRec
    BY <2>1, OnlineEntry, OfflineEntry
  <2> QED
    BY <1>21, <2>1, <2>2 DEF Park, maps, Done, FinishWith, AfterWrite,
       AfterSave, PersistedMap
<1>22. CASE StartSweep
  BY <1>22 DEF StartSweep, maps
<1>23. CASE Scan
  BY <1>23 DEF Scan, maps, Job, OnlineRec
<1>24. CASE NextStale
  BY <1>24 DEF NextStale, maps, Leave
<1>25. ASSUME NEW d \in Devices, Age(d) PROVE TypeOK'
  BY <1>25, OnlineEntry DEF Age, maps
<1>26. CASE Restart
  BY <1>26 DEF Restart, Done, EmptyMap, EmptySnap, Restored, Snapshot,
     PersistedMap
<1> QED
  BY <1>1, <1>2, <1>3, <1>4, <1>5, <1>6, <1>7, <1>8, <1>9, <1>10, <1>11,
     <1>12, <1>13, <1>14, <1>15, <1>16, <1>17, <1>18, <1>19, <1>20, <1>21,
     <1>22, <1>23, <1>24, <1>25, <1>26, NextCases

(* What the tasks carry stays right.                                       *)
LEMMA JobsStep ==
  ASSUME TypeOK, JobsOK, [Next]_vars
  PROVE  JobsOK'
<1> USE RegistryAssumption DEF TypeOK, JobsOK, Goto, Tasks
<1>1. CASE UNCHANGED vars
  BY <1>1 DEF vars, maps
<1>2. ASSUME NEW s \in Sessions, Accept(s) PROVE JobsOK'
  BY <1>2 DEF Accept, maps, Job
<1>3. ASSUME NEW s \in Sessions, Reject(s) PROVE JobsOK'
  BY <1>3 DEF Reject, maps
<1>4. ASSUME NEW s \in Sessions, TakePrior(s) PROVE JobsOK'
  BY <1>4 DEF TakePrior, maps
<1>5. ASSUME NEW s \in Sessions, InsertOnline(s) PROVE JobsOK'
  BY <1>5 DEF InsertOnline, maps, FinishWith, AfterWrite, AfterSave
<1>6. ASSUME NEW s \in Sessions, Pong(s) PROVE JobsOK'
  BY <1>6 DEF Pong, maps
<1>7. ASSUME NEW s \in Sessions, Status(s) PROVE JobsOK'
  BY <1>7 DEF Status, maps, FinishWith, AfterWrite, AfterSave
<1>8. ASSUME NEW s \in Sessions, PingFrame(s) PROVE JobsOK'
  BY <1>8 DEF PingFrame, maps
<1>9. ASSUME NEW s \in Sessions, Ping(s) PROVE JobsOK'
  BY <1>9 DEF Ping, maps
<1>10. ASSUME NEW s \in Sessions, Close(s) PROVE JobsOK'
  BY <1>10 DEF Close, maps
<1>11. ASSUME NEW s \in Sessions, LinkDies(s) PROVE JobsOK'
  BY <1>11 DEF LinkDies, maps
<1>12. ASSUME NEW s \in Sessions, End(s) PROVE JobsOK'
  BY <1>12 DEF End, maps, Leave
<1>13. ASSUME NEW t \in Tasks, SnapOnline(t) PROVE JobsOK'
  BY <1>13 DEF SnapOnline, maps
<1>14. ASSUME NEW t \in Tasks, SnapOffline(t) PROVE JobsOK'
  BY <1>14 DEF SnapOffline, maps
<1>15. ASSUME NEW t \in Tasks, Save(t) PROVE JobsOK'
  BY <1>15 DEF Save, maps, AfterSave
<1>16. ASSUME NEW t \in Tasks, BuildOnline(t) PROVE JobsOK'
  BY <1>16 DEF BuildOnline, maps
<1>17. ASSUME NEW t \in Tasks, BuildOffline(t) PROVE JobsOK'
  BY <1>17 DEF BuildOffline, maps
<1>18. ASSUME NEW t \in Tasks, SendEvent(t) PROVE JobsOK'
  BY <1>18 DEF SendEvent, maps
<1>19. ASSUME NEW t \in Tasks, CheckSession(t) PROVE JobsOK'
  BY <1>19 DEF CheckSession, maps, Done
<1>20. ASSUME NEW t \in Tasks, RemoveOnline(t) PROVE JobsOK'
  BY <1>20 DEF RemoveOnline, maps, Done
<1>21. ASSUME NEW t \in Tasks, Park(t) PROVE JobsOK'
  BY <1>21 DEF Park, maps, Done, FinishWith, AfterWrite, AfterSave
<1>22. CASE StartSweep
  BY <1>22 DEF StartSweep, maps
<1>23. CASE Scan
  BY <1>23 DEF Scan, maps
<1>24. CASE NextStale
  BY <1>24, JobFields DEF NextStale, maps, Leave
<1>25. ASSUME NEW d \in Devices, Age(d) PROVE JobsOK'
  BY <1>25 DEF Age, maps
<1>26. CASE Restart
  BY <1>26 DEF Restart, Done
<1> QED
  BY <1>1, <1>2, <1>3, <1>4, <1>5, <1>6, <1>7, <1>8, <1>9, <1>10, <1>11,
     <1>12, <1>13, <1>14, <1>15, <1>16, <1>17, <1>18, <1>19, <1>20, <1>21,
     <1>22, <1>23, <1>24, <1>25, <1>26, NextCases

(* The handler of an online device stays responsible for it.               *)
LEMMA HandlerStep ==
  ASSUME TypeOK, JobsOK, OnlineHasHandler, [Next]_vars
  PROVE  OnlineHasHandler'
<1> SUFFICES ASSUME NEW d0 \in Devices, devices'[d0] # Absent,
                    NEW s0, s0 = devices'[d0].session
             PROVE  Owns(s0, d0)'
  BY DEF OnlineHasHandler, Owns
<1> USE RegistryAssumption DEF Owns, Responsible, Finishing, Goto, Tasks
<1>a. ASSUME devices[d0] # Absent
      PROVE  /\ devices[d0].session \in Sessions
             /\ devices[d0].session # Sweeper
             /\ Owns(devices[d0].session, d0)
  BY <1>a, OnlineEntry DEF TypeOK, OnlineHasHandler
<1>b. \A s \in Sessions : pc[s] \notin {"new", "ended"} => Dev(s) \in Devices
  BY JobFields DEF TypeOK, JobsOK, Dev
<1>c. \A t \in Tasks : pc[t] \in Finishing \cup {"check", "remove", "park"} => Dev(t) \in Devices
  BY JobFields DEF TypeOK, JobsOK, Dev
<1>1. CASE UNCHANGED vars
  BY <1>1, <1>a DEF vars, maps
<1>2. ASSUME NEW s \in Sessions, Accept(s) PROVE Owns(s0, d0)'
  BY <1>2, <1>a DEF Accept, maps, TypeOK
<1>3. ASSUME NEW s \in Sessions, Reject(s) PROVE Owns(s0, d0)'
  BY <1>3, <1>a DEF Reject, maps, TypeOK
<1>4. ASSUME NEW s \in Sessions, TakePrior(s) PROVE Owns(s0, d0)'
  BY <1>4, <1>a DEF TakePrior, maps, TypeOK
<1>5. ASSUME NEW s \in Sessions, InsertOnline(s) PROVE Owns(s0, d0)'
  <2>1. job[s] = [dev |-> Dev(s), sid |-> s] /\ Dev(s) \in Devices
    BY <1>5, <1>b DEF InsertOnline, TypeOK, JobsOK, Job, Dev
  <2>2. pc'[s] \in Finishing \cup {"serve"} /\ ret'[s] = "serve"
    BY <1>5 DEF InsertOnline, TypeOK, FinishWith, AfterWrite, AfterSave
  <2>3. CASE d0 = Dev(s)
    <3>1. s0 = s
      BY <1>5, <2>1, <2>3 DEF InsertOnline, TypeOK
    <3> QED
      BY <1>5, <2>1, <2>2, <2>3, <3>1 DEF InsertOnline
  <2>4. CASE d0 # Dev(s)
    <3>1. devices[d0] # Absent /\ devices[d0].session = s0
      BY <1>5, <2>1, <2>4 DEF InsertOnline, TypeOK
    <3>2. s0 # s
      BY <2>4, <3>1, <1>a DEF Dev
    <3> QED
      BY <1>5, <3>1, <3>2, <1>a DEF InsertOnline, FinishWith, TypeOK
  <2> QED
    BY <2>3, <2>4
<1>6. ASSUME NEW s \in Sessions, Pong(s) PROVE Owns(s0, d0)'
  BY <1>6, <1>a DEF Pong, maps, TypeOK
<1>7. ASSUME NEW s \in Sessions, Status(s) PROVE Owns(s0, d0)'
  <2>1. devices[d0] # Absent /\ devices[d0].session = s0
    BY <1>7, <1>b, OnlineEntry DEF Status, TypeOK
  <2> QED
    BY <1>7, <2>1, <1>a DEF Status, maps, TypeOK, FinishWith, AfterWrite,
       AfterSave
<1>8. ASSUME NEW s \in Sessions, PingFrame(s) PROVE Owns(s0, d0)'
  <2>1. devices[d0] # Absent /\ devices[d0].session = s0
    BY <1>8, <1>b, OnlineEntry DEF PingFrame, TypeOK, Touch
  <2> QED
    BY <1>8, <2>1, <1>a DEF PingFrame, maps, TypeOK
<1>9. ASSUME NEW s \in Sessions, Ping(s) PROVE Owns(s0, d0)'
  <2>1. devices[d0] # Absent /\ devices[d0].session = s0
    BY <1>9, <1>b, OnlineEntry DEF Ping, TypeOK, Touch
  <2> QED
    BY <1>9, <2>1, <1>a DEF Ping, maps, TypeOK
<1>10. ASSUME NEW s \in Sessions, Close(s) PROVE Owns(s0, d0)'
  BY <1>10, <1>a DEF Close, maps, TypeOK
<1>11. ASSUME NEW s \in Sessions, LinkDies(s) PROVE Owns(s0, d0)'
  BY <1>11, <1>a DEF LinkDies, maps, TypeOK
<1>12. ASSUME NEW s \in Sessions, End(s) PROVE Owns(s0, d0)'
  BY <1>12, <1>a DEF End, maps, TypeOK, Leave
<1>13. ASSUME NEW t \in Tasks, SnapOnline(t) PROVE Owns(s0, d0)'
  BY <1>13, <1>a DEF SnapOnline, maps, TypeOK
<1>14. ASSUME NEW t \in Tasks, SnapOffline(t) PROVE Owns(s0, d0)'
  BY <1>14, <1>a DEF SnapOffline, maps, TypeOK
<1>15. ASSUME NEW t \in Tasks, Save(t) PROVE Owns(s0, d0)'
  BY <1>15, <1>a DEF Save, maps, TypeOK, AfterSave
<1>16. ASSUME NEW t \in Tasks, BuildOnline(t) PROVE Owns(s0, d0)'
  BY <1>16, <1>a DEF BuildOnline, maps, TypeOK
<1>17. ASSUME NEW t \in Tasks, BuildOffline(t) PROVE Owns(s0, d0)'
  BY <1>17, <1>a DEF BuildOffline, maps, TypeOK
<1>18. ASSUME NEW t \in Tasks, SendEvent(t) PROVE Owns(s0, d0)'
  BY <1>18, <1>a DEF SendEvent, maps, TypeOK
<1>19. ASSUME NEW t \in Tasks, CheckSession(t) PROVE Owns(s0, d0)'
  BY <1>19, <1>a DEF CheckSession, maps, TypeOK, JobsOK, Done, Matches, Dev
<1>20. ASSUME NEW t \in Tasks, RemoveOnline(t) PROVE Owns(s0, d0)'
  <2>1. d0 # Dev(t) /\ devices[d0] # Absent /\ devices[d0].session = s0
    BY <1>20, <1>c DEF RemoveOnline, TypeOK
  <2>2. t # s0
    BY <2>1, <1>a DEF Dev
  <2> QED
    BY <1>20, <2>1, <2>2, <1>a DEF RemoveOnline, maps, TypeOK
<1>21. ASSUME NEW t \in Tasks, Park(t) PROVE Owns(s0, d0)'
  BY <1>21, <1>a DEF Park, maps, TypeOK, Done, FinishWith, AfterWrite, AfterSave
<1>22. CASE StartSweep
  BY <1>22, <1>a DEF StartSweep, maps, TypeOK
<1>23. CASE Scan
  BY <1>23, <1>a DEF Scan, maps, TypeOK
<1>24. CASE NextStale
  BY <1>24, <1>a DEF NextStale, maps, TypeOK, Leave
<1>25. ASSUME NEW d \in Devices, Age(d) PROVE Owns(s0, d0)'
  <2>1. devices[d0] # Absent /\ devices[d0].session = s0
    BY <1>25, OnlineEntry DEF Age, TypeOK
  <2> QED
    BY <1>25, <2>1, <1>a DEF Age, maps, TypeOK
<1>26. CASE Restart
  BY <1>26 DEF Restart, EmptyMap
<1> QED
  BY <1>1, <1>2, <1>3, <1>4, <1>5, <1>6, <1>7, <1>8, <1>9, <1>10, <1>11,
     <1>12, <1>13, <1>14, <1>15, <1>16, <1>17, <1>18, <1>19, <1>20, <1>21,
     <1>22, <1>23, <1>24, <1>25, <1>26, NextCases

(* A device in the server's care stays in a map or in a task's hands.      *)
LEMMA KeepStep ==
  ASSUME TypeOK, JobsOK, NeverForgotten, [Next]_vars
  PROVE  NeverForgotten'
<1> SUFFICES ASSUME NEW d0 \in known'
             PROVE  Kept(d0)'
  BY DEF NeverForgotten, Kept
<1> USE RegistryAssumption DEF Kept, Moving, Working, Goto, Tasks
<1>a. d0 \in known => Kept(d0)
  BY DEF NeverForgotten
<1>b. \A s \in Sessions : pc[s] \notin {"new", "ended"} => Dev(s) \in Devices /\ job[s] # Absent
  BY JobFields DEF TypeOK, JobsOK, Dev
<1>c. \A t \in Tasks : pc[t] \in Finishing \cup {"check", "remove", "park"}
                         => Dev(t) \in Devices /\ job[t] # Absent
  BY JobFields DEF TypeOK, JobsOK, Dev, Finishing
<1>1. CASE UNCHANGED vars
  BY <1>1, <1>a DEF vars, maps
<1>2. ASSUME NEW s \in Sessions, Accept(s) PROVE Kept(d0)'
  BY <1>2, <1>a DEF Accept, maps, TypeOK
<1>3. ASSUME NEW s \in Sessions, Reject(s) PROVE Kept(d0)'
  BY <1>3, <1>a DEF Reject, maps, TypeOK
<1>4. ASSUME NEW s \in Sessions, TakePrior(s) PROVE Kept(d0)'
  BY <1>4, <1>a, <1>b, OfflineEntry DEF TakePrior, maps, TypeOK, PersistedMap,
     Dev
<1>5. ASSUME NEW s \in Sessions, InsertOnline(s) PROVE Kept(d0)'
  <2>1. Dev(s) \in Devices
    BY <1>5, <1>b DEF InsertOnline
  <2>2. CASE d0 = Dev(s)
    <3>1. PICK ip \in LanIps \cup {NoIp} :
            devices' = [devices EXCEPT ![Dev(s)] =
                          [session |-> s, status |-> Prior(s).status,
                           lan |-> IF ip = NoIp THEN Prior(s).lan ELSE ip,
                           fresh |-> TRUE]]
      BY <1>5 DEF InsertOnline
    <3>2. [session |-> s, status |-> Prior(s).status,
           lan |-> IF ip = NoIp THEN Prior(s).lan ELSE ip, fresh |-> TRUE] \in OnlineRec
      BY DEF Prior, Fresh, OnlineRec, OfflineRec, TypeOK
    <3> QED
      BY <2>1, <2>2, <3>1, <3>2, OnlineEntry DEF TypeOK
  <2>3. CASE d0 # Dev(s)
    <3>1. d0 \in known /\ ~Moving(s, d0)
      BY <1>5, <2>3 DEF InsertOnline, Dev
    <3> QED
      BY <1>5, <1>a, <2>1, <2>3, <3>1 DEF InsertOnline, FinishWith, TypeOK
  <2> QED
    BY <2>2, <2>3
<1>6. ASSUME NEW s \in Sessions, Pong(s) PROVE Kept(d0)'
  BY <1>6, <1>a DEF Pong, maps, TypeOK
<1>7. ASSUME NEW s \in Sessions, Status(s) PROVE Kept(d0)'
  <2>1. PICK st \in Statuses :
          devices' = [devices EXCEPT ![Dev(s)] = Reported(@, st)]
    BY <1>7 DEF Status
  <2>2. d0 \in known /\ d0 \in Devices
    BY <1>7 DEF Status, TypeOK
  <2>3. devices[d0] # Absent => devices'[d0] # Absent
    BY <1>7, <1>b, <2>1, <2>2, OnlineEntry DEF Status, TypeOK
  <2> QED
    BY <1>7, <1>a, <2>2, <2>3 DEF Status, maps, FinishWith, TypeOK
<1>8. ASSUME NEW s \in Sessions, PingFrame(s) PROVE Kept(d0)'
  <2>1. d0 \in known /\ d0 \in Devices
    BY <1>8 DEF PingFrame, TypeOK
  <2>2. devices[d0] # Absent => devices'[d0] # Absent
    BY <1>8, <1>b, <2>1, OnlineEntry DEF PingFrame, TypeOK, Touch
  <2> QED
    BY <1>8, <1>a, <2>1, <2>2 DEF PingFrame, maps, TypeOK
<1>9. ASSUME NEW s \in Sessions, Ping(s) PROVE Kept(d0)'
  <2>1. d0 \in known /\ d0 \in Devices
    BY <1>9 DEF Ping, TypeOK
  <2>2. devices[d0] # Absent => devices'[d0] # Absent
    BY <1>9, <1>b, <2>1, OnlineEntry DEF Ping, TypeOK, Touch
  <2> QED
    BY <1>9, <1>a, <2>1, <2>2 DEF Ping, maps, TypeOK
<1>10. ASSUME NEW s \in Sessions, Close(s) PROVE Kept(d0)'
  BY <1>10, <1>a DEF Close, maps, TypeOK
<1>11. ASSUME NEW s \in Sessions, LinkDies(s) PROVE Kept(d0)'
  BY <1>11, <1>a DEF LinkDies, maps, TypeOK
<1>12. ASSUME NEW s \in Sessions, End(s) PROVE Kept(d0)'
  BY <1>12, <1>a DEF End, maps, TypeOK, Leave
<1>13. ASSUME NEW t \in Tasks, SnapOnline(t) PROVE Kept(d0)'
  BY <1>13, <1>a DEF SnapOnline, maps, TypeOK
<1>14. ASSUME NEW t \in Tasks, SnapOffline(t) PROVE Kept(d0)'
  BY <1>14, <1>a DEF SnapOffline, maps, TypeOK
<1>15. ASSUME NEW t \in Tasks, Save(t) PROVE Kept(d0)'
  BY <1>15, <1>a DEF Save, maps, TypeOK
<1>16. ASSUME NEW t \in Tasks, BuildOnline(t) PROVE Kept(d0)'
  BY <1>16, <1>a DEF BuildOnline, maps, TypeOK
<1>17. ASSUME NEW t \in Tasks, BuildOffline(t) PROVE Kept(d0)'
  BY <1>17, <1>a DEF BuildOffline, maps, TypeOK
<1>18. ASSUME NEW t \in Tasks, SendEvent(t) PROVE Kept(d0)'
  BY <1>18, <1>a DEF SendEvent, maps, TypeOK
<1>19. ASSUME NEW t \in Tasks, CheckSession(t) PROVE Kept(d0)'
  BY <1>19, <1>a DEF CheckSession, maps, TypeOK
<1>20. ASSUME NEW t \in Tasks, RemoveOnline(t) PROVE Kept(d0)'
  BY <1>20, <1>a, <1>c DEF RemoveOnline, maps, TypeOK, Dev, Finishing
<1>21. ASSUME NEW t \in Tasks, Park(t) PROVE Kept(d0)'
  <2>1. hand[t] # Absent /\ Dev(t) \in Devices /\ d0 \in known
    BY <1>21, <1>c DEF Park, JobsOK
  <2>2. Lasting(hand[t]) # Absent
    BY <2>1, OnlineEntry, OfflineEntry DEF TypeOK
  <2>3. CASE d0 = Dev(t)
    BY <1>21, <2>1, <2>2, <2>3 DEF Park, TypeOK, PersistedMap
  <2>4. CASE d0 # Dev(t)
    <3>1. ~Moving(t, d0)
      BY <2>4 DEF Dev
    <3> QED
      BY <1>21, <1>a, <2>1, <2>4, <3>1 DEF Park, FinishWith, TypeOK,
         PersistedMap
  <2> QED
    BY <2>3, <2>4
<1>22. CASE StartSweep
  BY <1>22, <1>a DEF StartSweep, maps, TypeOK
<1>23. CASE Scan
  BY <1>23, <1>a DEF Scan, maps, TypeOK
<1>24. CASE NextStale
  BY <1>24, <1>a DEF NextStale, maps, TypeOK, Leave
<1>25. ASSUME NEW d \in Devices, Age(d) PROVE Kept(d0)'
  <2>1. d0 \in known /\ d0 \in Devices
    BY <1>25 DEF Age, TypeOK
  <2>2. devices[d0] # Absent => devices'[d0] # Absent
    BY <1>25, <2>1, OnlineEntry DEF Age, TypeOK
  <2> QED
    BY <1>25, <1>a, <2>1, <2>2 DEF Age, maps, TypeOK
<1>26. CASE Restart
  BY <1>26 DEF Restart
<1> QED
  BY <1>1, <1>2, <1>3, <1>4, <1>5, <1>6, <1>7, <1>8, <1>9, <1>10, <1>11,
     <1>12, <1>13, <1>14, <1>15, <1>16, <1>17, <1>18, <1>19, <1>20, <1>21,
     <1>22, <1>23, <1>24, <1>25, <1>26, NextCases

(* The invariant holds at the start.                                       *)
LEMMA InitOK == Init => Inv
<1> SUFFICES ASSUME Init PROVE Inv
  OBVIOUS
<1> USE RegistryAssumption DEF Init, EmptyMap, Tasks
<1>1. TypeOK
  BY DEF TypeOK, EmptySnap, PersistedMap, Snapshot, Places, Done
<1>2. JobsOK
  BY DEF JobsOK, Done
<1>3. OnlineHasHandler /\ NeverForgotten
  BY DEF OnlineHasHandler, NeverForgotten
<1> QED
  BY <1>1, <1>2, <1>3 DEF Inv

(* The invariant is inductive.                                             *)
LEMMA InvHolds == Spec => []Inv
<1>1. Inv /\ [Next]_vars => Inv'
  BY TypeStep, JobsStep, HandlerStep, KeepStep DEF Inv
<1> QED
  BY <1>1, InitOK, PTL DEF Spec

(* The maps, the file, the tasks and what they carry keep their types: no  *)
(* operation of the registry leaves a half-made entry behind.              *)
THEOREM TypesHold == Spec => []TypeOK
<1>1. Inv => TypeOK
  BY DEF Inv
<1> QED
  BY <1>1, InvHolds, PTL

(* A device shown as online always has a running handler that is           *)
(* responsible for it, for any number of connections that overlap in any   *)
(* way, with the sweeper and restarts in between (handle_socket's cleanup, *)
(* unregister_device_if_session).                                          *)
THEOREM NoGhostSessions == Spec => []OnlineHasHandler
<1>1. Inv => OnlineHasHandler
  BY DEF Inv
<1> QED
  BY <1>1, InvHolds, PTL

(* A device that registered or was restored is never lost between the two  *)
(* maps (register_device, unregister_device_if_session, restore).          *)
THEOREM NothingForgotten == Spec => []NeverForgotten
<1>1. Inv => NeverForgotten
  BY DEF Inv
<1> QED
  BY <1>1, InvHolds, PTL
=============================================================================
