--------------------- MODULE DeviceRegistrySerialProofs ---------------------
(***************************************************************************)
(* What holds of the device registry when the connections to one device do *)
(* not overlap, for every set of devices and connections: a device is      *)
(* listed once, nobody takes out the entry of another session, and the two *)
(* maps behave as one table.                                               *)
(***************************************************************************)
EXTENDS DeviceRegistryProofs

(* One connection at a time works for a device.                            *)
Alone ==
  \A s, u \in Sessions, d \in Devices : Working(s, d) /\ Working(u, d) => s = u

(* The sweeper registers nobody and serves nobody.                         *)
SweeperPlaces == pc[Sweeper] \notin {"register", "insert", "serve", "pong"}

(* The places in which a task has found an entry to remove, or has removed *)
(* one.                                                                    *)
Removing == {"remove", "park"} \cup Finishing

(* A connection that registers is the only one to write to its device: it  *)
(* is in neither map and the sweeper, if it works on it at all, will find  *)
(* that its entry is gone.                                                 *)
Joining ==
  \A s \in Sessions :
    pc[s] \in {"register", "insert"} =>
      /\ devices[Dev(s)] = Absent
      /\ pc[s] = "insert" => offline_devices[Dev(s)] = Absent
      /\ Working(Sweeper, Dev(s)) => pc[Sweeper] \notin Removing

(* The entry a task is about to remove, if it is still there, is the one   *)
(* whose session it compared.                                              *)
RemoveOK ==
  \A t \in Tasks :
    pc[t] = "remove" /\ devices[Dev(t)] # Absent => devices[Dev(t)].session = job[t].sid

(* A device that is being parked is in no map, and one task parks it.      *)
Parking ==
  \A t \in Tasks :
    pc[t] = "park" =>
      /\ devices[Dev(t)] = Absent
      /\ offline_devices[Dev(t)] = Absent
      /\ \A u \in Tasks : pc[u] = "park" /\ Dev(u) = Dev(t) => u = t

(* The inductive invariant of the registry without overlaps.               *)
Serial ==
  /\ Alone
  /\ SweeperPlaces
  /\ Joining
  /\ RemoveOK
  /\ Parking
  /\ ListedOnce
-----------------------------------------------------------------------------
(* A step that moves nothing between the maps: the entries are those it    *)
(* finds, up to when they were last heard from, and no task enters or      *)
(* leaves a place where it is about to change them.                        *)
Elsewhere ==
  /\ \A d \in Devices : /\ devices'[d] = Absent <=> devices[d] = Absent
                        /\ devices[d] # Absent =>
                             /\ devices'[d].session = devices[d].session
                             /\ Lasting(devices'[d]) = Lasting(devices[d])
  /\ offline_devices' = offline_devices
  /\ hand' = hand
  /\ \A t \in Tasks :
       /\ job'[t] \in {job[t], Absent}
       /\ pc'[t] \in {"register", "insert", "remove", "park"}
            \/ pc[t] \in {"register", "insert", "park"}
          => pc'[t] = pc[t] /\ job'[t] = job[t]
  /\ pc'[Sweeper] \in Finishing => pc[Sweeper] \in Finishing
  /\ SweeperPlaces => SweeperPlaces'

(* The sweeper turns to the next silent session.                           *)
TakesStale ==
  /\ pc[Sweeper] = "next"
  /\ \E j \in batch : job' = [job EXCEPT ![Sweeper] = j]
  /\ Goto(Sweeper, "check")
  /\ UNCHANGED <<maps, hand>>

(* Every step is one of these.                                             *)
LEMMA SerialCases ==
  ASSUME TypeOK, JobsOK, [Next]_vars
  PROVE  \/ Elsewhere
         \/ \E s \in Sessions : Accept(s)
         \/ \E s \in Sessions : TakePrior(s)
         \/ \E s \in Sessions : InsertOnline(s)
         \/ \E s \in Sessions : Status(s)
         \/ \E t \in Tasks : CheckSession(t) /\ Matches(t)
         \/ \E t \in Tasks : RemoveOnline(t)
         \/ \E t \in Tasks : Park(t)
         \/ TakesStale
         \/ Restart
<1> USE RegistryAssumption DEF maps, Goto, Tasks
<1> DEFINE Quiet == UNCHANGED <<devices, offline_devices, hand>>
           Calm == {"register", "insert", "remove", "park"}
<1>1. ASSUME NEW t \in Tasks, NEW w \in Places \ (Calm \cup Finishing \cup {"serve", "pong"}),
             pc[t] \notin {"register", "insert", "park"}, Quiet,
             pc' = [pc EXCEPT ![t] = w], job' = job
      PROVE  Elsewhere
  BY <1>1 DEF Elsewhere, TypeOK, SweeperPlaces, Finishing
<1>2. ASSUME NEW s \in Sessions, NEW w \in Places \ Calm,
             pc[s] \notin {"register", "insert", "park"}, Quiet,
             pc' = [pc EXCEPT ![s] = w], job' = job
      PROVE  Elsewhere
  BY <1>2 DEF Elsewhere, TypeOK, SweeperPlaces
<1>3. ASSUME NEW t \in Tasks, pc[t] \in Finishing, NEW w \in Finishing \cup {ret[t]}, Quiet,
             pc' = [pc EXCEPT ![t] = w], job' = job
      PROVE  Elsewhere
  BY <1>3 DEF Elsewhere, TypeOK, SweeperPlaces, Finishing, JobsOK
<1>4. ASSUME NEW s \in Sessions, NEW w \in {"serve", "pong"}, pc[s] = "serve",
             Touch(Dev(s)), offline_devices' = offline_devices, hand' = hand,
             pc' = [pc EXCEPT ![s] = w], job' = job
      PROVE  Elsewhere
  <2>1. Dev(s) \in Devices
    BY <1>4, JobFields DEF TypeOK, JobsOK, Dev
  <2>2. \A r \in OnlineRec : Lasting(Heard(r)) = Lasting(r)
    BY OnlineEntry DEF Heard, Lasting, OnlineRec
  <2>3. \A d \in Devices : /\ devices'[d] = Absent <=> devices[d] = Absent
                           /\ devices[d] # Absent =>
                                /\ devices'[d].session = devices[d].session
                                /\ Lasting(devices'[d]) = Lasting(devices[d])
    BY <1>4, <2>1, <2>2, OnlineEntry DEF Touch, TypeOK
  <2> QED
    BY <1>4, <2>3 DEF Elsewhere, TypeOK, SweeperPlaces
<1>5. CASE UNCHANGED vars
  BY <1>5 DEF vars, Elsewhere, SweeperPlaces
<1>6. ASSUME NEW s \in Sessions, Reject(s) \/ Pong(s) \/ Close(s) PROVE Elsewhere
  <2>1. /\ pc[s] \notin {"register", "insert", "park"}
        /\ \E w \in {"ended", "serve", "check"} : pc' = [pc EXCEPT ![s] = w]
        /\ Quiet /\ job' = job
    BY <1>6 DEF Reject, Pong, Close
  <2> QED
    BY <1>2, <2>1 DEF Places
<1>7. ASSUME NEW s \in Sessions, PingFrame(s) PROVE Elsewhere
  <2>1. pc' = [pc EXCEPT ![s] = "serve"]
    BY <1>7 DEF PingFrame, TypeOK
  <2> QED
    BY <1>4, <1>7, <2>1 DEF PingFrame
<1>8. ASSUME NEW s \in Sessions, Ping(s) PROVE Elsewhere
  BY <1>4, <1>8 DEF Ping
<1>9. ASSUME NEW s \in Sessions, LinkDies(s) PROVE Elsewhere
  BY <1>9 DEF LinkDies, Elsewhere, SweeperPlaces
<1>10. ASSUME NEW s \in Sessions, End(s) PROVE Elsewhere
  BY <1>10 DEF End, Leave, Elsewhere, TypeOK, SweeperPlaces
<1>11. ASSUME NEW t \in Tasks, SnapOnline(t) \/ SnapOffline(t) PROVE Elsewhere
  <2>1. /\ pc[t] \in Finishing
        /\ \E w \in Finishing : pc' = [pc EXCEPT ![t] = w]
        /\ Quiet /\ job' = job
    BY <1>11 DEF SnapOnline, SnapOffline, Finishing
  <2> QED
    BY <1>3, <2>1
<1>12. ASSUME NEW t \in Tasks, Save(t) \/ SendEvent(t) PROVE Elsewhere
  <2>1. /\ pc[t] \in Finishing
        /\ \E w \in Finishing \cup {ret[t]} : pc' = [pc EXCEPT ![t] = w]
        /\ Quiet /\ job' = job
    BY <1>12 DEF Save, SendEvent, AfterSave, Finishing
  <2> QED
    BY <1>3, <2>1
<1>13. ASSUME NEW t \in Tasks, BuildOnline(t) \/ BuildOffline(t) PROVE Elsewhere
  <2>1. /\ pc[t] \in Finishing
        /\ \E w \in Finishing : pc' = [pc EXCEPT ![t] = w]
        /\ Quiet /\ job' = job
    BY <1>13 DEF BuildOnline, BuildOffline, Finishing
  <2> QED
    BY <1>3, <2>1
<1>14. ASSUME NEW t \in Tasks, CheckSession(t), ~Matches(t) PROVE Elsewhere
  <2>1. /\ pc[t] \notin {"register", "insert", "park"}
        /\ \E w \in {"ended", "next"} : pc' = [pc EXCEPT ![t] = w]
        /\ Quiet /\ job' = job
    BY <1>14 DEF CheckSession, Done
  <2> QED
    BY <1>1, <2>1 DEF Places, Finishing
<1>15. ASSUME StartSweep \/ Scan PROVE Elsewhere
  <2>1. /\ pc[Sweeper] \notin {"register", "insert", "park"}
        /\ \E w \in {"scan", "next"} : pc' = [pc EXCEPT ![Sweeper] = w]
        /\ Quiet /\ job' = job
    BY <1>15 DEF StartSweep, Scan
  <2> QED
    BY <1>1, <2>1 DEF Places, Finishing
<1>16. ASSUME NextStale, ~TakesStale PROVE Elsewhere
  <2>1. /\ pc[Sweeper] = "next" /\ pc' = [pc EXCEPT ![Sweeper] = "sleep"]
        /\ job' = [job EXCEPT ![Sweeper] = Absent] /\ Quiet
    BY <1>16 DEF NextStale, TakesStale, Leave
  <2> QED
    BY <2>1 DEF Elsewhere, TypeOK, SweeperPlaces, Finishing
<1>17. ASSUME NEW d \in Devices, Age(d) PROVE Elsewhere
  <2>1. \A r \in OnlineRec : Lasting(Silent(r)) = Lasting(r)
    BY OnlineEntry DEF Silent, Lasting, OnlineRec
  <2>2. \A e \in Devices : /\ devices'[e] = Absent <=> devices[e] = Absent
                           /\ devices[e] # Absent =>
                                /\ devices'[e].session = devices[e].session
                                /\ Lasting(devices'[e]) = Lasting(devices[e])
    BY <1>17, <2>1, OnlineEntry DEF Age, TypeOK
  <2> QED
    BY <1>17, <2>2 DEF Age, Elsewhere, SweeperPlaces
<1> HIDE DEF Quiet, Calm
<1> QED
  BY <1>5, <1>6, <1>7, <1>8, <1>9, <1>10, <1>11, <1>12, <1>13, <1>14, <1>15,
     <1>16, <1>17, NextCases

(* Who works for a device works for one, and is not at rest.               *)
LEMMA AtWork ==
  ASSUME TypeOK, JobsOK, NEW t \in Tasks,
         pc[t] \in {"register", "insert", "serve", "check", "remove", "park"} \cup Finishing
  PROVE  Dev(t) \in Devices /\ Working(t, Dev(t)) /\ job[t] \in Job
  BY JobFields DEF TypeOK, JobsOK, Tasks, Dev, Working, Finishing

(* A connection works alone: nobody is accepted for a device that another  *)
(* task works on, and the sweeper is not a connection.                     *)
LEMMA AloneStep ==
  ASSUME TypeOK, JobsOK, Alone, SweeperPlaces, ~Overlap, [Next]_vars
  PROVE  Alone' /\ SweeperPlaces'
<1> USE RegistryAssumption DEF Goto, Tasks
<1>1. ASSUME \A s \in Sessions : job'[s] \in {job[s], Absent} PROVE Alone'
  BY <1>1 DEF Alone, Working
<1>2. CASE Elsewhere
  BY <1>1, <1>2 DEF Elsewhere
<1>3. ASSUME NEW s \in Sessions, Accept(s) PROVE Alone' /\ SweeperPlaces'
  <2>1. PICK e \in Devices : /\ ~ \E t \in Tasks : Working(t, e)
                             /\ job' = [job EXCEPT ![s] = [dev |-> e, sid |-> s]]
    BY <1>3 DEF Accept
  <2>2. \A u \in Sessions, d \in Devices :
          Working(u, d)' => IF u = s THEN d = e ELSE Working(u, d) /\ d # e
    BY <2>1 DEF Working, TypeOK
  <2>3. Alone'
    BY <2>2 DEF Alone
  <2> QED
    BY <1>3, <2>3 DEF Accept, SweeperPlaces, TypeOK
<1>4. ASSUME NEW s \in Sessions, TakePrior(s) \/ InsertOnline(s) \/ Status(s)
      PROVE  Alone' /\ SweeperPlaces'
  <2>1. job' = job /\ pc'[Sweeper] = pc[Sweeper]
    BY <1>4 DEF TakePrior, InsertOnline, Status, FinishWith, TypeOK
  <2> QED
    BY <1>1, <2>1 DEF SweeperPlaces
<1>5. ASSUME NEW t \in Tasks, CheckSession(t) \/ RemoveOnline(t) \/ Park(t)
      PROVE  Alone' /\ SweeperPlaces'
  <2>1. job' = job
    BY <1>5 DEF CheckSession, RemoveOnline, Park
  <2>2. \E w \in {"remove", "park", "snapOnline", "build", Done(t)} : pc' = [pc EXCEPT ![t] = w]
    BY <1>5 DEF CheckSession, RemoveOnline, Park, FinishWith, AfterWrite, AfterSave
  <2>3. SweeperPlaces'
    BY <2>2 DEF SweeperPlaces, TypeOK, Done
  <2> QED
    BY <1>1, <2>1, <2>3
<1>6. CASE TakesStale
  <2>1. \A s \in Sessions : job'[s] = job[s]
    BY <1>6 DEF TakesStale, TypeOK
  <2> QED
    BY <1>1, <1>6, <2>1 DEF TakesStale, SweeperPlaces, TypeOK
<1>7. CASE Restart
  <2>1. Alone'
    BY <1>7 DEF Restart, Alone, Working
  <2> QED
    BY <1>7, <2>1 DEF Restart, SweeperPlaces
<1> QED
  BY <1>2, <1>3, <1>4, <1>5, <1>6, <1>7, SerialCases DEF Elsewhere

(* The invariant, after a step that moves nothing.                         *)
LEMMA ElsewhereKeeps ==
  ASSUME TypeOK, JobsOK, Serial, Elsewhere
  PROVE  Joining' /\ RemoveOK' /\ Parking' /\ ListedOnce'
<1> USE DEF Elsewhere, Tasks
<1>1. \A t \in Tasks : pc[t] \in {"register", "insert", "remove", "park"} => Dev(t) \in Devices
  BY AtWork
<1>2. \A t \in Tasks : pc'[t] \in {"register", "insert", "remove", "park"} =>
        pc'[t] = pc[t] /\ job'[t] = job[t] /\ Dev(t)' = Dev(t)
  BY DEF Dev
<1>3. ListedOnce'
  BY DEF Serial, ListedOnce
<1>4. Parking'
  BY <1>1, <1>2 DEF Serial, Parking
<1>5. RemoveOK'
  BY <1>1, <1>2 DEF Serial, RemoveOK
<1>6. ASSUME NEW s \in Sessions, pc'[s] \in {"register", "insert"}
      PROVE  /\ devices'[Dev(s)'] = Absent
             /\ pc'[s] = "insert" => offline_devices'[Dev(s)'] = Absent
             /\ Working(Sweeper, Dev(s))' => pc'[Sweeper] \notin Removing
  <2>1. pc'[s] = pc[s] /\ Dev(s)' = Dev(s) /\ Dev(s) \in Devices
    BY <1>1, <1>2, <1>6
  <2>2. Working(Sweeper, Dev(s))' => Working(Sweeper, Dev(s))
    BY <2>1 DEF Working
  <2>3. pc'[Sweeper] \in Removing => pc[Sweeper] \in Removing
    BY DEF Removing
  <2> QED
    BY <1>6, <2>1, <2>2, <2>3 DEF Serial, Joining
<1>7. Joining'
  BY <1>6 DEF Joining
<1> QED
  BY <1>3, <1>4, <1>5, <1>7

(* Everybody who works for the device of a task that writes to it, while   *)
(* that task registers it: the task itself, or a sweeper that will find    *)
(* nothing.                                                                *)
LEMMA Writers ==
  ASSUME TypeOK, JobsOK, Serial, NEW s \in Sessions, pc[s] \in {"register", "insert"},
         NEW t \in Tasks, pc[t] \in {"register", "insert", "remove", "park"}, Dev(t) = Dev(s)
  PROVE  t = s
<1>1. Working(t, Dev(s)) /\ Working(s, Dev(s)) /\ Dev(s) \in Devices
  BY AtWork DEF Tasks
<1>2. t # Sweeper
  BY <1>1 DEF Serial, Joining, SweeperPlaces, Removing
<1> QED
  BY <1>1, <1>2 DEF Serial, Alone, Tasks

(* The invariant is kept by the steps that move a device.                  *)
LEMMA SerialStep ==
  ASSUME Inv, Serial, ~Overlap, [Next]_vars
  PROVE  Serial'
<1> USE RegistryAssumption DEF Tasks, Goto
<1>a. TypeOK /\ JobsOK /\ OnlineHasHandler
  BY DEF Inv
<1>b. Alone' /\ SweeperPlaces'
  BY <1>a, AloneStep DEF Serial
<1> DEFINE Rest == Joining /\ RemoveOK /\ Parking /\ ListedOnce
<1> SUFFICES Rest'
  BY <1>b DEF Serial
<1>c. \A t \in Tasks : pc[t] \in {"register", "insert", "remove", "park", "check", "serve"} =>
        Dev(t) \in Devices
  BY <1>a, AtWork
<1>1. CASE Elsewhere
  BY <1>1, <1>a, ElsewhereKeeps
<1>2. ASSUME NEW s \in Sessions, Accept(s) PROVE Rest'
  <2>1. PICK d \in Devices : /\ ~ \E t \in Tasks : Working(t, d)
                             /\ job' = [job EXCEPT ![s] = [dev |-> d, sid |-> s]]
    BY <1>2 DEF Accept
  <2>2. /\ UNCHANGED <<devices, offline_devices>>
        /\ pc' = [pc EXCEPT ![s] = "register"]
    BY <1>2 DEF Accept, maps
  <2>3. devices[d] = Absent
    <3>1. ASSUME devices[d] # Absent PROVE FALSE
      <4>1. devices[d].session \in Sessions /\ job[devices[d].session] = [dev |-> d, sid |-> devices[d].session]
        BY <1>a, <3>1, OnlineEntry DEF TypeOK, OnlineHasHandler
      <4>2. Working(devices[d].session, d)
        BY <1>a, <4>1 DEF Working, Job
      <4> QED
        BY <2>1, <4>1, <4>2
    <3> QED
      BY <3>1
  <2>4. /\ pc'[s] = "register" /\ Dev(s)' = d
        /\ \A t \in Tasks : t # s => pc'[t] = pc[t] /\ job'[t] = job[t] /\ Dev(t)' = Dev(t)
    BY <1>a, <2>1, <2>2 DEF TypeOK, Dev
  <2>5. Joining'
    <3>1. \A e : Working(Sweeper, e)' <=> Working(Sweeper, e)
      BY <2>4 DEF Working
    <3>2. pc'[Sweeper] = pc[Sweeper]
      BY <2>4
    <3> QED
      BY <2>1, <2>2, <2>3, <2>4, <3>1, <3>2 DEF Serial, Joining
  <2>6. RemoveOK'
    BY <2>2, <2>4 DEF Serial, RemoveOK
  <2>7. Parking'
    BY <2>2, <2>4 DEF Serial, Parking
  <2>8. ListedOnce'
    BY <2>2 DEF Serial, ListedOnce
  <2> QED
    BY <2>5, <2>6, <2>7, <2>8
<1>3. ASSUME NEW s \in Sessions, TakePrior(s) PROVE Rest'
  <2>1. /\ pc[s] = "register" /\ devices' = devices /\ job' = job /\ Dev(s) \in Devices
        /\ offline_devices' = [offline_devices EXCEPT ![Dev(s)] = Absent]
        /\ pc' = [pc EXCEPT ![s] = "insert"]
    BY <1>3, <1>c DEF TakePrior
  <2>2. \A d \in Devices : offline_devices[d] = Absent => offline_devices'[d] = Absent
    BY <1>a, <2>1 DEF TypeOK, PersistedMap
  <2>3. \A t \in Tasks : t # s => pc'[t] = pc[t]
    BY <1>a, <2>1 DEF TypeOK
  <2>4. pc'[s] = "insert" /\ offline_devices'[Dev(s)] = Absent /\ \A t : Dev(t)' = Dev(t)
    BY <1>a, <2>1 DEF TypeOK, PersistedMap, Dev
  <2>5. Joining'
    BY <1>c, <2>1, <2>2, <2>3, <2>4 DEF Serial, Joining, Working
  <2>6. RemoveOK'
    BY <2>1, <2>3, <2>4 DEF Serial, RemoveOK
  <2>7. Parking'
    BY <1>c, <2>1, <2>2, <2>3, <2>4 DEF Serial, Parking
  <2>8. ListedOnce'
    BY <2>1, <2>2 DEF Serial, ListedOnce
  <2> QED
    BY <2>5, <2>6, <2>7, <2>8
<1>4. ASSUME NEW s \in Sessions, InsertOnline(s) PROVE Rest'
  <2>1. /\ pc[s] = "insert" /\ offline_devices' = offline_devices /\ job' = job
        /\ Dev(s) \in Devices
        /\ \E r : devices' = [devices EXCEPT ![Dev(s)] = r]
        /\ \E w \in Finishing \cup {"serve"} : pc' = [pc EXCEPT ![s] = w]
    BY <1>4, <1>c DEF InsertOnline, FinishWith, AfterWrite, AfterSave, Finishing
  <2>2. \A t \in Tasks : pc'[t] \in {"register", "insert", "remove", "park"} =>
          t # s /\ pc'[t] = pc[t] /\ Dev(t) # Dev(s)
    BY <1>a, <2>1, Writers DEF TypeOK, Finishing
  <2>3. (\A t : Dev(t)' = Dev(t)) /\ pc'[Sweeper] = pc[Sweeper]
    BY <1>a, <2>1 DEF Dev, TypeOK
  <2>4. \A d \in Devices : d # Dev(s) => devices'[d] = devices[d]
    BY <1>a, <2>1 DEF TypeOK
  <2>5. Joining'
    BY <1>c, <2>1, <2>2, <2>3, <2>4 DEF Serial, Joining, Working
  <2>6. RemoveOK'
    BY <1>c, <2>1, <2>2, <2>3, <2>4 DEF Serial, RemoveOK
  <2>7. Parking'
    BY <1>c, <2>1, <2>2, <2>3, <2>4 DEF Serial, Parking
  <2>8. offline_devices[Dev(s)] = Absent
    BY <2>1 DEF Serial, Joining
  <2>9. ListedOnce'
    BY <2>1, <2>4, <2>8 DEF Serial, ListedOnce
  <2> QED
    BY <2>5, <2>6, <2>7, <2>9
<1>5. ASSUME NEW s \in Sessions, Status(s) PROVE Rest'
  <2>1. /\ offline_devices' = offline_devices /\ job' = job /\ Dev(s) \in Devices
        /\ devices[Dev(s)] # Absent
        /\ \E st \in Statuses : devices' = [devices EXCEPT ![Dev(s)] = Reported(@, st)]
        /\ \E w \in Finishing \cup {"serve"} : pc' = [pc EXCEPT ![s] = w]
    BY <1>5, <1>c DEF Status, FinishWith, AfterWrite, AfterSave, Finishing
  <2>2. \A t \in Tasks : pc'[t] \in {"register", "insert", "remove", "park"} => pc'[t] = pc[t]
    BY <1>a, <2>1 DEF TypeOK, Finishing
  <2>3. (\A t : Dev(t)' = Dev(t)) /\ pc'[Sweeper] = pc[Sweeper]
    BY <1>a, <2>1 DEF Dev, TypeOK
  <2>4. \A d \in Devices : /\ devices'[d] = Absent <=> devices[d] = Absent
                           /\ devices[d] # Absent => devices'[d].session = devices[d].session
    BY <1>a, <2>1, OnlineEntry DEF TypeOK
  <2>5. Joining'
    BY <1>c, <2>1, <2>2, <2>3, <2>4 DEF Serial, Joining, Working
  <2>6. RemoveOK'
    BY <1>c, <2>1, <2>2, <2>3, <2>4 DEF Serial, RemoveOK
  <2>7. Parking'
    BY <1>c, <2>1, <2>2, <2>3, <2>4 DEF Serial, Parking
  <2>8. ListedOnce'
    BY <2>1, <2>4 DEF Serial, ListedOnce
  <2> QED
    BY <2>5, <2>6, <2>7, <2>8
<1>6. ASSUME NEW t \in Tasks, CheckSession(t), Matches(t) PROVE Rest'
  <2>1. /\ pc[t] = "check" /\ UNCHANGED <<devices, offline_devices, job>>
        /\ pc' = [pc EXCEPT ![t] = "remove"]
    BY <1>6 DEF CheckSession, maps
  <2>2. (\A u : Dev(u)' = Dev(u)) /\ \A u \in Tasks : u # t => pc'[u] = pc[u]
    BY <1>a, <2>1 DEF Dev, TypeOK
  <2>3. pc'[t] = "remove"
    BY <1>a, <2>1 DEF TypeOK
  <2>4. \A s \in Sessions : pc[s] \in {"register", "insert"} /\ Working(Sweeper, Dev(s)) => t # Sweeper
    BY <1>6 DEF Matches, Serial, Joining, Working, Dev
  <2>5. Joining'
    BY <2>1, <2>2, <2>3, <2>4 DEF Serial, Joining, Working
  <2>6. RemoveOK'
    BY <1>6, <2>1, <2>2 DEF Serial, RemoveOK, Matches
  <2>7. Parking'
    BY <2>1, <2>2, <2>3 DEF Serial, Parking
  <2>8. ListedOnce'
    BY <2>1 DEF Serial, ListedOnce
  <2> QED
    BY <2>5, <2>6, <2>7, <2>8
<1>7. ASSUME NEW t \in Tasks, RemoveOnline(t) PROVE Rest'
  <2>1. /\ pc[t] = "remove" /\ UNCHANGED <<offline_devices, job>> /\ Dev(t) \in Devices
        /\ devices' = [devices EXCEPT ![Dev(t)] = Absent]
        /\ pc' = [pc EXCEPT ![t] = IF devices[Dev(t)] # Absent THEN "park" ELSE Done(t)]
    BY <1>7, <1>c DEF RemoveOnline
  <2>2. (\A u : Dev(u)' = Dev(u)) /\ \A u \in Tasks : u # t => pc'[u] = pc[u]
    BY <1>a, <2>1 DEF Dev, TypeOK
  <2>3. /\ pc'[t] \in {"park", "ended", "next"}
        /\ pc'[t] = "park" => devices[Dev(t)] # Absent
    BY <1>a, <2>1 DEF TypeOK, Done
  <2>4. /\ devices'[Dev(t)] = Absent
        /\ \A d \in Devices : d # Dev(t) => devices'[d] = devices[d]
    BY <1>a, <2>1 DEF TypeOK
  <2>5. Joining'
    <3>1. pc'[Sweeper] \in Removing => pc[Sweeper] \in Removing
      BY <2>1, <2>2 DEF Removing
    <3> QED
      BY <1>c, <2>1, <2>2, <2>3, <2>4, <3>1 DEF Serial, Joining, Working
  <2>6. RemoveOK'
    BY <1>c, <2>1, <2>2, <2>3, <2>4 DEF Serial, RemoveOK
  <2>7. Parking'
    <3>1. ASSUME NEW u \in Tasks, u # t, pc'[u] = "park", pc'[t] = "park"
          PROVE  Dev(u) # Dev(t)
      BY <2>2, <2>3, <3>1 DEF Serial, Parking
    <3>2. pc'[t] = "park" => offline_devices[Dev(t)] = Absent
      BY <2>1, <2>3 DEF Serial, ListedOnce
    <3> QED
      BY <1>c, <2>1, <2>2, <2>4, <3>1, <3>2 DEF Serial, Parking
  <2>8. ListedOnce'
    BY <2>1, <2>4 DEF Serial, ListedOnce
  <2> QED
    BY <2>5, <2>6, <2>7, <2>8
<1>8. ASSUME NEW t \in Tasks, Park(t) PROVE Rest'
  <2>1. /\ pc[t] = "park" /\ UNCHANGED <<devices, job>> /\ Dev(t) \in Devices
        /\ \E r : offline_devices' = [offline_devices EXCEPT ![Dev(t)] = r]
        /\ \E w \in Finishing \cup {Done(t)} : pc' = [pc EXCEPT ![t] = w]
    BY <1>8, <1>c DEF Park, FinishWith, AfterWrite, AfterSave, Finishing
  <2>2. /\ \A u : Dev(u)' = Dev(u)
        /\ \A u \in Tasks : u # t => pc'[u] = pc[u]
        /\ pc'[t] \notin {"register", "insert", "remove", "park"}
    BY <1>a, <2>1 DEF Dev, TypeOK, Finishing, Done
  <2>3. \A d \in Devices : d # Dev(t) => offline_devices'[d] = offline_devices[d]
    BY <1>a, <2>1 DEF TypeOK, PersistedMap
  <2>4. \A s \in Sessions : pc'[s] \in {"register", "insert"} => Dev(s) # Dev(t) /\ s # t
    BY <1>a, <2>1, <2>2, Writers
  <2>5. Joining'
    <3>1. pc'[Sweeper] \in Removing => pc[Sweeper] \in Removing
      BY <2>1, <2>2 DEF Removing
    <3> QED
      BY <1>c, <2>1, <2>2, <2>3, <2>4, <3>1 DEF Serial, Joining, Working
  <2>6. RemoveOK'
    BY <2>1, <2>2 DEF Serial, RemoveOK
  <2>7. Parking'
    <3>1. \A u \in Tasks : pc'[u] = "park" => Dev(u) # Dev(t)
      BY <2>1, <2>2 DEF Serial, Parking
    <3> QED
      BY <1>c, <2>1, <2>2, <2>3, <3>1 DEF Serial, Parking
  <2>8. devices[Dev(t)] = Absent
    BY <2>1 DEF Serial, Parking
  <2>9. ListedOnce'
    BY <2>1, <2>3, <2>8 DEF Serial, ListedOnce
  <2> QED
    BY <2>5, <2>6, <2>7, <2>9
<1>9. CASE TakesStale
  <2>1. /\ UNCHANGED <<devices, offline_devices>>
        /\ \A u \in Tasks : u # Sweeper => pc'[u] = pc[u] /\ job'[u] = job[u] /\ Dev(u)' = Dev(u)
        /\ pc'[Sweeper] = "check"
    BY <1>a, <1>9 DEF TakesStale, maps, TypeOK, Dev
  <2>2. Joining'
    BY <2>1 DEF Serial, Joining, Removing, Finishing
  <2>3. RemoveOK'
    BY <2>1 DEF Serial, RemoveOK
  <2>4. Parking'
    BY <2>1 DEF Serial, Parking
  <2>5. ListedOnce'
    BY <2>1 DEF Serial, ListedOnce
  <2> QED
    BY <2>2, <2>3, <2>4, <2>5
<1>10. CASE Restart
  <2>1. \A t \in Tasks : pc'[t] \in {"sleep", "new", "ended"}
    BY <1>10 DEF Restart
  <2>2. \A d \in Devices : devices'[d] = Absent
    BY <1>10 DEF Restart, EmptyMap
  <2> QED
    BY <2>1, <2>2 DEF Joining, RemoveOK, Parking, ListedOnce
<1> HIDE DEF Rest
<1> QED
  BY <1>a, <1>1, <1>2, <1>3, <1>4, <1>5, <1>6, <1>7, <1>8, <1>9, <1>10, SerialCases

(* At the start nothing is registered.                                     *)
LEMMA SerialInit == Init => Serial
<1> SUFFICES ASSUME Init PROVE Serial
  OBVIOUS
<1> USE RegistryAssumption DEF Init, EmptyMap, Tasks
<1>1. Alone /\ SweeperPlaces /\ Joining
  BY DEF Alone, SweeperPlaces, Joining, Working
<1>2. RemoveOK /\ Parking /\ ListedOnce
  BY DEF RemoveOK, Parking, ListedOnce
<1> QED
  BY <1>1, <1>2 DEF Serial

(* The inductive invariant of the registry without overlaps holds in every *)
(* reachable state.                                                        *)
THEOREM SerialInvariant ==
  ASSUME ~Overlap
  PROVE  Spec => [](Inv /\ Serial)
<1>1. Inv /\ Serial /\ [Next]_vars => Serial'
  BY SerialStep
<1>2. Inv /\ [Next]_vars => Inv'
  BY TypeStep, JobsStep, HandlerStep, KeepStep DEF Inv
<1> QED
  BY <1>1, <1>2, InitOK, SerialInit, PTL DEF Spec

(* list_devices shows a device once: register_device empties the slot in   *)
(* offline_devices before it fills the one in devices, and nobody parks    *)
(* the device meanwhile.                                                   *)
THEOREM ListsOnce ==
  ASSUME ~Overlap
  PROVE  Spec => []ListedOnce
<1>1. Serial => ListedOnce
  BY DEF Serial
<1> QED
  BY <1>1, SerialInvariant, PTL

(* The entry that the cleanup of a handler, or the sweeper, takes out of   *)
(* devices carries the session it compared before                          *)
(* (unregister_device_if_session), although the two are separate calls.    *)
THEOREM TakesOwn ==
  ASSUME ~Overlap
  PROVE  Spec => TakesOwnSession
<1>1. Serial => \A t \in Tasks : Takes(t) => devices[Dev(t)].session = job[t].sid
  BY DEF Serial, RemoveOK, Takes, RemoveOnline
<1> QED
  BY <1>1, SerialInvariant, PTL DEF TakesOwnSession
-----------------------------------------------------------------------------
(* The row of a device comes from one place: its entry, the record of the  *)
(* one task that moves it, or what is known of it offline.                 *)
RowSource(d) ==
  /\ devices[d] # Absent => RowOf(d) = Row(TRUE, devices[d])
  /\ \A t \in Tasks : Moving(t, d) => /\ devices[d] = Absent
                                      /\ RowOf(d) = Row(FALSE, hand[t])
  /\ offline_devices[d] # Absent => /\ devices[d] = Absent
                                    /\ RowOf(d) = Row(FALSE, offline_devices[d])
  /\ devices[d] = Absent /\ offline_devices[d] = Absent
       /\ (\A t \in Tasks : ~Moving(t, d)) => RowOf(d) = Absent

(* Every row comes from where RowSource says.                              *)
LEMMA RowFacts ==
  TypeOK /\ JobsOK /\ Serial => \A d \in Devices : RowSource(d)
<1> SUFFICES ASSUME TypeOK, JobsOK, Serial, NEW d \in Devices
             PROVE  RowSource(d)
  OBVIOUS
<1>1. ASSUME NEW t \in Tasks, Moving(t, d)
      PROVE  /\ devices[d] = Absent
             /\ offline_devices[d] = Absent
             /\ pc[t] \in {"insert", "park"} /\ Dev(t) = d
             /\ pc[t] = "insert" => t \in Sessions
  BY <1>1 DEF Moving, Working, Dev, Serial, Joining, Parking, SweeperPlaces, Tasks
<1>2. ASSUME NEW t \in Tasks, NEW u \in Tasks, Moving(t, d), Moving(u, d)
      PROVE  t = u
  <2>1. CASE pc[t] = "insert" \/ pc[u] = "insert"
    BY <1>1, <1>2, <2>1, Writers
  <2>2. CASE pc[t] = "park" /\ pc[u] = "park"
    BY <1>1, <1>2, <2>2 DEF Serial, Parking
  <2> QED
    BY <1>1, <1>2, <2>1, <2>2
<1>3. ASSUME NEW t \in Tasks, Moving(t, d)
      PROVE  (CHOOSE u \in Tasks : Moving(u, d)) = t
  BY <1>2, <1>3
<1>4. ASSUME NEW t \in Tasks, Moving(t, d) PROVE RowOf(d) = Row(FALSE, hand[t])
  BY <1>1, <1>3, <1>4 DEF RowOf
<1>5. offline_devices[d] # Absent => devices[d] = Absent /\ \A t \in Tasks : ~Moving(t, d)
  BY <1>1 DEF Serial, ListedOnce
<1>6. devices[d] # Absent => RowOf(d) = Row(TRUE, devices[d])
  BY DEF RowOf
<1>7. offline_devices[d] # Absent => RowOf(d) = Row(FALSE, offline_devices[d])
  BY <1>5 DEF RowOf
<1>8. devices[d] = Absent /\ offline_devices[d] = Absent
        /\ (\A t \in Tasks : ~Moving(t, d)) => RowOf(d) = Absent
  BY DEF RowOf
<1> QED
  BY <1>1, <1>4, <1>5, <1>6, <1>7, <1>8 DEF RowSource

(* A row that is there is a row of the table.                              *)
LEMMA RowTypes ==
  ASSUME TypeOK, JobsOK, Serial, NEW d \in Devices
  PROVE  /\ RowOf(d) \in Table!Rows \cup {Absent}
         /\ RowOf(d) # Absent => (RowOf(d).online <=> devices[d] # Absent)
<1>1. ASSUME NEW r \in OnlineRec \cup OfflineRec, NEW b \in BOOLEAN
      PROVE  Row(b, r) \in Table!Rows /\ Row(b, r).online = b
  BY DEF Row, OnlineRec, OfflineRec, Table!Rows
<1>a. RowSource(d)
  BY RowFacts
<1>2. CASE devices[d] # Absent
  <2>1. RowOf(d) = Row(TRUE, devices[d]) /\ devices[d] \in OnlineRec
    BY <1>2, <1>a DEF RowSource, TypeOK
  <2> QED
    BY <1>1, <1>2, <2>1
<1>3. CASE \E t \in Tasks : Moving(t, d)
  <2>1. PICK t \in Tasks : Moving(t, d)
    BY <1>3
  <2>2. /\ RowOf(d) = Row(FALSE, hand[t]) /\ devices[d] = Absent
        /\ hand[t] \in OnlineRec \cup OfflineRec
    BY <2>1, <1>a DEF RowSource, TypeOK, Moving
  <2> QED
    BY <1>1, <2>2
<1>4. CASE offline_devices[d] # Absent
  <2>1. /\ RowOf(d) = Row(FALSE, offline_devices[d]) /\ devices[d] = Absent
        /\ offline_devices[d] \in OfflineRec
    BY <1>4, <1>a DEF RowSource, TypeOK, PersistedMap
  <2> QED
    BY <1>1, <2>1
<1> QED
  BY <1>2, <1>3, <1>4, <1>a DEF RowSource

(* Where the rows come from after a step.                                  *)
LEMMA RowFactsPrime ==
  (TypeOK /\ JobsOK /\ Serial)' => (\A d \in Devices : RowSource(d))'
  BY RowFacts, PTL

(* The rows of all devices are rows of the table.                          *)
LEMMA RowTypesAll ==
  TypeOK /\ JobsOK /\ Serial =>
    \A d \in Devices : /\ RowOf(d) \in Table!Rows \cup {Absent}
                       /\ RowOf(d) # Absent => (RowOf(d).online <=> devices[d] # Absent)
  BY RowTypes

(* The same after a step.                                                  *)
LEMMA RowTypesPrime ==
  (TypeOK /\ JobsOK /\ Serial)' =>
    (\A d \in Devices : /\ RowOf(d) \in Table!Rows \cup {Absent}
                        /\ RowOf(d) # Absent => (RowOf(d).online <=> devices[d] # Absent))'
  BY RowTypesAll, PTL

(* A step keeps the row of a device whose sources it keeps.                *)
LEMMA SameRow ==
  ASSUME NEW d \in Devices, RowSource(d), RowSource(d)',
         devices'[d] = Absent <=> devices[d] = Absent,
         devices[d] # Absent => Lasting(devices'[d]) = Lasting(devices[d]),
         offline_devices'[d] = offline_devices[d],
         \A t \in Tasks : Moving(t, d)' <=> Moving(t, d),
         \A t \in Tasks : Moving(t, d) => hand'[t] = hand[t]
  PROVE  RowOf(d)' = RowOf(d)
<1>1. CASE devices[d] # Absent
  <2>1. RowOf(d)' = Row(TRUE, devices'[d]) /\ RowOf(d) = Row(TRUE, devices[d])
    BY <1>1 DEF RowSource, Row
  <2>2. devices'[d].status = devices[d].status /\ devices'[d].lan = devices[d].lan
    BY <1>1 DEF Lasting
  <2> QED
    BY <2>1, <2>2 DEF Row
<1>2. CASE \E t \in Tasks : Moving(t, d)
  <2>1. PICK t \in Tasks : Moving(t, d)
    BY <1>2
  <2>2. RowOf(d)' = Row(FALSE, hand'[t]) /\ RowOf(d) = Row(FALSE, hand[t])
    BY <2>1 DEF RowSource, Row
  <2> QED
    BY <2>1, <2>2
<1>3. CASE offline_devices[d] # Absent
  <2>1. RowOf(d)' = Row(FALSE, offline_devices'[d]) /\ RowOf(d) = Row(FALSE, offline_devices[d])
    BY <1>3 DEF RowSource, Row
  <2> QED
    BY <2>1
<1>4. CASE /\ devices[d] = Absent /\ offline_devices[d] = Absent
           /\ \A t \in Tasks : ~Moving(t, d)
  BY <1>4 DEF RowSource
<1> QED
  BY <1>1, <1>2, <1>3, <1>4

(* A task at work on a device leaves the rows of the others alone.         *)
LEMMA OtherRows ==
  ASSUME TypeOK, \A e \in Devices : RowSource(e), \A e \in Devices : RowSource(e)',
         NEW t \in Tasks, NEW w, NEW h,
         pc' = [pc EXCEPT ![t] = w], hand' = [hand EXCEPT ![t] = h], job' = job,
         NEW e \in Devices, e # Dev(t),
         devices'[e] = devices[e], offline_devices'[e] = offline_devices[e]
  PROVE  RowOf(e)' = RowOf(e)
<1>1. ~Moving(t, e) /\ ~Moving(t, e)'
  BY DEF Moving, Working, Dev
<1>2. \A u \in Tasks : u # t => pc'[u] = pc[u] /\ hand'[u] = hand[u]
  BY DEF TypeOK
<1>3. \A u \in Tasks : Moving(u, e)' <=> Moving(u, e)
  BY <1>1, <1>2 DEF Moving, Working
<1>4. \A u \in Tasks : Moving(u, e) => hand'[u] = hand[u]
  BY <1>1, <1>2
<1> QED
  BY <1>3, <1>4, SameRow

(* A step that moves nothing leaves every row alone.                       *)
LEMMA SameRows ==
  ASSUME \A e \in Devices : RowSource(e), \A e \in Devices : RowSource(e)',
         \A e \in Devices : /\ devices'[e] = Absent <=> devices[e] = Absent
                            /\ devices[e] # Absent => Lasting(devices'[e]) = Lasting(devices[e]),
         offline_devices' = offline_devices, hand' = hand,
         \A t \in Tasks :
           pc'[t] \in {"insert", "park"} \/ pc[t] \in {"insert", "park"}
             => pc'[t] = pc[t] /\ job'[t] = job[t],
         NEW d \in Devices
  PROVE  RowOf(d)' = RowOf(d)
<1>1. \A t \in Tasks : Moving(t, d)' <=> Moving(t, d)
  BY DEF Moving, Working
<1> QED
  BY <1>1, SameRow

(* register_device: the row goes online and keeps what it knew.            *)
LEMMA InsertConnects ==
  ASSUME TypeOK, JobsOK, Serial, \A e \in Devices : RowSource(e),
         \A e \in Devices : RowSource(e)', NEW s \in Sessions, InsertOnline(s)
  PROVE  Table!Connect(Dev(s))
<1> PICK d : d = Dev(s)
  OBVIOUS
<1>1. /\ pc[s] = "insert" /\ job' = job /\ offline_devices' = offline_devices
      /\ hand' = [hand EXCEPT ![s] = Absent]
      /\ \E w : pc' = [pc EXCEPT ![s] = w]
  BY DEF InsertOnline, FinishWith, Goto
<1>2. PICK ip \in LanIps \cup {NoIp} :
        devices' = [devices EXCEPT ![d] =
                      [session |-> s, status |-> Prior(s).status,
                       lan |-> IF ip = NoIp THEN Prior(s).lan ELSE ip, fresh |-> TRUE]]
  BY DEF InsertOnline
<1>3. s \in Tasks /\ d \in Devices /\ Working(s, d)
  BY <1>1, AtWork DEF Tasks
<1>4. devices[d] = Absent /\ offline_devices[d] = Absent
  BY <1>1 DEF Serial, Joining
<1>5. devices'[d] = [session |-> s, status |-> Prior(s).status,
                     lan |-> IF ip = NoIp THEN Prior(s).lan ELSE ip, fresh |-> TRUE]
  BY <1>2, <1>3 DEF TypeOK
<1>6. devices'[d] \in OnlineRec
  BY <1>5 DEF Prior, Fresh, OnlineRec, OfflineRec, TypeOK, Tasks
<1>7. RowOf(d)' = Row(TRUE, devices'[d])
  BY <1>3, <1>6, OnlineEntry DEF RowSource, Row
<1>8. RowOf(d)' = [online |-> TRUE, status |-> Prior(s).status,
                   lan |-> IF ip = NoIp THEN Prior(s).lan ELSE ip]
  BY <1>5, <1>7 DEF Row
<1>9. \A e \in Devices : e # d => RowOf(e)' = RowOf(e)
  <2> SUFFICES ASSUME NEW e \in Devices, e # d PROVE RowOf(e)' = RowOf(e)
    OBVIOUS
  <2>1. devices'[e] = devices[e] /\ offline_devices'[e] = offline_devices[e]
    BY <1>1, <1>2 DEF TypeOK
  <2> QED
    BY <1>1, <1>3, <2>1, OtherRows
<1>10. RowOf(d) = IF hand[s] = Absent THEN Absent
                  ELSE [online |-> FALSE, status |-> hand[s].status, lan |-> hand[s].lan]
  <2>1. CASE hand[s] = Absent
    <3>1. \A t \in Tasks : Moving(t, d) => t = s
      BY <1>1, Writers DEF Moving, Working, Dev
    <3>2. \A t \in Tasks : ~Moving(t, d)
      BY <2>1, <3>1 DEF Moving
    <3> QED
      BY <1>3, <1>4, <2>1, <3>2 DEF RowSource
  <2>2. CASE hand[s] # Absent
    <3>1. Moving(s, d)
      BY <1>1, <1>3, <2>2 DEF Moving
    <3> QED
      BY <1>3, <2>2, <3>1 DEF RowSource, Row
  <2> QED
    BY <2>1, <2>2
<1>11. ~Table!Online(d)
  BY <1>3, <1>10 DEF Table!Online
<1>12. hand[s] # Absent => [online |-> FALSE, status |-> hand[s].status, lan |-> hand[s].lan] # Absent
  <2>1. hand[s] # Absent => hand[s].status \in Statuses \cup {NoStatus} /\ hand[s].lan \in LanIps \cup {NoIp}
    BY <1>3 DEF TypeOK, OnlineRec, OfflineRec
  <2>2. hand[s] # Absent =>
          [online |-> FALSE, status |-> hand[s].status, lan |-> hand[s].lan] \in Table!Rows
    BY <2>1 DEF Table!Rows
  <2> QED
    BY <2>2, RowAssumption
<1>13. RowOf(d)' = Table!Connected(RowOf(d), ip)
  <2>1. CASE hand[s] = Absent
    BY <2>1, <1>8, <1>10 DEF Prior, Fresh, Table!Connected
  <2>2. CASE hand[s] # Absent
    BY <2>2, <1>8, <1>10, <1>12 DEF Prior, Table!Connected
  <2> QED
    BY <2>1, <2>2
<1> DEFINE T == [e \in Devices |-> RowOf(e)]
<1>14. T' = [T EXCEPT ![d] = Table!Connected(@, ip)]
  BY <1>3, <1>9, <1>13
<1> QED
  BY <1>2, <1>11, <1>14 DEF Table!Connect

(* update_status: the row takes the status.                                *)
LEMMA StatusReports ==
  ASSUME TypeOK, JobsOK, Serial, \A e \in Devices : RowSource(e),
         \A e \in Devices : RowSource(e)', NEW s \in Sessions, Status(s)
  PROVE  Table!Report(Dev(s))
<1> PICK d : d = Dev(s)
  OBVIOUS
<1>1. /\ pc[s] = "serve" /\ devices[d] # Absent
      /\ job' = job /\ hand' = hand /\ offline_devices' = offline_devices
      /\ \E w : pc' = [pc EXCEPT ![s] = w]
  BY DEF Status, FinishWith, Goto
<1>2. PICK st \in Statuses : devices' = [devices EXCEPT ![d] = Reported(devices[d], st)]
  BY DEF Status
<1>3. s \in Tasks /\ d \in Devices /\ devices[d] \in OnlineRec
  BY <1>1, AtWork DEF Tasks, TypeOK
<1>4. devices'[d] = Reported(devices[d], st) /\ devices'[d] # Absent
  BY <1>2, <1>3, OnlineEntry DEF TypeOK
<1>5. devices'[d].status = st /\ devices'[d].lan = devices[d].lan
  BY <1>3, <1>4 DEF Reported, OnlineRec
<1>6. /\ RowOf(d) = [online |-> TRUE, status |-> devices[d].status, lan |-> devices[d].lan]
      /\ RowOf(d)' = [online |-> TRUE, status |-> st, lan |-> devices[d].lan]
  BY <1>1, <1>3, <1>4, <1>5 DEF RowSource, Row
<1>7. \A e \in Devices : e # d => RowOf(e)' = RowOf(e)
  <2> SUFFICES ASSUME NEW e \in Devices, e # d PROVE RowOf(e)' = RowOf(e)
    OBVIOUS
  <2>1. devices'[e] = devices[e] /\ offline_devices'[e] = offline_devices[e]
    BY <1>1, <1>2 DEF TypeOK
  <2>2. hand' = [hand EXCEPT ![s] = hand[s]]
    BY <1>1 DEF TypeOK
  <2> QED
    BY <1>1, <1>3, <2>1, <2>2, OtherRows
<1>8. Table!Online(d)
  <2>1. RowOf(d) \in Table!Rows
    BY <1>3, <1>6 DEF OnlineRec, Table!Rows
  <2>2. RowOf(d) # Absent
    BY <2>1, RowAssumption
  <2>3. RowOf(d).online
    BY <1>6
  <2> QED
    BY <1>3, <2>2, <2>3 DEF Table!Online
<1> DEFINE T == [e \in Devices |-> RowOf(e)]
<1>9. T' = [T EXCEPT ![d].status = st]
  <2>1. PICK on : on = TRUE
    OBVIOUS
  <2>2. /\ RowOf(d) = [online |-> on, status |-> devices[d].status, lan |-> devices[d].lan]
        /\ RowOf(d)' = [online |-> on, status |-> st, lan |-> devices[d].lan]
    BY <1>6, <2>1
  <2>3. RowOf(d)' = [RowOf(d) EXCEPT !.status = st]
    BY <2>2
  <2> QED
    BY <1>3, <1>7, <2>3
<1> QED
  BY <1>8, <1>9 DEF Table!Report

(* devices.remove: the row goes offline, unless it is gone already.        *)
LEMMA RemoveDisconnects ==
  ASSUME TypeOK, JobsOK, Serial, \A e \in Devices : RowSource(e),
         \A e \in Devices : RowSource(e)', NEW t \in Tasks, RemoveOnline(t)
  PROVE  Table!Disconnect(Dev(t)) \/ \A e \in Devices : RowOf(e)' = RowOf(e)
<1> PICK d : d = Dev(t)
  OBVIOUS
<1>1. /\ pc[t] = "remove"
      /\ job' = job /\ offline_devices' = offline_devices
      /\ hand' = [hand EXCEPT ![t] = devices[d]]
      /\ devices' = [devices EXCEPT ![d] = Absent]
      /\ pc' = [pc EXCEPT ![t] = IF devices[d] # Absent THEN "park" ELSE Done(t)]
  BY DEF RemoveOnline, Goto
<1>2. d \in Devices /\ Working(t, d)
  BY <1>1, AtWork
<1>3. \A e \in Devices : e # d => RowOf(e)' = RowOf(e)
  <2> SUFFICES ASSUME NEW e \in Devices, e # d PROVE RowOf(e)' = RowOf(e)
    OBVIOUS
  <2>1. devices'[e] = devices[e] /\ offline_devices'[e] = offline_devices[e]
    BY <1>1 DEF TypeOK
  <2> QED
    BY <1>1, <2>1, OtherRows
<1>4. CASE devices[d] = Absent
  <2>1. devices' = devices
    BY <1>1, <1>4 DEF TypeOK
  <2>2. pc'[t] \notin {"insert", "park"}
    BY <1>1, <1>4 DEF TypeOK, Done
  <2>3. ~Moving(t, d) /\ ~Moving(t, d)'
    BY <1>1, <2>2 DEF Moving
  <2>4. \A u \in Tasks : u # t => pc'[u] = pc[u] /\ hand'[u] = hand[u]
    BY <1>1 DEF TypeOK
  <2>5. \A u \in Tasks : /\ Moving(u, d)' <=> Moving(u, d)
                         /\ Moving(u, d) => hand'[u] = hand[u]
    BY <1>1, <2>3, <2>4 DEF Moving, Working
  <2>6. RowOf(d)' = RowOf(d)
    BY <1>1, <1>2, <2>1, <2>5, SameRow
  <2> QED
    BY <1>3, <2>6
<1>5. CASE devices[d] # Absent
  <2>1. Moving(t, d)' /\ hand'[t] = devices[d]
    BY <1>1, <1>2, <1>5 DEF Moving, Working, TypeOK
  <2>2. /\ RowOf(d) = [online |-> TRUE, status |-> devices[d].status, lan |-> devices[d].lan]
        /\ RowOf(d)' = [online |-> FALSE, status |-> devices[d].status, lan |-> devices[d].lan]
    BY <1>2, <1>5, <2>1 DEF RowSource, Row
  <2>3. Table!Online(d)
    <3>1. RowOf(d) \in Table!Rows
      BY <1>2, <1>5, <2>2 DEF OnlineRec, TypeOK, Table!Rows
    <3>2. RowOf(d) # Absent
      BY <3>1, RowAssumption
    <3>3. RowOf(d).online
      BY <2>2
    <3> QED
      BY <1>2, <3>2, <3>3 DEF Table!Online
  <2> DEFINE T == [e \in Devices |-> RowOf(e)]
  <2>4. T' = [T EXCEPT ![d].online = FALSE]
    <3>1. PICK on, off : on = TRUE /\ off = FALSE
      OBVIOUS
    <3>2. /\ RowOf(d) = [online |-> on, status |-> devices[d].status, lan |-> devices[d].lan]
          /\ RowOf(d)' = [online |-> off, status |-> devices[d].status, lan |-> devices[d].lan]
      BY <2>2, <3>1
    <3>3. RowOf(d)' = [RowOf(d) EXCEPT !.online = off]
      BY <3>2
    <3>4. T' = [T EXCEPT ![d].online = off]
      BY <1>2, <1>3, <3>3
    <3> HIDE DEF T
    <3> QED
      BY <3>1, <3>4, Zenon
  <2> QED
    BY <2>3, <2>4 DEF Table!Disconnect
<1> QED
  BY <1>4, <1>5

(* What moves a device from one place to the next leaves its row alone.    *)
LEMMA MoveKeepsRow ==
  ASSUME TypeOK, JobsOK, Serial, \A e \in Devices : RowSource(e),
         \A e \in Devices : RowSource(e)', NEW t \in Tasks,
         (t \in Sessions /\ TakePrior(t)) \/ Park(t)
  PROVE  \A e \in Devices : RowOf(e)' = RowOf(e)
<1> PICK d : d = Dev(t)
  OBVIOUS
<1>1. /\ pc[t] \in {"register", "park"} /\ job' = job /\ devices' = devices
      /\ \E w : pc' = [pc EXCEPT ![t] = w]
      /\ \E h : hand' = [hand EXCEPT ![t] = h]
      /\ \E r : offline_devices' = [offline_devices EXCEPT ![d] = r]
  BY DEF TakePrior, Park, FinishWith, Goto
<1>2. d \in Devices /\ Working(t, d)
  BY <1>1, AtWork
<1>3. \A e \in Devices : e # d => RowOf(e)' = RowOf(e)
  <2> SUFFICES ASSUME NEW e \in Devices, e # d PROVE RowOf(e)' = RowOf(e)
    OBVIOUS
  <2>1. devices'[e] = devices[e] /\ offline_devices'[e] = offline_devices[e]
    BY <1>1 DEF TypeOK, PersistedMap
  <2> QED
    BY <1>1, <2>1, OtherRows
<1>4. \A u \in Tasks : u # t => pc'[u] = pc[u] /\ hand'[u] = hand[u]
  BY <1>1 DEF TypeOK
<1>5. CASE t \in Sessions /\ TakePrior(t)
  <2>1. /\ pc[t] = "register" /\ pc'[t] = "insert"
        /\ hand'[t] = offline_devices[d]
        /\ offline_devices'[d] = Absent
    BY <1>2, <1>5 DEF TakePrior, Goto, TypeOK, PersistedMap
  <2>2. devices[d] = Absent
    BY <1>5, <2>1 DEF Serial, Joining
  <2>3. \A u \in Tasks : u # t => ~Moving(u, d) /\ ~Moving(u, d)'
    <3>1. \A u \in Tasks : pc[u] \in {"insert", "park"} /\ Dev(u) = d => u = t
      BY <1>5, <2>1, Writers
    <3> QED
      BY <1>1, <1>4, <3>1 DEF Moving, Working, Dev
  <2>4. CASE offline_devices[d] = Absent
    <3>1. ~Moving(t, d) /\ ~Moving(t, d)'
      BY <2>1, <2>4 DEF Moving
    <3>2. RowOf(d) = Absent /\ RowOf(d)' = Absent
      BY <1>1, <1>2, <2>1, <2>2, <2>3, <2>4, <3>1 DEF RowSource
    <3> QED
      BY <1>3, <3>2
  <2>5. CASE offline_devices[d] # Absent
    <3>1. Moving(t, d)'
      BY <1>1, <1>2, <2>1, <2>5 DEF Moving, Working
    <3>2. RowOf(d) = Row(FALSE, offline_devices[d]) /\ RowOf(d)' = Row(FALSE, offline_devices[d])
      BY <1>2, <2>1, <2>5, <3>1 DEF RowSource, Row
    <3> QED
      BY <1>3, <3>2
  <2> QED
    BY <2>4, <2>5
<1>6. CASE Park(t)
  <2>1. /\ pc[t] = "park" /\ hand[t] # Absent
        /\ offline_devices'[d] = Lasting(hand[t])
    BY <1>2, <1>6 DEF Park, JobsOK, TypeOK, PersistedMap
  <2>2. Moving(t, d)
    BY <1>2, <2>1 DEF Moving
  <2>3. Lasting(hand[t]) # Absent
    BY <2>1, OnlineEntry, OfflineEntry DEF TypeOK
  <2>4. RowOf(d) = Row(FALSE, hand[t]) /\ RowOf(d)' = Row(FALSE, Lasting(hand[t]))
    BY <1>2, <2>1, <2>2, <2>3 DEF RowSource, Row
  <2>5. Row(FALSE, Lasting(hand[t])) = Row(FALSE, hand[t])
    BY <2>1 DEF Row, Lasting
  <2> QED
    BY <1>3, <2>4, <2>5
<1> QED
  BY <1>5, <1>6

(* Every step of the registry is a step of the table, or leaves it alone.  *)
LEMMA TableStep ==
  ASSUME Inv, Serial, Inv', Serial', [Next]_vars
  PROVE  [Table!Next]_([d \in Devices |-> RowOf(d)])
<1>a. TypeOK /\ JobsOK /\ TypeOK' /\ JobsOK'
  BY DEF Inv
<1>b. \A e \in Devices : RowSource(e)
  BY <1>a, RowFacts
<1>c. \A e \in Devices : RowSource(e)'
  BY <1>a, RowFactsPrime
<1>d. ASSUME \A e \in Devices : RowOf(e)' = RowOf(e)
      PROVE  [d \in Devices |-> RowOf(d)]' = [d \in Devices |-> RowOf(d)]
  BY <1>d
<1> USE DEF Tasks
<1>1. CASE Elsewhere
  BY <1>1, <1>b, <1>c, <1>d, SameRows DEF Elsewhere
<1>2. ASSUME NEW s \in Sessions, Accept(s)
      PROVE  \A e \in Devices : RowOf(e)' = RowOf(e)
  <2>1. /\ UNCHANGED <<devices, offline_devices, hand>> /\ pc[s] = "new"
        /\ pc' = [pc EXCEPT ![s] = "register"]
        /\ \A t \in Tasks : t # s => job'[t] = job[t]
    BY <1>2, <1>a DEF Accept, maps, Goto, TypeOK
  <2>2. \A t \in Tasks :
          pc'[t] \in {"insert", "park"} \/ pc[t] \in {"insert", "park"}
             => pc'[t] = pc[t] /\ job'[t] = job[t]
    BY <1>a, <2>1 DEF TypeOK
  <2> QED
    BY <1>b, <1>c, <2>1, <2>2, SameRows
<1>3. ASSUME NEW s \in Sessions, TakePrior(s)
      PROVE  \A e \in Devices : RowOf(e)' = RowOf(e)
  BY <1>3, <1>a, <1>b, <1>c, MoveKeepsRow
<1>4. ASSUME NEW s \in Sessions, InsertOnline(s) PROVE Table!Next
  <2>1. Dev(s) \in Devices
    BY <1>4, <1>a, AtWork DEF InsertOnline
  <2> QED
    BY <1>4, <1>a, <1>b, <1>c, <2>1, InsertConnects DEF Table!Next
<1>5. ASSUME NEW s \in Sessions, Status(s) PROVE Table!Next
  <2>1. Dev(s) \in Devices
    BY <1>5, <1>a, AtWork DEF Status
  <2> QED
    BY <1>5, <1>a, <1>b, <1>c, <2>1, StatusReports DEF Table!Next
<1>6. ASSUME NEW t \in Tasks, CheckSession(t)
      PROVE  \A e \in Devices : RowOf(e)' = RowOf(e)
  <2>1. /\ UNCHANGED <<devices, offline_devices, hand, job>> /\ pc[t] = "check"
        /\ \E w \in {"remove", "ended", "next"} : pc' = [pc EXCEPT ![t] = w]
    BY <1>6 DEF CheckSession, maps, Goto, Done
  <2>2. \A u \in Tasks :
          pc'[u] \in {"insert", "park"} \/ pc[u] \in {"insert", "park"} => pc'[u] = pc[u]
    BY <1>a, <2>1 DEF TypeOK
  <2> QED
    BY <1>b, <1>c, <2>1, <2>2, SameRows
<1>7. ASSUME NEW t \in Tasks, RemoveOnline(t)
      PROVE  Table!Next \/ \A e \in Devices : RowOf(e)' = RowOf(e)
  <2>1. Dev(t) \in Devices
    BY <1>7, <1>a, AtWork DEF RemoveOnline
  <2> QED
    BY <1>7, <1>a, <1>b, <1>c, <2>1, RemoveDisconnects DEF Table!Next
<1>8. ASSUME NEW t \in Tasks, Park(t)
      PROVE  \A e \in Devices : RowOf(e)' = RowOf(e)
  BY <1>8, <1>a, <1>b, <1>c, MoveKeepsRow
<1>9. ASSUME TakesStale
      PROVE  \A e \in Devices : RowOf(e)' = RowOf(e)
  <2>1. /\ UNCHANGED <<devices, offline_devices, hand>> /\ pc[Sweeper] = "next"
        /\ pc' = [pc EXCEPT ![Sweeper] = "check"]
        /\ \A t \in Tasks : t # Sweeper => job'[t] = job[t]
    BY <1>9, <1>a DEF TakesStale, maps, Goto, TypeOK
  <2>2. \A t \in Tasks :
          pc'[t] \in {"insert", "park"} \/ pc[t] \in {"insert", "park"}
             => pc'[t] = pc[t] /\ job'[t] = job[t]
    BY <1>a, <2>1 DEF TypeOK
  <2> QED
    BY <1>b, <1>c, <2>1, <2>2, SameRows
<1>10. ASSUME Restart PROVE Table!Next
  <2>1. (\A d \in Devices : /\ RowOf(d) \in Table!Rows \cup {Absent}
                            /\ RowOf(d) # Absent => (RowOf(d).online <=> devices[d] # Absent))'
    <3>1. (TypeOK /\ JobsOK /\ Serial)'
      BY <1>a
    <3> QED
      BY <3>1, RowTypesPrime
  <2>2. \A d \in Devices : devices'[d] = Absent
    BY <1>10 DEF Restart, EmptyMap
  <2> DEFINE T == [d \in Devices |-> RowOf(d)]
  <2>3. T' \in [Devices -> Table!Rows \cup {Absent}]
    BY <2>1
  <2>4. \A d \in Devices : T'[d] # Absent => ~T'[d].online
    BY <2>1, <2>2
  <2> QED
    BY <2>3, <2>4 DEF Table!Next, Table!Restart
<1> QED
  BY <1>a, <1>d, <1>1, <1>2, <1>3, <1>4, <1>5, <1>6, <1>7, <1>8, <1>9, <1>10, SerialCases

(* The maps, the handlers and the sweeper behave as one table in which a   *)
(* device connects, reports and disconnects in single steps, no row is     *)
(* lost while the server runs, and a reconnect keeps what the device last  *)
(* reported (register_device, update_status,                               *)
(* unregister_device_if_session, restore).                                 *)
THEOREM RefinesTable ==
  ASSUME ~Overlap
  PROVE  Spec => ImplementsTable
<1>1. Init => Table!Init
  <2> SUFFICES ASSUME Init PROVE Table!Init
    OBVIOUS
  <2>1. \A d \in Devices : RowOf(d) = Absent
    BY DEF Init, EmptyMap, RowOf, Moving
  <2> QED
    BY <2>1 DEF Table!Init
<1>2. Inv /\ Serial /\ Inv' /\ Serial' /\ [Next]_vars
        => [Table!Next]_([d \in Devices |-> RowOf(d)])
  BY TableStep
<1> QED
  BY <1>1, <1>2, SerialInvariant, PTL DEF Spec, ImplementsTable, Table!Spec
-----------------------------------------------------------------------------
(* The state file, when there is one device.                               *)

Saving == {"snapOnline", "snapOffline", "save"}

(* While a device is online only its own handler is saving, what it has    *)
(* collected so far is what the maps hold, and when it has saved, so does  *)
(* the file.                                                               *)
Filed ==
  \A d \in Devices :
    LET s == devices[d].session IN
    devices[d] # Absent =>
      /\ \A t \in Tasks : pc[t] \in Finishing => t = s
      /\ pc[s] \in {"snapOffline", "save"} => snap[s].on[d] = Lasting(devices[d])
      /\ pc[s] = "save" => snap[s].off[d] = Absent
      /\ pc[s] \notin Saving => OnDisk(d) = Lasting(devices[d])

(* What a snapshot under way has collected of a device is x or nothing.    *)
Collects(u, d, x) ==
  /\ pc[u] \in {"snapOffline", "save"} => snap[u].on[d] \in {Absent, x}
  /\ pc[u] = "save" => snap[u].off[d] \in {Absent, x}

(* A save that will find, or has found, the device among those offline.    *)
WillFile(u, d) ==
  \/ pc[u] \in {"snapOnline", "snapOffline"}
  \/ pc[u] = "save" /\ snap[u].off[d] = offline_devices[d]

(* Of a device that is offline, or about to be, nothing older is under way *)
(* to the file, and once nobody saves any more the file holds what the map *)
(* does, or nothing.                                                       *)
FiledOffline ==
  \A d \in Devices :
    /\ \A t, u \in Tasks :
         pc[t] = "park" /\ Dev(t) = d => Collects(u, d, Lasting(hand[t]))
    /\ offline_devices[d] # Absent =>
         /\ \A u \in Tasks : Collects(u, d, offline_devices[d])
         /\ \/ OnDisk(d) \in {Absent, offline_devices[d]}
            \/ \E u \in Tasks : WillFile(u, d)

(* A step that neither changes what is to be saved nor goes on saving.     *)
NoSave ==
  /\ \A d \in Devices :
       /\ devices'[d] # Absent =>
            /\ devices[d] # Absent
            /\ devices'[d].session = devices[d].session
            /\ Lasting(devices'[d]) = Lasting(devices[d])
       /\ offline_devices'[d] \in {offline_devices[d], Absent}
  /\ UNCHANGED <<file, snap>>
  /\ \A t \in Tasks :
       /\ pc'[t] \in Finishing => pc[t] \in Finishing
       /\ pc[t] \in Saving => pc'[t] = pc[t]
       /\ pc'[t] \in Saving => pc'[t] = pc[t]
       /\ pc'[t] = "park" => pc[t] = "park" /\ hand'[t] = hand[t] /\ job'[t] = job[t]

(* A step that saves nothing and moves no entry keeps the file current.    *)
LEMMA NoSaveKeeps ==
  ASSUME TypeOK, Filed, NoSave
  PROVE  Filed'
<1> SUFFICES ASSUME NEW d \in Devices, devices'[d] # Absent,
                    NEW s, s = devices'[d].session
             PROVE  /\ \A t \in Tasks : pc'[t] \in Finishing => t = s
                    /\ pc'[s] \in {"snapOffline", "save"} => snap'[s].on[d] = Lasting(devices'[d])
                    /\ pc'[s] = "save" => snap'[s].off[d] = Absent
                    /\ pc'[s] \notin Saving => OnDisk(d)' = Lasting(devices'[d])
  BY DEF Filed
<1>1. /\ devices[d] # Absent /\ devices[d].session = s /\ s \in Tasks
      /\ Lasting(devices'[d]) = Lasting(devices[d])
  BY OnlineEntry DEF NoSave, TypeOK, Tasks
<1>2. /\ \A t \in Tasks : pc[t] \in Finishing => t = s
      /\ pc[s] \in {"snapOffline", "save"} => snap[s].on[d] = Lasting(devices[d])
      /\ pc[s] = "save" => snap[s].off[d] = Absent
      /\ pc[s] \notin Saving => OnDisk(d) = Lasting(devices[d])
  BY <1>1 DEF Filed
<1>3. OnDisk(d)' = OnDisk(d)
  BY DEF OnDisk, NoSave
<1>4. pc'[s] \notin Saving => pc[s] \notin Saving
  BY <1>1 DEF NoSave
<1>5. pc'[s] \in Saving => pc'[s] = pc[s]
  BY <1>1 DEF NoSave
<1> QED
  BY <1>1, <1>2, <1>3, <1>4, <1>5 DEF NoSave, Saving

(* Every step but those of a save and the two that change an entry.        *)
LEMMA SaveCases ==
  ASSUME TypeOK, JobsOK, [Next]_vars
  PROVE  \/ NoSave
         \/ \E s \in Sessions : InsertOnline(s) \/ Status(s)
         \/ \E t \in Tasks : SnapOnline(t) \/ SnapOffline(t) \/ Save(t)
         \/ \E t \in Tasks : RemoveOnline(t) \/ Park(t)
         \/ Restart
<1> USE RegistryAssumption DEF maps, Goto, Tasks
<1> DEFINE LeavesOffline(t) ==
             /\ \A d \in Devices : offline_devices'[d] \in {offline_devices[d], Absent}
             /\ \A u \in Tasks \ {t} : hand'[u] = hand[u] /\ job'[u] = job[u]
<1>1. ASSUME NEW t \in Tasks, NEW w \in Places \ (Finishing \cup {"park"}), pc[t] \notin Saving,
             UNCHANGED <<devices, file, snap>>, LeavesOffline(t), pc' = [pc EXCEPT ![t] = w]
      PROVE  NoSave
  BY <1>1 DEF NoSave, TypeOK, Saving, Finishing
<1>2. CASE UNCHANGED vars
  BY <1>2 DEF vars, NoSave
<1>3. ASSUME NEW s \in Sessions, Accept(s) \/ Reject(s) \/ TakePrior(s) PROVE NoSave
  <2>1. /\ pc[s] \notin Saving /\ UNCHANGED <<devices, file, snap>>
        /\ \E w \in {"register", "ended", "insert"} : pc' = [pc EXCEPT ![s] = w]
    BY <1>3 DEF Accept, Reject, TakePrior, Saving
  <2>2. LeavesOffline(s)
    <3>1. CASE Accept(s)
      BY <3>1 DEF Accept, TypeOK
    <3>2. CASE Reject(s)
      BY <3>2 DEF Reject
    <3>3. CASE TakePrior(s)
      BY <3>3, AtWork DEF TakePrior, TypeOK
    <3> QED
      BY <1>3, <3>1, <3>2, <3>3
  <2> QED
    BY <1>1, <2>1, <2>2 DEF Places, Finishing
<1>4. ASSUME NEW s \in Sessions, Pong(s) \/ Close(s) PROVE NoSave
  <2>1. /\ pc[s] \notin Saving /\ UNCHANGED <<devices, file, snap>>
        /\ \E w \in {"serve", "check"} : pc' = [pc EXCEPT ![s] = w]
    BY <1>4 DEF Pong, Close, Saving
  <2>2. LeavesOffline(s)
    BY <1>4 DEF Pong, Close
  <2> QED
    BY <1>1, <2>1, <2>2 DEF Places, Finishing
<1>5. ASSUME NEW s \in Sessions, NEW w \in {"serve", "pong"}, pc[s] = "serve",
             Touch(Dev(s)), UNCHANGED <<offline_devices, hand, job, file, snap>>,
             pc' = [pc EXCEPT ![s] = w]
      PROVE  NoSave
  <2>1. Dev(s) \in Devices
    BY <1>5, AtWork
  <2>2. \A r \in OnlineRec : Lasting(Heard(r)) = Lasting(r)
    BY OnlineEntry DEF Heard, Lasting, OnlineRec
  <2>3. \A d \in Devices : devices'[d] # Absent =>
          /\ devices[d] # Absent
          /\ devices'[d].session = devices[d].session
          /\ Lasting(devices'[d]) = Lasting(devices[d])
    BY <1>5, <2>1, <2>2, OnlineEntry DEF Touch, TypeOK
  <2>4. \A t \in Tasks : /\ pc'[t] \in Finishing => pc[t] \in Finishing
                         /\ pc[t] \in Saving => pc'[t] = pc[t]
                         /\ pc'[t] \in Saving => pc'[t] = pc[t]
                         /\ pc'[t] = "park" => pc[t] = "park"
    BY <1>5 DEF TypeOK, Saving, Finishing
  <2> QED
    BY <1>5, <2>3, <2>4 DEF NoSave
<1>6. ASSUME NEW s \in Sessions, PingFrame(s) PROVE NoSave
  <2>1. pc' = [pc EXCEPT ![s] = "serve"]
    BY <1>6 DEF PingFrame, TypeOK
  <2> QED
    BY <1>5, <1>6, <2>1 DEF PingFrame
<1>7. ASSUME NEW s \in Sessions, Ping(s) PROVE NoSave
  BY <1>5, <1>7 DEF Ping
<1>8. ASSUME NEW s \in Sessions, LinkDies(s) \/ End(s) PROVE NoSave
  BY <1>8 DEF LinkDies, End, Leave, NoSave, TypeOK
<1>9. ASSUME NEW t \in Tasks, BuildOnline(t) \/ BuildOffline(t) \/ SendEvent(t) PROVE NoSave
  <2>1. /\ pc[t] \in Finishing \ Saving /\ UNCHANGED <<devices, file, snap>>
        /\ \E w \in {"buildOffline", "send", "serve", "ended", "next"} : pc' = [pc EXCEPT ![t] = w]
    BY <1>9 DEF BuildOnline, BuildOffline, SendEvent, TypeOK, Saving, Finishing
  <2>2. UNCHANGED <<offline_devices, hand, job>>
    BY <1>9 DEF BuildOnline, BuildOffline, SendEvent
  <2> QED
    BY <2>1, <2>2 DEF NoSave, TypeOK, Saving, Finishing
<1>10. ASSUME NEW t \in Tasks, CheckSession(t) PROVE NoSave
  <2>1. /\ pc[t] \notin Saving /\ UNCHANGED <<devices, file, snap>>
        /\ \E w \in {"remove", "ended", "next"} : pc' = [pc EXCEPT ![t] = w]
    BY <1>10 DEF CheckSession, Done, Saving
  <2>2. LeavesOffline(t)
    BY <1>10 DEF CheckSession
  <2> QED
    BY <1>1, <2>1, <2>2 DEF Places, Finishing
<1>11. ASSUME StartSweep \/ Scan \/ NextStale PROVE NoSave
  <2>1. /\ pc[Sweeper] \notin Saving /\ UNCHANGED <<devices, file, snap>>
        /\ \E w \in {"scan", "next", "check", "sleep"} : pc' = [pc EXCEPT ![Sweeper] = w]
    BY <1>11 DEF StartSweep, Scan, NextStale, Saving
  <2>2. LeavesOffline(Sweeper)
    BY <1>11 DEF StartSweep, Scan, NextStale, Leave, TypeOK
  <2> QED
    BY <1>1, <2>1, <2>2 DEF Places, Finishing
<1>12. ASSUME NEW d \in Devices, Age(d) PROVE NoSave
  <2>1. \A r \in OnlineRec : Lasting(Silent(r)) = Lasting(r)
    BY OnlineEntry DEF Silent, Lasting, OnlineRec
  <2>2. \A e \in Devices : devices'[e] # Absent =>
          /\ devices[e] # Absent
          /\ devices'[e].session = devices[e].session
          /\ Lasting(devices'[e]) = Lasting(devices[e])
    BY <1>12, <2>1, OnlineEntry DEF Age, TypeOK
  <2> QED
    BY <1>12, <2>2 DEF Age, NoSave
<1> HIDE DEF LeavesOffline
<1> QED
  BY <1>2, <1>3, <1>4, <1>6, <1>7, <1>8, <1>9, <1>10, <1>11, <1>12, NextCases

(* What a step leaves to the save of the one device that is online.        *)
LEMMA FiledStep ==
  ASSUME NEW d, Devices = {d}, Persisting, ~IoErrors,
         Inv, Serial, Filed, [Next]_vars
  PROVE  Filed'
<1> USE RegistryAssumption DEF Goto, Tasks
<1>a. TypeOK /\ JobsOK
  BY DEF Inv
<1>b. \A t \in Tasks : pc[t] \in Finishing \cup {"serve", "insert", "remove", "park"} =>
        Dev(t) = d /\ Working(t, d)
  BY <1>a, AtWork
<1>1. CASE NoSave
  BY <1>1, <1>a, NoSaveKeeps
<1>2. ASSUME devices'[d] = Absent PROVE Filed'
  BY <1>2 DEF Filed
<1>3. ASSUME NEW t \in Tasks, RemoveOnline(t) \/ Park(t) PROVE Filed'
  <2>1. CASE RemoveOnline(t)
    <3>1. devices'[d] = Absent
      BY <1>a, <1>b, <2>1 DEF RemoveOnline, TypeOK
    <3> QED
      BY <1>2, <3>1
  <2>2. CASE Park(t)
    <3>1. devices'[d] = Absent
      BY <1>b, <2>2 DEF Park, Serial, Parking
    <3> QED
      BY <1>2, <3>1
  <2> QED
    BY <1>3, <2>1, <2>2
<1>4. CASE Restart
  BY <1>2, <1>4 DEF Restart, EmptyMap
<1>5. ASSUME NEW s \in Sessions, InsertOnline(s) \/ Status(s) PROVE Filed'
  <2>1. /\ pc'[s] = "snapOnline" /\ \A t \in Tasks : t # s => pc'[t] = pc[t]
        /\ pc[s] \in {"insert", "serve"}
    BY <1>5, <1>a DEF InsertOnline, Status, FinishWith, AfterWrite, TypeOK
  <2>2. devices'[d].session = s /\ \A t \in Tasks : pc[t] \in Finishing => t = s
    <3>1. CASE InsertOnline(s)
      <4>1. devices'[d].session = s
        BY <1>a, <1>b, <2>1, <3>1 DEF InsertOnline, TypeOK
      <4>2. pc[Sweeper] \notin Finishing
        BY <1>b, <3>1 DEF InsertOnline, Serial, Joining, Removing
      <4>3. \A t \in Sessions : pc[t] \in Finishing => t = s
        BY <1>b, <2>1 DEF Serial, Alone
      <4> QED
        BY <4>1, <4>2, <4>3
    <3>2. CASE Status(s)
      <4>1. PICK st \in Statuses : devices' = [devices EXCEPT ![d] = Reported(devices[d], st)]
        BY <1>b, <2>1, <3>2 DEF Status
      <4>2. devices[d] # Absent /\ devices[d] \in OnlineRec
        BY <1>a, <1>b, <2>1, <3>2 DEF Status, TypeOK
      <4>3. devices'[d].session = devices[d].session /\ devices[d].session \in Sessions
        BY <1>a, <4>1, <4>2, OnlineEntry DEF TypeOK
      <4>4. Working(devices[d].session, d)
        BY <1>a, <4>2, <4>3 DEF Inv, OnlineHasHandler, Working, TypeOK, Job
      <4>5. devices[d].session = s
        BY <1>b, <2>1, <4>3, <4>4 DEF Serial, Alone
      <4> QED
        BY <4>2, <4>3, <4>5 DEF Filed
    <3> QED
      BY <1>5, <3>1, <3>2
  <2>3. \A t \in Tasks : pc'[t] \in Finishing => t = s
    BY <2>1, <2>2
  <2> QED
    BY <2>1, <2>2, <2>3 DEF Filed, Saving
<1>6. ASSUME NEW t \in Tasks, SnapOnline(t) \/ SnapOffline(t) \/ Save(t) PROVE Filed'
  <2>1. CASE devices[d] = Absent
    <3>1. devices'[d] = Absent
      BY <1>6, <2>1 DEF SnapOnline, SnapOffline, Save, maps
    <3> QED
      BY <1>2, <3>1
  <2>2. CASE devices[d] # Absent
    <3>1. /\ pc[t] \in Finishing /\ devices' = devices
          /\ \A u \in Tasks : u # t => pc'[u] = pc[u]
      BY <1>6, <1>a DEF SnapOnline, SnapOffline, Save, maps, Finishing, TypeOK
    <3>2. /\ devices[d].session = t
          /\ \A u \in Tasks : pc[u] \in Finishing => u = t
          /\ pc[t] \in {"snapOffline", "save"} => snap[t].on[d] = Lasting(devices[d])
          /\ pc[t] = "save" => snap[t].off[d] = Absent
      BY <2>2, <3>1 DEF Filed
    <3>3. \A u \in Tasks : pc'[u] \in Finishing => u = t
      BY <3>1, <3>2
    <3>4. offline_devices[d] = Absent
      BY <2>2 DEF Serial, ListedOnce
    <3>5. CASE SnapOnline(t)
      <4>1. PICK e \in todo[t] :
              /\ snap' = [snap EXCEPT ![t] = WithOn(@, e, Lasting(devices[e]))]
              /\ pc' = [pc EXCEPT ![t] = IF todo[t] \ {e} = {} THEN "snapOffline" ELSE "snapOnline"]
        BY <3>5 DEF SnapOnline
      <4>2. e = d /\ todo[t] \ {e} = {}
        BY <1>a DEF TypeOK
      <4>3. /\ snap' = [snap EXCEPT ![t] = WithOn(snap[t], d, Lasting(devices[d]))]
            /\ pc'[t] = "snapOffline"
        BY <1>a, <4>1, <4>2 DEF TypeOK
      <4>4. snap'[t].on[d] = Lasting(devices[d])
        BY <1>a, <4>3 DEF WithOn, TypeOK, Snapshot, PersistedMap
      <4> QED
        BY <3>1, <3>2, <3>3, <4>2, <4>3, <4>4 DEF Filed, Saving
    <3>6. CASE SnapOffline(t)
      <4>1. PICK e \in todo[t] :
              /\ snap' = [snap EXCEPT ![t] = WithOff(@, e, offline_devices[e])]
              /\ pc' = [pc EXCEPT ![t] = IF todo[t] \ {e} = {} THEN "save" ELSE "snapOffline"]
        BY <3>6 DEF SnapOffline
      <4>2. e = d /\ todo[t] \ {e} = {} /\ pc[t] = "snapOffline"
        BY <1>a, <3>6 DEF SnapOffline, TypeOK
      <4>3. /\ snap' = [snap EXCEPT ![t] = WithOff(snap[t], d, Absent)]
            /\ pc'[t] = "save"
        BY <1>a, <3>4, <4>1, <4>2 DEF TypeOK
      <4>4. snap'[t].off[d] = Absent /\ snap'[t].on = snap[t].on
        BY <1>a, <4>3 DEF WithOff, TypeOK, Snapshot, PersistedMap
      <4> QED
        BY <3>1, <3>2, <3>3, <4>2, <4>3, <4>4 DEF Filed, Saving
    <3>7. CASE Save(t)
      <4>1. /\ file' = snap[t] /\ pc[t] = "save"
            /\ pc'[t] \in {"build", ret[t]}
        BY <1>a, <3>7 DEF Save, Saved, AfterSave, TypeOK
      <4>2. pc'[t] \notin Saving
        BY <1>a, <4>1 DEF TypeOK, Saving
      <4>3. OnDisk(d)' = Lasting(devices[d])
        BY <3>2, <4>1 DEF OnDisk
      <4> QED
        BY <3>1, <3>2, <3>3, <4>2, <4>3 DEF Filed, Saving
    <3> QED
      BY <1>6, <3>5, <3>6, <3>7
  <2> QED
    BY <2>1, <2>2
<1> QED
  BY <1>a, <1>1, <1>3, <1>4, <1>5, <1>6, SaveCases

(* A step that saves nothing and moves no entry leaves no older record on  *)
(* its way to the file.                                                    *)
LEMMA NoSaveKeepsOffline ==
  ASSUME FiledOffline, NoSave
  PROVE  FiledOffline'
<1>1. \A x : \A u \in Tasks, d \in Devices : Collects(u, d, x) => Collects(u, d, x)'
  BY DEF Collects, NoSave, Saving
<1>2. ASSUME NEW d \in Devices, NEW t \in Tasks, NEW u \in Tasks,
             pc'[t] = "park", Dev(t)' = d
      PROVE  Collects(u, d, Lasting(hand[t]))'
  <2>1. pc[t] = "park" /\ Dev(t) = d /\ hand'[t] = hand[t]
    BY <1>2 DEF NoSave, Dev
  <2>2. Collects(u, d, Lasting(hand[t]))
    BY <2>1 DEF FiledOffline
  <2> QED
    BY <2>1, <2>2 DEF Collects, NoSave, Saving, Lasting
<1>3. ASSUME NEW d \in Devices, offline_devices'[d] # Absent
      PROVE  /\ \A u \in Tasks : Collects(u, d, offline_devices[d])'
             /\ \/ OnDisk(d)' \in {Absent, offline_devices'[d]}
                \/ \E u \in Tasks : WillFile(u, d)'
  <2>1. offline_devices'[d] = offline_devices[d]
    BY <1>3 DEF NoSave
  <2>2. /\ \A u \in Tasks : Collects(u, d, offline_devices[d])
        /\ \/ OnDisk(d) \in {Absent, offline_devices[d]}
           \/ \E u \in Tasks : WillFile(u, d)
    BY <1>3, <2>1 DEF FiledOffline
  <2>3. OnDisk(d)' = OnDisk(d)
    BY DEF OnDisk, NoSave
  <2>4. \A u \in Tasks : WillFile(u, d) => WillFile(u, d)'
    BY <2>1 DEF WillFile, NoSave, Saving
  <2>5. \A u \in Tasks : Collects(u, d, offline_devices[d])'
    BY <2>1, <2>2 DEF Collects, NoSave, Saving
  <2> QED
    BY <2>1, <2>2, <2>3, <2>4, <2>5
<1> QED
  BY <1>2, <1>3 DEF FiledOffline

(* Every save under way when the one device goes offline has found it as   *)
(* it last was, or not at all, and the save that ends the move files it.   *)
LEMMA FiledOfflineStep ==
  ASSUME NEW d, Devices = {d}, Persisting, ~IoErrors,
         Inv, Serial, Filed, FiledOffline, [Next]_vars
  PROVE  FiledOffline'
<1> USE RegistryAssumption DEF Goto, Tasks
<1>a. TypeOK /\ JobsOK
  BY DEF Inv
<1>b. \A t \in Tasks : pc[t] \in Finishing \cup {"serve", "insert", "remove", "park"} =>
        Dev(t) = d /\ Working(t, d)
  BY <1>a, AtWork
<1>c. \A t \in Tasks : pc[t] = "park" => devices[d] = Absent /\ offline_devices[d] = Absent
  BY <1>b DEF Serial, Parking
<1>d. offline_devices[d] # Absent => devices[d] = Absent
  BY DEF Serial, ListedOnce
<1>e. /\ \A t, u \in Tasks : pc'[t] = "park" => Collects(u, d, Lasting(hand[t]))'
      /\ offline_devices'[d] # Absent =>
           /\ \A u \in Tasks : Collects(u, d, offline_devices[d])'
           /\ \/ OnDisk(d)' \in {Absent, offline_devices'[d]}
              \/ \E u \in Tasks : WillFile(u, d)'
      => FiledOffline'
  BY DEF FiledOffline
<1>f. /\ \A t, u \in Tasks : pc[t] = "park" => Collects(u, d, Lasting(hand[t]))
      /\ offline_devices[d] # Absent =>
           /\ \A u \in Tasks : Collects(u, d, offline_devices[d])
           /\ \/ OnDisk(d) \in {Absent, offline_devices[d]}
              \/ \E u \in Tasks : WillFile(u, d)
  BY <1>b DEF FiledOffline
<1>1. CASE NoSave
  BY <1>1, NoSaveKeepsOffline
<1>2. ASSUME NEW s \in Sessions, InsertOnline(s) \/ Status(s)
      PROVE  (\A t \in Tasks : pc'[t] # "park") /\ offline_devices'[d] = Absent
  <2>1. pc'[s] = "snapOnline" /\ \A t \in Tasks : t # s => pc'[t] = pc[t]
    BY <1>2, <1>a DEF InsertOnline, Status, FinishWith, AfterWrite, TypeOK
  <2>2. CASE InsertOnline(s)
    <3>1. pc[s] = "insert" /\ Dev(s) = d /\ Working(s, d) /\ offline_devices' = offline_devices
      BY <1>b, <2>2 DEF InsertOnline
    <3>2. offline_devices[d] = Absent /\ (Working(Sweeper, d) => pc[Sweeper] \notin Removing)
      BY <3>1 DEF Serial, Joining
    <3>3. \A t \in Sessions : Working(t, d) => t = s
      BY <3>1 DEF Serial, Alone
    <3>4. \A t \in Tasks : t # s => pc[t] # "park"
      BY <1>b, <3>2, <3>3 DEF Removing
    <3> QED
      BY <2>1, <3>1, <3>2, <3>4
  <2>3. CASE Status(s)
    <3>1. devices[d] # Absent /\ offline_devices' = offline_devices
      BY <1>b, <2>3 DEF Status
    <3> QED
      BY <1>c, <1>d, <2>1, <3>1
  <2> QED
    BY <1>2, <2>2, <2>3
<1>3. ASSUME NEW t \in Tasks, SnapOnline(t)
      PROVE  FiledOffline'
  <2>1. PICK e \in todo[t] :
          /\ snap' = [snap EXCEPT ![t] = WithOn(@, e, Lasting(devices[e]))]
          /\ pc' = [pc EXCEPT ![t] = IF todo[t] \ {e} = {} THEN "snapOffline" ELSE "snapOnline"]
    BY <1>3 DEF SnapOnline
  <2>2. e = d /\ todo[t] \ {e} = {}
    BY <1>a DEF TypeOK
  <2>3. /\ snap' = [snap EXCEPT ![t] = WithOn(snap[t], d, Lasting(devices[d]))]
        /\ pc' = [pc EXCEPT ![t] = "snapOffline"]
        /\ UNCHANGED <<devices, offline_devices, hand, file>>
    BY <1>3, <1>a, <2>1, <2>2 DEF SnapOnline, maps, TypeOK
  <2>4. snap'[t].on[d] = Lasting(devices[d]) /\ pc'[t] = "snapOffline"
    BY <1>a, <2>3 DEF WithOn, TypeOK, Snapshot, PersistedMap
  <2>5. \A u \in Tasks : u # t => snap'[u] = snap[u] /\ pc'[u] = pc[u]
    BY <1>a, <2>3 DEF TypeOK
  <2>6. ASSUME NEW x, devices[d] = Absent, NEW u \in Tasks, Collects(u, d, x)
        PROVE  Collects(u, d, x)'
    BY <2>4, <2>5, <2>6 DEF Collects, Lasting
  <2>7. \A p, u \in Tasks : pc'[p] = "park" => Collects(u, d, Lasting(hand[p]))'
    <3> SUFFICES ASSUME NEW p \in Tasks, NEW u \in Tasks, pc'[p] = "park"
                 PROVE  Collects(u, d, Lasting(hand[p]))'
      OBVIOUS
    <3>1. pc[p] = "park" /\ devices[d] = Absent
      BY <1>c, <2>4, <2>5
    <3>2. hand'[p] = hand[p]
      BY <2>3
    <3>3. u # t => snap'[u] = snap[u] /\ pc'[u] = pc[u]
      BY <2>5
    <3> QED
      BY <1>f, <2>4, <3>1, <3>2, <3>3 DEF Collects, Lasting
  <2>8. ASSUME offline_devices[d] # Absent
        PROVE  /\ \A u \in Tasks : Collects(u, d, offline_devices[d])'
               /\ WillFile(t, d)'
    <3>1. devices[d] = Absent
      BY <1>d, <2>8
    <3>2. \A u \in Tasks : Collects(u, d, offline_devices[d])'
      BY <1>f, <2>3, <2>4, <2>5, <2>8, <3>1 DEF Collects, Lasting
    <3>3. WillFile(t, d)'
      BY <2>4 DEF WillFile
    <3> QED
      BY <3>2, <3>3
  <2> QED
    BY <1>e, <2>3, <2>7, <2>8
<1>4. ASSUME NEW t \in Tasks, SnapOffline(t)
      PROVE  FiledOffline'
  <2>1. PICK e \in todo[t] :
          /\ snap' = [snap EXCEPT ![t] = WithOff(@, e, offline_devices[e])]
          /\ pc' = [pc EXCEPT ![t] = IF todo[t] \ {e} = {} THEN "save" ELSE "snapOffline"]
    BY <1>4 DEF SnapOffline
  <2>2. e = d /\ todo[t] \ {e} = {} /\ pc[t] = "snapOffline"
    BY <1>4, <1>a DEF SnapOffline, TypeOK
  <2>3. /\ snap' = [snap EXCEPT ![t] = WithOff(snap[t], d, offline_devices[d])]
        /\ pc' = [pc EXCEPT ![t] = "save"]
        /\ UNCHANGED <<devices, offline_devices, hand, file>>
    BY <1>4, <1>a, <2>1, <2>2 DEF SnapOffline, maps, TypeOK
  <2>4. /\ snap'[t].off[d] = offline_devices[d] /\ snap'[t].on = snap[t].on
        /\ pc'[t] = "save"
    BY <1>a, <2>3 DEF WithOff, TypeOK, Snapshot, PersistedMap
  <2>5. \A u \in Tasks : u # t => snap'[u] = snap[u] /\ pc'[u] = pc[u]
    BY <1>a, <2>3 DEF TypeOK
  <2>7. \A p, u \in Tasks : pc'[p] = "park" => Collects(u, d, Lasting(hand[p]))'
    <3> SUFFICES ASSUME NEW p \in Tasks, NEW u \in Tasks, pc'[p] = "park"
                 PROVE  Collects(u, d, Lasting(hand[p]))'
      OBVIOUS
    <3>1. pc[p] = "park" /\ offline_devices[d] = Absent
      BY <1>c, <2>4, <2>5
    <3>2. hand'[p] = hand[p]
      BY <2>3
    <3>3. u # t => snap'[u] = snap[u] /\ pc'[u] = pc[u]
      BY <2>5
    <3> QED
      BY <1>f, <2>2, <2>4, <3>1, <3>2, <3>3 DEF Collects, Lasting
  <2>8. ASSUME offline_devices[d] # Absent
        PROVE  /\ \A u \in Tasks : Collects(u, d, offline_devices[d])'
               /\ WillFile(t, d)'
    <3>1. \A u \in Tasks : Collects(u, d, offline_devices[d])'
      BY <1>f, <2>2, <2>3, <2>4, <2>5, <2>8 DEF Collects
    <3>2. WillFile(t, d)'
      BY <2>3, <2>4 DEF WillFile
    <3> QED
      BY <3>1, <3>2
  <2> QED
    BY <1>e, <2>3, <2>7, <2>8
<1>5. ASSUME NEW t \in Tasks, Save(t)
      PROVE  FiledOffline'
  <2>1. /\ file' = snap[t] /\ pc[t] = "save" /\ pc'[t] \in {"build", ret[t]}
        /\ UNCHANGED <<devices, offline_devices, hand>>
        /\ \A u \in Tasks : u # t => snap'[u] = snap[u] /\ pc'[u] = pc[u]
    BY <1>5, <1>a DEF Save, Saved, AfterSave, maps, TypeOK
  <2>2. pc'[t] \notin Saving \cup {"park"}
    BY <1>a, <2>1 DEF TypeOK, Saving
  <2>3. ASSUME NEW p \in Tasks, NEW u \in Tasks, pc'[p] = "park"
        PROVE  Collects(u, d, Lasting(hand[p]))'
    <3>1. pc[p] = "park" /\ hand'[p] = hand[p]
      BY <2>1, <2>2, <2>3
    <3> QED
      BY <1>f, <2>1, <2>2, <3>1 DEF Collects, Saving, Lasting
  <2>4. ASSUME offline_devices[d] # Absent
        PROVE  /\ \A u \in Tasks : Collects(u, d, offline_devices[d])'
               /\ OnDisk(d)' \in {Absent, offline_devices[d]}
    <3>1. \A u \in Tasks : Collects(u, d, offline_devices[d])'
      BY <1>f, <2>1, <2>2, <2>4 DEF Collects, Saving
    <3>2. Collects(t, d, offline_devices[d])
      BY <1>f, <2>4
    <3>3. OnDisk(d)' \in {Absent, offline_devices[d]}
      BY <2>1, <3>2 DEF Collects, OnDisk
    <3> QED
      BY <3>1, <3>3
  <2> QED
    BY <1>e, <2>1, <2>3, <2>4
<1>6. ASSUME NEW t \in Tasks, RemoveOnline(t)
      PROVE  FiledOffline'
  <2>1. /\ pc[t] = "remove" /\ hand' = [hand EXCEPT ![t] = devices[d]]
        /\ pc' = [pc EXCEPT ![t] = IF devices[d] # Absent THEN "park" ELSE Done(t)]
        /\ UNCHANGED <<offline_devices, file, snap>>
    BY <1>6, <1>b DEF RemoveOnline
  <2>2. /\ \A u \in Tasks : u # t => pc'[u] = pc[u] /\ hand'[u] = hand[u]
        /\ pc'[t] = IF devices[d] # Absent THEN "park" ELSE Done(t)
        /\ hand'[t] = devices[d]
    BY <1>a, <2>1 DEF TypeOK
  <2>3. Done(t) \in {"ended", "next"}
    BY DEF Done
  <2>5. ASSUME NEW u \in Tasks PROVE pc'[u] \in Saving => pc'[u] = pc[u]
    BY <2>2, <2>3 DEF Saving
  <2>6. ASSUME NEW p \in Tasks, NEW u \in Tasks, pc'[p] = "park"
        PROVE  Collects(u, d, Lasting(hand[p]))'
    <3>1. CASE devices[d] = Absent
      <4>1. pc[p] = "park" /\ hand'[p] = hand[p]
        BY <2>2, <2>3, <2>6, <3>1
      <4> QED
        BY <1>f, <2>1, <2>5, <4>1 DEF Collects, Saving, Lasting
    <3>2. CASE devices[d] # Absent
      <4>1. p = t
        BY <1>c, <2>2, <2>6, <3>2
      <4>2. hand'[p] = devices[d]
        BY <2>2, <4>1
      <4>3. /\ \A v \in Tasks : pc[v] \in Finishing => v = devices[d].session
            /\ pc[devices[d].session] \in {"snapOffline", "save"}
                 => snap[devices[d].session].on[d] = Lasting(devices[d])
            /\ pc[devices[d].session] = "save" => snap[devices[d].session].off[d] = Absent
        BY <3>2 DEF Filed
      <4>4. pc'[u] \in {"snapOffline", "save"} => u = devices[d].session /\ pc'[u] = pc[u]
        BY <2>5, <4>3 DEF Saving, Finishing
      <4> QED
        BY <2>1, <4>2, <4>3, <4>4 DEF Collects, Lasting
    <3> QED
      BY <3>1, <3>2
  <2>7. ASSUME offline_devices[d] # Absent
        PROVE  /\ \A u \in Tasks : Collects(u, d, offline_devices[d])'
               /\ \/ OnDisk(d)' \in {Absent, offline_devices[d]}
                  \/ \E u \in Tasks : WillFile(u, d)'
    <3>1. \A u \in Tasks : Collects(u, d, offline_devices[d])'
      BY <1>f, <2>1, <2>5, <2>7 DEF Collects, Saving
    <3>2. OnDisk(d)' = OnDisk(d)
      BY <2>1 DEF OnDisk
    <3>3. \A u \in Tasks : WillFile(u, d) => WillFile(u, d)'
      BY <2>1, <2>2 DEF WillFile
    <3> QED
      BY <1>f, <2>7, <3>1, <3>2, <3>3
  <2> QED
    BY <1>e, <2>1, <2>6, <2>7
<1>7. ASSUME NEW t \in Tasks, Park(t)
      PROVE  FiledOffline'
  <2>1. /\ pc[t] = "park" /\ UNCHANGED <<file, snap>>
        /\ offline_devices' = [offline_devices EXCEPT ![d] = Lasting(hand[t])]
        /\ pc' = [pc EXCEPT ![t] = "snapOnline"]
    BY <1>7, <1>b DEF Park, FinishWith, AfterWrite
  <2>2. /\ \A u \in Tasks : u # t => pc'[u] = pc[u]
        /\ pc'[t] = "snapOnline" /\ offline_devices'[d] = Lasting(hand[t])
    BY <1>a, <2>1 DEF TypeOK, PersistedMap
  <2>3. \A u \in Tasks : pc'[u] # "park"
    BY <1>b, <2>1, <2>2 DEF Serial, Parking
  <2>4. \A u \in Tasks : Collects(u, d, offline_devices[d])'
    BY <1>f, <2>1, <2>2 DEF Collects
  <2>5. WillFile(t, d)'
    BY <2>2 DEF WillFile
  <2> QED
    BY <1>e, <2>3, <2>4, <2>5
<1>8. CASE Restart
  <2>1. /\ offline_devices' = Restored /\ file' = file
        /\ \A t \in Tasks : pc'[t] \in {"sleep", "new", "ended"}
    BY <1>8 DEF Restart
  <2>2. OnDisk(d)' = offline_devices'[d]
    BY <2>1 DEF OnDisk, Restored
  <2>3. \A u \in Tasks : Collects(u, d, offline_devices[d])'
    BY <2>1 DEF Collects
  <2> QED
    BY <1>e, <2>1, <2>2, <2>3
<1> QED
  BY <1>a, <1>e, <1>1, <1>2, <1>3, <1>4, <1>5, <1>6, <1>7, <1>8, SaveCases

(* With one device, a state file and a disk that works, the file holds     *)
(* what the server holds of the device whenever nobody is at work on it,   *)
(* and never anything older; only an offline device may be missing.  For   *)
(* any number of connections, sweeps and restarts (persist at the end of   *)
(* register_device, update_status and unregister_device_if_session).       *)
THEOREM FileKeepsUp ==
  ASSUME NEW CONSTANT d, Devices = {d}, Persisting, ~IoErrors, ~Overlap
  PROVE  Spec => []FileIsCurrent
<1>1. Inv /\ Serial /\ Filed /\ FiledOffline /\ [Next]_vars => Filed' /\ FiledOffline'
  BY FiledStep, FiledOfflineStep
<1>2. Init => Filed /\ FiledOffline
  BY DEF Init, EmptyMap, Filed, FiledOffline
<1>3. Inv /\ Serial /\ Filed /\ FiledOffline => FileIsCurrent
  <2> SUFFICES ASSUME Inv, Serial, Filed, FiledOffline, \A e \in Devices : AtRest(e),
                      NEW e \in known
               PROVE  \/ OnDisk(e) = Held(e)
                      \/ devices[e] = Absent /\ OnDisk(e) = Absent
    BY DEF FileIsCurrent
  <2>1. e \in Devices
    BY DEF Inv, TypeOK
  <2>2. CASE devices[e] # Absent
    <3>1. devices[e].session \in Tasks /\ Working(devices[e].session, e)
      BY <2>1, <2>2, OnlineEntry, JobFields DEF Inv, TypeOK, OnlineHasHandler, Working, Tasks, Job
    <3>2. pc[devices[e].session] \notin Saving
      BY <2>1, <3>1 DEF AtRest, Saving
    <3> QED
      BY <2>1, <2>2, <3>2 DEF Filed, Held
  <2>3. CASE devices[e] = Absent
    <3>1. ~ \E t \in Tasks : Moving(t, e)
      BY <2>1 DEF AtRest, Moving
    <3>2. offline_devices[e] # Absent
      BY <2>3, <3>1 DEF Inv, NeverForgotten
    <3>3. \A u \in Tasks : ~WillFile(u, e)
      <4> SUFFICES ASSUME NEW u \in Tasks, WillFile(u, e) PROVE FALSE
        OBVIOUS
      <4>1. pc[u] \in Saving
        BY DEF WillFile, Saving
      <4>2. Working(u, Dev(u)) /\ Dev(u) \in Devices
        BY <4>1, AtWork DEF Inv, Saving, Finishing
      <4> QED
        BY <4>1, <4>2 DEF AtRest, Saving
    <3>4. OnDisk(e) \in {Absent, offline_devices[e]}
      BY <2>1, <3>2, <3>3 DEF FiledOffline
    <3> QED
      BY <2>3, <3>4 DEF Held
  <2> QED
    BY <2>2, <2>3
<1> QED
  BY <1>1, <1>2, <1>3, SerialInvariant, PTL DEF Spec
=============================================================================
