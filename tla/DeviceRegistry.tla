--------------------------- MODULE DeviceRegistry ---------------------------
(***************************************************************************)
(* The device registry of collar-server: the two concurrent maps of        *)
(* AppState (devices, offline_devices), the WebSocket handlers that move a *)
(* device between them, the stale-device sweeper, the save of the state    *)
(* file and the HomeKit event that end every one of those operations, and  *)
(* the restart that reads the state file back.                             *)
(*                                                                         *)
(* The server runs on the multi-threaded tokio runtime, so two tasks may   *)
(* interleave between any two map operations, whether or not an .await     *)
(* separates them.  One DashMap call (get, get_mut, insert, remove, one    *)
(* element of an iteration) is one step.  Saving the file is one step too: *)
(* StatePersister shows that the save of the code implements an atomic     *)
(* replacement of the file's contents, spoilt only by a write the OS       *)
(* refused too late.                                                       *)
(***************************************************************************)
(***************************************************************************)
(* Each definition right before the one it resembles (PriorDropped,        *)
(* PriorRead, StatusUnsaved, PingUnawaited, PongToSender, CloseUncleaned,  *)
(* MatchesAny, ParkWhole, ParkNothing) is a mutant: the same code with a   *)
(* plausible bug, which one of the properties rules out.  No specification *)
(* uses it.                                                                *)
(***************************************************************************)

CONSTANTS
  Devices,     \* ids of the configured devices
  Sessions,    \* WebSocket connections, each used once (session_id: Uuid)
  Sweeper,     \* the background task of main that drops silent devices
  Statuses,    \* status reports a daemon may send
  NoStatus,    \* DeviceStatus::default() with status_observed_at = None
  LanIps,      \* LAN addresses a daemon may report when it authenticates
  NoIp,        \* lan_ip = None
  Absent,      \* no entry in a map
  Persisting,  \* [server].state_path is set
  HomeKit,     \* a switch is configured and an SSE subscriber is connected
  IoErrors,    \* reading or writing the state file may fail
  Overlap      \* a daemon may connect before its last connection is cleaned up

Tasks == Sessions \cup {Sweeper}

OfflineRec == [status : Statuses \cup {NoStatus}, lan : LanIps \cup {NoIp}]

OnlineRec == [session : Sessions, status : Statuses \cup {NoStatus},
              lan : LanIps \cup {NoIp}, fresh : BOOLEAN]

View == [online : BOOLEAN, status : Statuses \cup {NoStatus}]

Job == [dev : Devices, sid : Sessions]

ASSUME RegistryAssumption ==
  /\ Sweeper \notin Sessions
  /\ NoStatus \notin Statuses
  /\ NoIp \notin LanIps
  /\ Absent \notin OfflineRec \cup OnlineRec \cup View \cup Job
  /\ {Persisting, HomeKit, IoErrors, Overlap} \subseteq BOOLEAN

VARIABLES
  devices,          \* DashMap<DeviceId, ConnectedDevice>; fresh: heard from in the last 30 s
  offline_devices,  \* DashMap<DeviceId, OfflineDevice>
  file,             \* the state file: the entries of both maps, in that order
  sse,              \* the last SwitchUpdated event broadcast for each device
  link,             \* what the daemon at the other end of a connection sees
  pc,               \* where each task is
  job,              \* the device and session a task is working for
  ret,              \* where a task goes after it has saved and emitted
  hand,             \* a record a task has taken out of a map
  todo,             \* devices an iteration has not visited yet
  snap,             \* the PersistedState a task is collecting
  view,             \* the HomeKitSwitchState a task has built
  batch,            \* silent (device, session) pairs the sweeper collected
  known             \* history: devices this server process has in its care

vars == <<devices, offline_devices, file, sse, link, pc, job, ret, hand, todo,
          snap, view, batch, known>>

maps == <<devices, offline_devices>>

EmptyMap == [d \in Devices |-> Absent]

EmptySnap == [on |-> EmptyMap, off |-> EmptyMap]

(* The part of an entry that outlives a connection. *)
Lasting(r) == IF r = Absent THEN Absent
              ELSE [status |-> r.status, lan |-> r.lan]

(* What a status report, a word from the device, and silence make of its   *)
(* entry.                                                                  *)
Reported(r, st) == [r EXCEPT !.status = st, !.fresh = TRUE]

Heard(r) == [r EXCEPT !.fresh = TRUE]

Silent(r) == [r EXCEPT !.fresh = FALSE]

Registered(s) == \E d \in Devices : devices[d] # Absent /\ devices[d].session = s

Goto(t, where) == pc' = [pc EXCEPT ![t] = where]

Dev(t) == job[t].dev

Working(t, d) == job[t] # Absent /\ job[t].dev = d

-----------------------------------------------------------------------------
(* Every operation that changes a device ends with                         *)
(*     self.persist().await; self.emit_switch_events_for_device(&id);      *)
(* AfterWrite is where a task goes once it has changed the maps, AfterSave *)
(* where it goes once the save has returned.                               *)

AfterSave(back) == IF HomeKit THEN "build" ELSE back

AfterWrite(back) == IF Persisting THEN "snapOnline" ELSE AfterSave(back)

FinishWith(t, back) ==
  /\ Goto(t, AfterWrite(back))
  /\ ret' = [ret EXCEPT ![t] = back]
  /\ todo' = [todo EXCEPT ![t] = IF Persisting THEN Devices ELSE {}]

WithOn(sn, d, r) == [sn EXCEPT !.on[d] = r]

WithOff(sn, d, r) == [sn EXCEPT !.off[d] = r]

(* AppState::snapshot visits the entries of devices, then those of         *)
(* offline_devices; each visit sees the entry at that moment.              *)
SnapOnline(t) ==
  /\ pc[t] = "snapOnline"
  /\ \E d \in todo[t] :
       LET rest == todo[t] \ {d} IN
       /\ snap' = [snap EXCEPT ![t] = WithOn(@, d, Lasting(devices[d]))]
       /\ Goto(t, IF rest = {} THEN "snapOffline" ELSE "snapOnline")
       /\ todo' = [todo EXCEPT ![t] = IF rest = {} THEN Devices ELSE rest]
  /\ UNCHANGED <<maps, file, sse, link, job, ret, hand, view, batch, known>>

SnapOffline(t) ==
  /\ pc[t] = "snapOffline"
  /\ \E d \in todo[t] :
       LET rest == todo[t] \ {d} IN
       /\ snap' = [snap EXCEPT ![t] = WithOff(@, d, offline_devices[d])]
       /\ Goto(t, IF rest = {} THEN "save" ELSE "snapOffline")
       /\ todo' = [todo EXCEPT ![t] = rest]
  /\ UNCHANGED <<maps, file, sse, link, job, ret, hand, view, batch, known>>

(* save_best_effort: an error is logged and the file stays as it was.  A   *)
(* write refused too late to be reported leaves part of the snapshot,      *)
(* which does not parse: to main that is a file with nothing in it.        *)
Saved(t) == IF IoErrors THEN {snap[t], file, EmptySnap} ELSE {snap[t]}

Save(t) ==
  /\ pc[t] = "save"
  /\ file' \in Saved(t)
  /\ snap' = [snap EXCEPT ![t] = EmptySnap]
  /\ Goto(t, AfterSave(ret[t]))
  /\ UNCHANGED <<maps, sse, link, job, ret, hand, todo, view, batch, known>>

(* build_switch_state looks in devices and, failing that, in               *)
(* offline_devices; a device in neither is presented as offline.           *)
BuildOnline(t) ==
  /\ pc[t] = "build"
  /\ IF devices[Dev(t)] # Absent
     THEN /\ view' = [view EXCEPT ![t] = [online |-> TRUE,
                                          status |-> devices[Dev(t)].status]]
          /\ Goto(t, "send")
     ELSE /\ UNCHANGED view
          /\ Goto(t, "buildOffline")
  /\ UNCHANGED <<maps, file, sse, link, job, ret, hand, todo, snap, batch, known>>

BuildOffline(t) ==
  LET r == offline_devices[Dev(t)] IN
  /\ pc[t] = "buildOffline"
  /\ view' = [view EXCEPT ![t] = [online |-> FALSE,
                status |-> IF r = Absent THEN NoStatus ELSE r.status]]
  /\ Goto(t, "send")
  /\ UNCHANGED <<maps, file, sse, link, job, ret, hand, todo, snap, batch, known>>

SendEvent(t) ==
  /\ pc[t] = "send"
  /\ sse' = [sse EXCEPT ![Dev(t)] = view[t]]
  /\ view' = [view EXCEPT ![t] = Absent]
  /\ Goto(t, ret[t])
  /\ UNCHANGED <<maps, file, link, job, ret, hand, todo, snap, batch, known>>

Finish(t) == \/ SnapOnline(t) \/ SnapOffline(t) \/ Save(t)
             \/ BuildOnline(t) \/ BuildOffline(t) \/ SendEvent(t)
-----------------------------------------------------------------------------
(* A connection: handle_socket.                                            *)

(* The Auth message is valid and the success reply was written.            *)
Accept(s) ==
  /\ pc[s] = "new"
  /\ \E d \in Devices :
       /\ Overlap \/ ~ \E t \in Tasks : Working(t, d)
       /\ job' = [job EXCEPT ![s] = [dev |-> d, sid |-> s]]
  /\ Goto(s, "register")
  /\ UNCHANGED <<maps, file, sse, link, ret, hand, todo, snap, view, batch, known>>

(* wait_for_auth failed or the reply could not be written.                 *)
Reject(s) ==
  /\ pc[s] = "new"
  /\ Goto(s, "ended")
  /\ UNCHANGED <<maps, file, sse, link, job, ret, hand, todo, snap, view, batch, known>>

PriorRead(s) ==
  /\ pc[s] = "register"
  /\ hand' = [hand EXCEPT ![s] = offline_devices[Dev(s)]]
  /\ Goto(s, "insert")
  /\ UNCHANGED <<maps, file, sse, link, job, ret, todo, snap, view, batch, known>>

(* register_device, first half: offline_devices.remove(&id).               *)
TakePrior(s) ==
  /\ pc[s] = "register"
  /\ hand' = [hand EXCEPT ![s] = offline_devices[Dev(s)]]
  /\ offline_devices' = [offline_devices EXCEPT ![Dev(s)] = Absent]
  /\ Goto(s, "insert")
  /\ UNCHANGED <<devices, file, sse, link, job, ret, todo, snap, view, batch, known>>

(* What register_device carries forward; DeviceStatus::default() if none.  *)
Fresh == [status |-> NoStatus, lan |-> NoIp]

PriorDropped(s) == Fresh

Prior(s) == IF hand[s] = Absent THEN Fresh ELSE hand[s]

(* register_device, second half: devices.insert(id, ConnectedDevice {..}). *)
InsertOnline(s) ==
  /\ pc[s] = "insert"
  /\ \E ip \in LanIps \cup {NoIp} :
       devices' = [devices EXCEPT ![Dev(s)] =
                     [session |-> s, status |-> Prior(s).status,
                      lan |-> IF ip = NoIp THEN Prior(s).lan ELSE ip,
                      fresh |-> TRUE]]
  /\ hand' = [hand EXCEPT ![s] = Absent]
  /\ known' = known \cup {Dev(s)}
  /\ FinishWith(s, "serve")
  /\ UNCHANGED <<offline_devices, file, sse, link, job, snap, view, batch>>

StatusUnsaved(s) ==
  /\ pc[s] = "serve"
  /\ link[s] # "dead"
  /\ devices[Dev(s)] # Absent
  /\ \E st \in Statuses :
       devices' = [devices EXCEPT ![Dev(s)] = Reported(@, st)]
  /\ UNCHANGED <<offline_devices, file, sse, link, pc, job, ret, hand, todo, snap,
                 view, batch, known>>

(* DaemonMessage::Status: update_status, by device id.                     *)
Status(s) ==
  /\ pc[s] = "serve"
  /\ link[s] # "dead"
  /\ devices[Dev(s)] # Absent
  /\ \E st \in Statuses :
       devices' = [devices EXCEPT ![Dev(s)] = Reported(@, st)]
  /\ FinishWith(s, "serve")
  /\ UNCHANGED <<offline_devices, file, sse, link, job, hand, snap, view, batch, known>>

(* A ping frame: touch_device.  The daemon's own keep-alive does more.     *)
Touch(d) ==
  devices' = IF devices[d] = Absent THEN devices
             ELSE [devices EXCEPT ![d] = Heard(@)]

PingFrame(s) ==
  /\ pc[s] = "serve"
  /\ link[s] # "dead"
  /\ Touch(Dev(s))
  /\ UNCHANGED <<offline_devices, file, sse, link, pc, job, ret, hand, todo, snap,
                 view, batch, known>>

PingUnawaited(s) ==
  /\ pc[s] = "serve"
  /\ link[s] = "up"
  /\ Touch(Dev(s))
  /\ Goto(s, "pong")
  /\ UNCHANGED <<offline_devices, file, sse, link, job, ret, hand, todo, snap, view,
                 batch, known>>

(* DaemonMessage::Ping, first half: touch_device, by device id.            *)
Ping(s) ==
  /\ pc[s] = "serve"
  /\ link[s] = "up"
  /\ Touch(Dev(s))
  /\ link' = [link EXCEPT ![s] = "awaiting"]
  /\ Goto(s, "pong")
  /\ UNCHANGED <<offline_devices, file, sse, job, ret, hand, todo, snap, view, batch, known>>

PongToSender(s) ==
  /\ pc[s] = "pong"
  /\ link' = [link EXCEPT ![s] = IF @ = "awaiting" THEN "up" ELSE @]
  /\ Goto(s, "serve")
  /\ UNCHANGED <<maps, file, sse, job, ret, hand, todo, snap, view, batch, known>>

(* Second half: a Pong to the device, which goes to the connection that is *)
(* registered for it.  A Pong that is not lost reaches its daemon before   *)
(* the daemon's next ping is due.                                          *)
Pong(s) ==
  /\ pc[s] = "pong"
  /\ link' = [c \in Sessions |->
                IF link[c] = "awaiting" /\ devices[Dev(s)] # Absent
                     /\ devices[Dev(s)].session = c
                THEN "up" ELSE link[c]]
  /\ Goto(s, "serve")
  /\ UNCHANGED <<maps, file, sse, job, ret, hand, todo, snap, view, batch, known>>

CloseUncleaned(s) ==
  /\ pc[s] = "serve"
  /\ Goto(s, "ended")
  /\ UNCHANGED <<maps, file, sse, link, job, ret, hand, todo, snap, view, batch, known>>

(* A Close frame, or an error from the socket, ends the receive loop.      *)
Close(s) ==
  /\ pc[s] = "serve"
  /\ Goto(s, "check")
  /\ UNCHANGED <<maps, file, sse, link, job, ret, hand, todo, snap, view, batch, known>>

(* The daemon's next ping is due and the last one was not answered: it     *)
(* drops the connection.                                                   *)
GiveUp(s) == link[s] = "awaiting" /\ Close(s)

(* The host loses power or network: nothing arrives any more, not even the *)
(* end of the connection.                                                  *)
LinkDies(s) ==
  /\ pc[s] \notin {"new", "ended"}
  /\ link[s] # "dead"
  /\ link' = [link EXCEPT ![s] = "dead"]
  /\ UNCHANGED <<maps, file, sse, pc, job, ret, hand, todo, snap, view, batch, known>>
-----------------------------------------------------------------------------
(* unregister_device_if_session, for a handler or for the sweeper.         *)

Done(t) == IF t = Sweeper THEN "next" ELSE "ended"

Leave(t) == job' = [job EXCEPT ![t] = Absent]

MatchesAny(t) == devices[Dev(t)] # Absent

(* devices.get(id).map(|d| d.session_id == session_id).unwrap_or(false)    *)
Matches(t) == /\ devices[Dev(t)] # Absent
              /\ devices[Dev(t)].session = job[t].sid

CheckSession(t) ==
  /\ pc[t] = "check"
  /\ Goto(t, IF Matches(t) THEN "remove" ELSE Done(t))
  /\ UNCHANGED <<maps, file, sse, link, job, ret, hand, todo, snap, view, batch, known>>

(* devices.remove(id): whatever entry is there by now.                     *)
RemoveOnline(t) ==
  /\ pc[t] = "remove"
  /\ hand' = [hand EXCEPT ![t] = devices[Dev(t)]]
  /\ devices' = [devices EXCEPT ![Dev(t)] = Absent]
  /\ Goto(t, IF devices[Dev(t)] # Absent THEN "park" ELSE Done(t))
  /\ UNCHANGED <<offline_devices, file, sse, link, job, ret, todo, snap, view, batch, known>>

ParkWhole(t) ==
  /\ pc[t] = "park"
  /\ offline_devices' = [offline_devices EXCEPT ![Dev(t)] = hand[t]]
  /\ hand' = [hand EXCEPT ![t] = Absent]
  /\ FinishWith(t, Done(t))
  /\ UNCHANGED <<devices, file, sse, link, job, snap, view, batch, known>>

ParkNothing(t) ==
  /\ pc[t] = "park"
  /\ hand' = [hand EXCEPT ![t] = Absent]
  /\ FinishWith(t, Done(t))
  /\ UNCHANGED <<maps, file, sse, link, job, snap, view, batch, known>>

(* offline_devices.insert(id, OfflineDevice {..})                          *)
Park(t) ==
  /\ pc[t] = "park"
  /\ offline_devices' = [offline_devices EXCEPT ![Dev(t)] = Lasting(hand[t])]
  /\ hand' = [hand EXCEPT ![t] = Absent]
  /\ FinishWith(t, Done(t))
  /\ UNCHANGED <<devices, file, sse, link, job, snap, view, batch, known>>

(* The handler returns: its socket is gone and its Job with it.            *)
End(s) ==
  /\ pc[s] = "ended"
  /\ job[s] # Absent
  /\ Leave(s)
  /\ link' = [link EXCEPT ![s] = "up"]
  /\ UNCHANGED <<maps, file, sse, pc, ret, hand, todo, snap, view, batch, known>>

Unregister(t) == CheckSession(t) \/ RemoveOnline(t) \/ Park(t)
-----------------------------------------------------------------------------
(* disconnect_stale_devices, every 5 s.                                    *)

StartSweep ==
  /\ pc[Sweeper] = "sleep"
  /\ Goto(Sweeper, "scan")
  /\ todo' = [todo EXCEPT ![Sweeper] = Devices]
  /\ UNCHANGED <<maps, file, sse, link, job, ret, hand, snap, view, batch, known>>

(* One element of devices.iter().filter(|r| r.last_seen < cutoff).         *)
Scan ==
  /\ pc[Sweeper] = "scan"
  /\ \E d \in todo[Sweeper] :
       /\ batch' = IF devices[d] # Absent /\ ~devices[d].fresh
                   THEN batch \cup {[dev |-> d, sid |-> devices[d].session]}
                   ELSE batch
       /\ todo' = [todo EXCEPT ![Sweeper] = @ \ {d}]
       /\ Goto(Sweeper, IF todo[Sweeper] = {d} THEN "next" ELSE "scan")
  /\ UNCHANGED <<maps, file, sse, link, job, ret, hand, snap, view, known>>

(* for (id, sid) in stale: the entries come in no particular order.        *)
NextStale ==
  /\ pc[Sweeper] = "next"
  /\ \/ \E j \in batch :
          /\ batch' = batch \ {j}
          /\ job' = [job EXCEPT ![Sweeper] = j]
          /\ Goto(Sweeper, "check")
     \/ /\ batch = {}
        /\ UNCHANGED batch
        /\ Leave(Sweeper)
        /\ Goto(Sweeper, "sleep")
  /\ UNCHANGED <<maps, file, sse, link, ret, hand, todo, snap, view, known>>

(* The places a task reaches from another step with no .await in between.  *)
Midway == {"insert", "pong", "remove", "park", "snapOnline", "snapOffline",
           "build", "buildOffline", "send"}

(* Thirty seconds pass without a word from the device.  Not within the few *)
(* instructions that a task at work on the device has to go before it      *)
(* awaits something.                                                       *)
Age(d) ==
  /\ devices[d] # Absent
  /\ devices[d].fresh
  /\ \A t \in Tasks : Working(t, d) => pc[t] \notin Midway
  /\ devices' = [devices EXCEPT ![d] = Silent(@)]
  /\ UNCHANGED <<offline_devices, file, sse, link, pc, job, ret, hand, todo, snap, view, batch, known>>
-----------------------------------------------------------------------------
(* The process dies and is started again.  Restoring inserts the entries   *)
(* of the file in order, so of two for one device the later one stays.     *)
Restored == [d \in Devices |->
               IF file.off[d] # Absent THEN file.off[d] ELSE file.on[d]]

Restart ==
  /\ offline_devices' \in IF ~Persisting THEN {EmptyMap}
                          ELSE IF IoErrors THEN {Restored, EmptyMap}
                          ELSE {Restored}
  /\ known' = {d \in Devices : offline_devices'[d] # Absent}
  /\ devices' = EmptyMap
  /\ pc' = [t \in Tasks |-> IF t = Sweeper THEN "sleep"
                            ELSE IF pc[t] = "new" THEN "new" ELSE "ended"]
  /\ link' = [s \in Sessions |-> "up"]
  /\ job' = [t \in Tasks |-> Absent]
  /\ ret' = [t \in Tasks |-> Done(t)]
  /\ hand' = [t \in Tasks |-> Absent]
  /\ todo' = [t \in Tasks |-> {}]
  /\ snap' = [t \in Tasks |-> EmptySnap]
  /\ view' = [t \in Tasks |-> Absent]
  /\ sse' = EmptyMap
  /\ batch' = {}
  /\ UNCHANGED file
-----------------------------------------------------------------------------
Init ==
  /\ devices = EmptyMap
  /\ offline_devices = EmptyMap
  /\ file = EmptySnap
  /\ sse = EmptyMap
  /\ link = [s \in Sessions |-> "up"]
  /\ pc = [t \in Tasks |-> IF t = Sweeper THEN "sleep" ELSE "new"]
  /\ job = [t \in Tasks |-> Absent]
  /\ ret = [t \in Tasks |-> Done(t)]
  /\ hand = [t \in Tasks |-> Absent]
  /\ todo = [t \in Tasks |-> {}]
  /\ snap = [t \in Tasks |-> EmptySnap]
  /\ view = [t \in Tasks |-> Absent]
  /\ batch = {}
  /\ known = {}

Handler(s) == \/ TakePrior(s) \/ InsertOnline(s) \/ Pong(s) \/ Finish(s)
              \/ Unregister(s) \/ End(s)

Sweep == StartSweep \/ Scan \/ NextStale \/ Unregister(Sweeper) \/ Finish(Sweeper)

Next ==
  \/ \E s \in Sessions : \/ Accept(s) \/ Reject(s) \/ Handler(s) \/ Status(s)
                         \/ PingFrame(s) \/ Ping(s) \/ Close(s) \/ LinkDies(s)
  \/ Sweep
  \/ \E d \in Devices : Age(d)
  \/ Restart

Spec == Init /\ [][Next]_vars

(***************************************************************************)
(* The runtime polls every task that can run, and the interval of main     *)
(* keeps the sweeper going.  A daemon whose link works keeps pinging, and  *)
(* gives up a connection whose ping was not answered; each of those waits  *)
(* for its handler to be back at the receive loop, hence SF.  An entry     *)
(* whose link is dead hears nothing, so it comes to be 30 s old whenever   *)
(* nobody else touches it.  A daemon none of whose connections is open any *)
(* more dials again (AutoReconnects of DaemonRuntime) and is let in as     *)
(* before.  That a host which was lost comes back is promised by nobody,   *)
(* and OrphanReturns ends where the host is lost.                          *)
(***************************************************************************)
Silence(d) == /\ devices[d] # Absent
              /\ link[devices[d].session] = "dead"
              /\ Age(d)

Lost(d) == \E s \in Sessions : Working(s, d) /\ link[s] = "dead"

Unconnected(d) == \A s \in Sessions : Working(s, d) => pc[s] = "ended"

Redial(d) == /\ Unconnected(d)
             /\ \E s \in Sessions : Accept(s) /\ job'[s].dev = d

Fairness ==
  /\ \A s \in Sessions : /\ WF_vars(Handler(s))
                         /\ SF_vars(Ping(s))
                         /\ SF_vars(GiveUp(s))
  /\ WF_vars(Sweep)
  /\ \A d \in Devices : SF_vars(Silence(d)) /\ WF_vars(Redial(d))

LiveSpec == Spec /\ Fairness
-----------------------------------------------------------------------------
Places == {"new", "register", "insert", "serve", "pong", "check", "remove", "park",
           "snapOnline", "snapOffline", "save", "build", "buildOffline", "send",
           "ended", "sleep", "scan", "next"}

PersistedMap == [Devices -> OfflineRec \cup {Absent}]

Snapshot == [on : PersistedMap, off : PersistedMap]

(* The types of the maps, the file and the tasks.                          *)
TypeOK ==
  /\ devices \in [Devices -> OnlineRec \cup {Absent}]
  /\ offline_devices \in PersistedMap
  /\ file \in Snapshot
  /\ sse \in [Devices -> View \cup {Absent}]
  /\ link \in [Sessions -> {"up", "awaiting", "dead"}]
  /\ pc \in [Tasks -> Places]
  /\ job \in [Tasks -> Job \cup {Absent}]
  /\ ret \in [Tasks -> {"serve", "ended", "next"}]
  /\ hand \in [Tasks -> OnlineRec \cup OfflineRec \cup {Absent}]
  /\ todo \in [Tasks -> SUBSET Devices]
  /\ snap \in [Tasks -> Snapshot]
  /\ view \in [Tasks -> View \cup {Absent}]
  /\ batch \in SUBSET Job
  /\ known \in SUBSET Devices

Finishing == {"snapOnline", "snapOffline", "save", "build", "buildOffline", "send"}

(* A handler that may still remove the entry it inserted: it is in its     *)
(* receive loop, in the operations it runs from there, or in its cleanup   *)
(* before the removal.                                                     *)
Responsible(s) == \/ pc[s] \in {"serve", "pong", "check", "remove"}
                  \/ pc[s] \in Finishing /\ ret[s] = "serve"

(* No ghost sessions: the handler of every device shown as online is still *)
(* responsible for that very device, so a connection that is over never    *)
(* leaves its device online, whatever reconnects and sweeps overlap it     *)
(* (the cleanup of handle_socket and its session gate).                    *)
OnlineHasHandler ==
  \A d \in Devices :
    devices[d] # Absent =>
      /\ Responsible(devices[d].session)
      /\ job[devices[d].session] = [dev |-> d, sid |-> devices[d].session]

(* A task between the two halves of a move.                                *)
Moving(t, d) == /\ hand[t] # Absent
                /\ pc[t] \in {"insert", "park"}
                /\ Working(t, d)

(* Nothing is forgotten: a device that registered, or was restored from    *)
(* the file, stays in one of the maps or in the hands of the one task that *)
(* is moving it, so that it comes back to the lists with its accessory     *)
(* still pinned (the moves of register_device and of unregister).          *)
NeverForgotten ==
  \A d \in known :
    \/ devices[d] # Absent
    \/ offline_devices[d] # Absent
    \/ \E t \in Tasks : Moving(t, d)

(* A sweep or a late close never reaches a device through a session that   *)
(* is over: the entry the sweeper or a handler takes out carries the       *)
(* session it was meant for.  True when connections to one device do not   *)
(* overlap; when they do, a reconnect may register between CheckSession    *)
(* and RemoveOnline.                                                       *)
Takes(t) == RemoveOnline(t) /\ devices[Dev(t)] # Absent

TakesOwnSession ==
  [][\A t \in Tasks : Takes(t) => devices[Dev(t)].session = job[t].sid]_vars
-----------------------------------------------------------------------------
(* The row of a device: in devices, in the hands of the task that moves it *)
(* between the maps, or in offline_devices.                                *)
Row(online, r) == [online |-> online, status |-> r.status, lan |-> r.lan]

RowOf(d) ==
  IF devices[d] # Absent THEN Row(TRUE, devices[d])
  ELSE IF \E t \in Tasks : Moving(t, d)
       THEN Row(FALSE, hand[CHOOSE t \in Tasks : Moving(t, d)])
  ELSE IF offline_devices[d] # Absent THEN Row(FALSE, offline_devices[d])
  ELSE Absent

Table == INSTANCE DeviceTable WITH table <- [d \in Devices |-> RowOf(d)]

ASSUME RowAssumption == Absent \notin Table!Rows

(* The maps, the handlers and the sweeper together behave as one table     *)
(* with atomic operations when the connections to one device do not        *)
(* overlap.                                                                *)
ImplementsTable == Table!Spec
-----------------------------------------------------------------------------
(* A device whose link died does not stay online: the sweeper finds it     *)
(* (disconnect_stale_devices), even though pings of an older connection of *)
(* the same device refresh it by device id, because the Pongs go to the    *)
(* registered connection and the older one gives up.                       *)
DeadLinkLeaves ==
  \A s \in Sessions : (Registered(s) /\ link[s] = "dead") ~> ~Registered(s)

(* A daemon whose entry was swept or taken over while its connection still *)
(* worked is not connected in vain for good (the Pong of handle_socket,    *)
(* which goes to the registered connection): unanswered pings end that     *)
(* connection, and the device is online again through one that works,      *)
(* unless its host was lost.  A behaviour has no more connections than     *)
(* Sessions: Spent is that bound.                                          *)
Orphan(s, d) == pc[s] = "serve" /\ Dev(s) = d /\ ~Registered(s) /\ link[s] # "dead"

Served(d) == devices[d] # Absent /\ link[devices[d].session] # "dead"

Spent == \A s \in Sessions : pc[s] # "new"

-----------------------------------------------------------------------------
(* state.rs: list_devices returns "online + recently offline" devices, and *)
(* offline_devices is the "cached info for recently disconnected devices": *)
(* a device is listed once.                                                *)
ListedOnce == \A d \in Devices : devices[d] = Absent \/ offline_devices[d] = Absent

(* No task is at work on a device.                                         *)
AtRest(d) == \A t \in Tasks : Working(t, d) => pc[t] \in {"serve", "ended", "new"}

OnDisk(d) == IF file.off[d] # Absent THEN file.off[d] ELSE file.on[d]

(* What the maps hold of a device: what it last reported.                  *)
Held(d) == IF devices[d] # Absent THEN Lasting(devices[d]) ELSE offline_devices[d]

(* Once no task is at work, the file holds of the one device of the        *)
(* instance what the server holds of it, online or offline, and never      *)
(* anything older, except that an offline device may be missing: the       *)
(* snapshot of a handler that looked while the sweeper moved the entry was *)
(* written after the sweeper's own (snapshot and persist).                 *)
FileIsCurrent ==
  (\A d \in Devices : AtRest(d)) =>
    \A d \in known : \/ OnDisk(d) = Held(d)
                     \/ devices[d] = Absent /\ OnDisk(d) = Absent

(* docs/HOMEKIT.md: the server persists "every known device's id, name,    *)
(* last status", with "updates on every status poll, register, and         *)
(* unregister".  Once no task is at work every known device is in the      *)
(* file.                                                                   *)
EveryKnownPersisted ==
  (\A d \in Devices : AtRest(d)) => \A d \in known : OnDisk(d) # Absent
=============================================================================
