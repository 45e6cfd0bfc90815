------------------------------- MODULE DeviceHub -------------------------------
(***************************************************************************)
(* The way of a command from an HTTP request to a daemon: send_to_device,  *)
(* the bounded channel of each connection, the sender task that writes it  *)
(* to the socket, and the lock that connects them all.                     *)
(*                                                                         *)
(* send_to_device looks up the device with DashMap::get and, if the        *)
(* channel is full, awaits room in it while it still holds the read guard  *)
(* of the shard.  Whoever writes to that shard meanwhile (a ping's touch,  *)
(* a status, a registration, a cleanup, the sweeper) blocks the OS thread  *)
(* it runs on, so it also takes a worker from the runtime; readers pass.   *)
(* One device stands for the devices of one shard.  What an entry carries  *)
(* besides its session is in DeviceRegistry.                               *)
(*                                                                         *)
(* Each definition right before the one it resembles (SendUnbounded,       *)
(* RoomUnnoticed, LeaveAndSend, RemoveUnlocked, RxEndsEarly, WriteRetried) *)
(* is a mutant which one of the properties rules out.  No specification    *)
(* uses it.                                                                *)
(***************************************************************************)
EXTENDS Naturals, SequencesExt, FiniteSets

CONSTANTS
  Sessions,  \* WebSocket connections of the device, each used once
  Requests,  \* HTTP requests that send the device one command each
  Sweeper,   \* the background task of main that drops silent devices
  Pong,      \* ServerMessage::Pong
  None,      \* no entry, no connection
  Cap,       \* mpsc::channel::<ServerMessage>(32)
  Workers    \* OS threads of the runtime

Tasks == Sessions \cup Requests \cup {Sweeper}

ASSUME HubAssumption ==
  /\ Cap \in Nat \ {0}
  /\ Workers \in Nat \ {0}
  /\ Sessions \cap Requests = {}
  /\ Sweeper \notin Sessions \cup Requests
  /\ Pong \notin Requests
  /\ {"off", "idle", "gone"} \cap (Requests \cup {Pong}) = {}
  /\ None \notin Sessions

VARIABLES
  devices,  \* the session of the entry in devices, or None
  fresh,    \* the entry was heard from in the last 30 s
  pc,       \* where each task is
  stale,    \* the (device, session) pair the sweeper works on
  chan,     \* the messages in the channel of each connection
  waiters,  \* the tasks that await room in it, each with a guard on the shard
  out,      \* what the sender task of each connection does
  link,     \* what the daemon at the other end sees
  to,       \* history: the connection whose channel took a request's command
  got       \* history: the commands a daemon received

vars == <<devices, fresh, pc, stale, chan, waiters, out, link, to, got>>

entry == <<devices, fresh>>

wires == <<chan, waiters, out, link, to, got>>

Goto(t, where) == pc' = [pc EXCEPT ![t] = where]

(* Tasks that hold a worker: between two awaits, running or blocked on the *)
(* lock.  A task that was waiting for something needs a free worker to go  *)
(* on.                                                                     *)
Midway == {"insert", "touch", "pong", "check", "remove", "send"}

Awake == Cardinality({t \in Tasks : pc[t] \in Midway}) < Workers

(* The shard is locked for readers.                                        *)
Guarded == \E s \in Sessions : waiters[s] # <<>>

(* The receiving half is dropped when the sender task ends.                *)
RxGone(s) == out[s] = "gone"
-----------------------------------------------------------------------------
(* send_to_device.                                                         *)

(* Where a task goes with the result: an HTTP status, or the receive loop, *)
(* which ignores the result of a pong.                                     *)
Sent(t, ok) == IF t \in Sessions THEN "serve" ELSE IF ok THEN "ok" ELSE "unavailable"

Message(t) == IF t \in Requests THEN t ELSE Pong

Deliver(t, s) ==
  /\ chan' = [chan EXCEPT ![s] = Append(@, Message(t))]
  /\ to' = IF t \in Requests THEN [to EXCEPT ![t] = s] ELSE to
  /\ Goto(t, Sent(t, TRUE))

(* No entry: "Device not connected"; a dropped receiver: "Failed to send". *)
SendRefused(t) ==
  /\ pc[t] \in {"send", "pong"}
  /\ devices \in {None} \cup {s \in Sessions : RxGone(s)}
  /\ Goto(t, Sent(t, FALSE))
  /\ UNCHANGED <<entry, stale, wires>>

SendUnbounded(t) ==
  /\ pc[t] \in {"send", "pong"}
  /\ devices # None
  /\ ~RxGone(devices)
  /\ Deliver(t, devices)
  /\ UNCHANGED <<entry, stale, waiters, out, link, got>>

(* There is room in the channel that no waiter before was given.           *)
SendAtOnce(t) ==
  /\ pc[t] \in {"send", "pong"}
  /\ devices # None
  /\ ~RxGone(devices)
  /\ Len(chan[devices]) + Len(waiters[devices]) < Cap
  /\ Deliver(t, devices)
  /\ UNCHANGED <<entry, stale, waiters, out, link, got>>

(* The channel is full: the task waits, and keeps its guard on the shard.  *)
WaitForRoom(t) ==
  /\ pc[t] \in {"send", "pong"}
  /\ devices # None
  /\ ~RxGone(devices)
  /\ Len(chan[devices]) + Len(waiters[devices]) >= Cap
  /\ waiters' = [waiters EXCEPT ![devices] = Append(@, t)]
  /\ Goto(t, "room")
  /\ UNCHANGED <<entry, stale, chan, out, link, to, got>>

(* The i-th waiter of s stops waiting; its guard goes with it.             *)
StopWaiting(s, i) == waiters' = [waiters EXCEPT ![s] = RemoveAt(@, i)]

(* Permits are handed out in the order of waiting; their owners go on when *)
(* a worker polls them.                                                    *)
GetRoom(t) ==
  /\ pc[t] = "room"
  /\ Awake
  /\ \E s \in Sessions : \E i \in DOMAIN waiters[s] :
       /\ waiters[s][i] = t
       /\ ~RxGone(s)
       /\ i + Len(chan[s]) <= Cap
       /\ Deliver(t, s)
       /\ StopWaiting(s, i)
  /\ UNCHANGED <<entry, stale, out, link, got>>

RoomUnnoticed(t) ==
  /\ pc[t] = "room"
  /\ Awake
  /\ FALSE
  /\ UNCHANGED vars

(* The connection ended meanwhile.                                         *)
RoomGone(t) ==
  /\ pc[t] = "room"
  /\ Awake
  /\ \E s \in Sessions : \E i \in DOMAIN waiters[s] :
       /\ waiters[s][i] = t
       /\ RxGone(s)
       /\ StopWaiting(s, i)
  /\ Goto(t, Sent(t, FALSE))
  /\ UNCHANGED <<entry, stale, chan, out, link, to, got>>

Send(t) == SendRefused(t) \/ SendAtOnce(t) \/ WaitForRoom(t) \/ GetRoom(t) \/ RoomGone(t)
-----------------------------------------------------------------------------
(* A request.  The REST handlers (execute_command, refresh_status) answer  *)
(* 404 when the device is in neither map, which may also happen while it   *)
(* is moved between the two; set_switch of HomeKit does not look.          *)
Arrive(r) ==
  /\ pc[r] = "idle"
  /\ Awake
  /\ \/ Goto(r, "send")
     \/ devices = None /\ Goto(r, "notfound")
  /\ UNCHANGED <<entry, stale, wires>>

LeaveAndSend(r) ==
  /\ pc[r] = "room"
  /\ Awake
  /\ \E s \in Sessions : \E i \in DOMAIN waiters[s] :
       /\ waiters[s][i] = r
       /\ StopWaiting(s, i)
       /\ chan' = [chan EXCEPT ![s] = IF Len(@) < Cap THEN Append(@, r) ELSE @]
  /\ Goto(r, "left")
  /\ UNCHANGED <<entry, stale, out, link, to, got>>

(* The client closes its connection: the future of the handler is dropped  *)
(* where it waits.                                                         *)
ClientLeaves(r) ==
  /\ pc[r] = "room"
  /\ Awake
  /\ \E s \in Sessions : \E i \in DOMAIN waiters[s] :
       waiters[s][i] = r /\ StopWaiting(s, i)
  /\ Goto(r, "left")
  /\ UNCHANGED <<entry, stale, chan, out, link, to, got>>
-----------------------------------------------------------------------------
(* A connection: handle_socket after wait_for_auth.                        *)

Accept(s) ==
  /\ pc[s] = "new"
  /\ Awake
  /\ Goto(s, "insert")
  /\ UNCHANGED <<entry, stale, wires>>

(* register_device: devices.insert, which drops the sender half of a       *)
(* predecessor.                                                            *)
InsertOnline(s) ==
  /\ pc[s] = "insert"
  /\ ~Guarded
  /\ devices' = s
  /\ fresh' = TRUE
  /\ out' = [out EXCEPT ![s] = "idle"]
  /\ Goto(s, "serve")
  /\ UNCHANGED <<stale, chan, waiters, link, to, got>>

(* DaemonMessage::Ping.                                                    *)
ReadPing(s) ==
  /\ pc[s] = "serve"
  /\ Awake
  /\ link[s] = "up"
  /\ link' = [link EXCEPT ![s] = "awaiting"]
  /\ Goto(s, "touch")
  /\ UNCHANGED <<entry, stale, chan, waiters, out, to, got>>

(* touch_device: devices.get_mut(id), by device id.  A status report       *)
(* (update_status) writes to the shard in the same way.                    *)
Touch(s) ==
  /\ pc[s] = "touch"
  /\ ~Guarded
  /\ fresh' = (devices # None)
  /\ Goto(s, "pong")
  /\ UNCHANGED <<devices, stale, wires>>

(* A Close frame or an error ends the receive loop.                        *)
ReadEnd(s) ==
  /\ pc[s] = "serve"
  /\ Awake
  /\ link[s] \in {"shut", "dead"}
  /\ Goto(s, "check")
  /\ UNCHANGED <<entry, stale, wires>>
-----------------------------------------------------------------------------
(* unregister_device_if_session, for a handler or for the sweeper.         *)

Sid(t) == IF t = Sweeper THEN stale ELSE t

(* The sweeper goes back to sleep.  A handler aborts its sender task, and  *)
(* what is left in the channel is dropped with it; the socket is closed.   *)
Over(t) ==
  IF t = Sweeper
  THEN /\ stale' = None
       /\ Goto(t, "sleep")
       /\ UNCHANGED <<chan, out, link>>
  ELSE /\ out' = [out EXCEPT ![t] = "gone"]
       /\ chan' = [chan EXCEPT ![t] = <<>>]
       /\ link' = [link EXCEPT ![t] = "shut"]
       /\ Goto(t, "ended")
       /\ UNCHANGED stale

CheckSession(t) ==
  /\ pc[t] = "check"
  /\ IF devices = Sid(t)
     THEN Goto(t, "remove") /\ UNCHANGED <<stale, chan, out, link>>
     ELSE Over(t)
  /\ UNCHANGED <<entry, waiters, to, got>>

RemoveUnlocked(t) ==
  /\ pc[t] = "remove"
  /\ devices' = None
  /\ fresh' = FALSE
  /\ Over(t)
  /\ UNCHANGED <<waiters, to, got>>

(* devices.remove, the insert in offline_devices and the save.             *)
RemoveOnline(t) ==
  /\ pc[t] = "remove"
  /\ ~Guarded
  /\ devices' = None
  /\ fresh' = FALSE
  /\ Over(t)
  /\ UNCHANGED <<waiters, to, got>>

Unregister(t) == CheckSession(t) \/ RemoveOnline(t)

(* disconnect_stale_devices, when it finds the device silent.              *)
StartSweep ==
  /\ pc[Sweeper] = "sleep"
  /\ Awake
  /\ devices # None
  /\ ~fresh
  /\ stale' = devices
  /\ Goto(Sweeper, "check")
  /\ UNCHANGED <<entry, wires>>
-----------------------------------------------------------------------------
(* The sender task of a connection.                                        *)

(* rx.recv() returns a message.                                            *)
Take(s) ==
  /\ out[s] = "idle"
  /\ Awake
  /\ chan[s] # <<>>
  /\ out' = [out EXCEPT ![s] = Head(chan[s])]
  /\ chan' = [chan EXCEPT ![s] = Tail(@)]
  /\ UNCHANGED <<entry, pc, stale, waiters, link, to, got>>

RxEndsEarly(s) ==
  /\ out[s] = "idle"
  /\ Awake
  /\ devices # s
  /\ out' = [out EXCEPT ![s] = "gone"]
  /\ chan' = [chan EXCEPT ![s] = <<>>]
  /\ UNCHANGED <<entry, pc, stale, waiters, link, to, got>>

(* rx.recv() returns None: the entry with the only sender is gone and the  *)
(* channel is drained.                                                     *)
RxEnds(s) ==
  /\ out[s] = "idle"
  /\ Awake
  /\ devices # s
  /\ chan[s] = <<>>
  /\ out' = [out EXCEPT ![s] = "gone"]
  /\ UNCHANGED <<entry, pc, stale, chan, waiters, link, to, got>>

Writing(s) == out[s] \notin {"off", "idle", "gone"}

(* The daemon reads what is written.  sender.send has no timeout: to a     *)
(* daemon that keeps its connection open and does not read, it stays       *)
(* pending; what the kernel still buffers counts as not yet written.       *)
WriteOk(s) ==
  /\ Writing(s)
  /\ Awake
  /\ link[s] \in {"up", "awaiting"}
  /\ IF out[s] = Pong
     THEN link' = [link EXCEPT ![s] = "up"] /\ UNCHANGED got
     ELSE got' = got \cup {out[s]} /\ UNCHANGED link
  /\ out' = [out EXCEPT ![s] = "idle"]
  /\ UNCHANGED <<entry, pc, stale, chan, waiters, to>>

(* Nobody reads any more, but the kernel still takes it.                   *)
WriteLost(s) ==
  /\ Writing(s)
  /\ Awake
  /\ link[s] \in {"shut", "dead"}
  /\ out' = [out EXCEPT ![s] = "idle"]
  /\ UNCHANGED <<entry, pc, stale, chan, waiters, link, to, got>>

WriteRetried(s) ==
  /\ Writing(s)
  /\ Awake
  /\ link[s] \in {"shut", "dead"}
  /\ UNCHANGED vars

(* The connection was reset, or the kernel gave up retransmitting.         *)
WriteFails(s) ==
  /\ Writing(s)
  /\ Awake
  /\ link[s] \in {"shut", "dead"}
  /\ out' = [out EXCEPT ![s] = "gone"]
  /\ chan' = [chan EXCEPT ![s] = <<>>]
  /\ UNCHANGED <<entry, pc, stale, waiters, link, to, got>>

Sender(s) == Take(s) \/ RxEnds(s) \/ WriteOk(s) \/ WriteFails(s)
-----------------------------------------------------------------------------
(* The daemon and the network.                                             *)

(* A ping that stayed unanswered until the next one is due.                *)
GiveUp(s) ==
  /\ link[s] = "awaiting"
  /\ link' = [link EXCEPT ![s] = "shut"]
  /\ UNCHANGED <<entry, pc, stale, chan, waiters, out, to, got>>

Connected(s) == pc[s] \notin {"new", "ended"}

(* The daemon stops reading and pinging but keeps its connection: it is    *)
(* suspended, or its two tasks wait for each other (DaemonRuntime).        *)
Stall(s) ==
  /\ Connected(s)
  /\ link[s] \in {"up", "awaiting"}
  /\ link' = [link EXCEPT ![s] = "stalled"]
  /\ UNCHANGED <<entry, pc, stale, chan, waiters, out, to, got>>

Resume(s) ==
  /\ link[s] = "stalled"
  /\ link' = [link EXCEPT ![s] = "up"]
  /\ UNCHANGED <<entry, pc, stale, chan, waiters, out, to, got>>

(* The daemon closes the connection, or is killed.                         *)
LinkShuts(s) ==
  /\ Connected(s)
  /\ link[s] \in {"up", "stalled"}
  /\ link' = [link EXCEPT ![s] = "shut"]
  /\ UNCHANGED <<entry, pc, stale, chan, waiters, out, to, got>>

(* The host loses power or network: nothing arrives any more.              *)
LinkDies(s) ==
  /\ Connected(s)
  /\ link[s] \in {"up", "awaiting", "stalled"}
  /\ link' = [link EXCEPT ![s] = "dead"]
  /\ UNCHANGED <<entry, pc, stale, chan, waiters, out, to, got>>

(* Thirty seconds pass without a word from the device, which is more than  *)
(* a running task needs for a write that nothing blocks.                   *)
Age ==
  /\ devices # None
  /\ fresh
  /\ ~Guarded => \A t \in Tasks : pc[t] \notin Midway
  /\ fresh' = FALSE
  /\ UNCHANGED <<devices, pc, stale, wires>>
-----------------------------------------------------------------------------
Init ==
  /\ devices = None
  /\ fresh = FALSE
  /\ pc = [t \in Tasks |-> IF t = Sweeper THEN "sleep"
                           ELSE IF t \in Sessions THEN "new" ELSE "idle"]
  /\ stale = None
  /\ chan = [s \in Sessions |-> <<>>]
  /\ waiters = [s \in Sessions |-> <<>>]
  /\ out = [s \in Sessions |-> "off"]
  /\ link = [s \in Sessions |-> "up"]
  /\ to = [r \in Requests |-> None]
  /\ got = {}

Handler(s) == InsertOnline(s) \/ Touch(s) \/ Send(s) \/ Unregister(s)

Sweep == StartSweep \/ Unregister(Sweeper)

Daemon(s) == Accept(s) \/ ReadPing(s) \/ ReadEnd(s) \/ GiveUp(s)
             \/ LinkShuts(s) \/ LinkDies(s) \/ Stall(s) \/ Resume(s)

Next ==
  \/ \E s \in Sessions : Handler(s) \/ Sender(s) \/ WriteLost(s) \/ Daemon(s)
  \/ \E r \in Requests : Arrive(r) \/ Send(r) \/ ClientLeaves(r)
  \/ Sweep
  \/ Age

Spec == Init /\ [][Next]_vars

(***************************************************************************)
(* The runtime polls what can run, as long as a worker is free (Awake),    *)
(* and a task that is blocked on the shard gets it if it is free again and *)
(* again.  A daemon that is up keeps pinging, and the server comes to read *)
(* the end of a connection that was closed.  Each of these may be          *)
(* interrupted (by a guard, by a busy handler, by a daemon that stalls),   *)
(* hence SF; a task has one thing to do at a time, so one formula for each *)
(* task is enough.  A write to a daemon that reads its socket again and    *)
(* again is taken; a write to a stalled one may be pending for ever; a     *)
(* write nobody acknowledges fails when the kernel stops retransmitting.   *)
(* A daemon gives up a connection whose ping stays unanswered, but nothing *)
(* obliges it to stall, to resume or to end.  An entry nobody writes to    *)
(* comes to be 30 s old.                                                   *)
(***************************************************************************)
Serving(s) == \/ Handler(s)
              \/ ReadPing(s)
              \/ link[s] = "shut" /\ ReadEnd(s)

Silence == devices # None /\ link[devices] = "dead" /\ Age

Fairness ==
  /\ \A s \in Sessions : SF_vars(Serving(s)) /\ SF_vars(Sender(s)) /\ WF_vars(GiveUp(s))
  /\ \A r \in Requests : WF_vars(Send(r))
  /\ SF_vars(Sweep)
  /\ SF_vars(Silence)

LiveSpec == Spec /\ Fairness
-----------------------------------------------------------------------------
Places == Midway \cup {"new", "serve", "room", "ended", "sleep",
                       "idle", "ok", "notfound", "unavailable", "left"}

Messages == Requests \cup {Pong}

(* The types of the maps, the channels and the tasks: a channel never      *)
(* holds more than its capacity, however many tasks send.                  *)
TypeOK ==
  /\ devices \in Sessions \cup {None}
  /\ fresh \in BOOLEAN
  /\ pc \in [Tasks -> Places]
  /\ stale \in Sessions \cup {None}
  /\ chan \in [Sessions -> Seq(Messages)]
  /\ \A s \in Sessions : Len(chan[s]) <= Cap
  /\ waiters \in [Sessions -> Seq(Sessions \cup Requests)]
  /\ out \in [Sessions -> Messages \cup {"off", "idle", "gone"}]
  /\ link \in [Sessions -> {"up", "awaiting", "stalled", "shut", "dead"}]
  /\ to \in [Requests -> Sessions \cup {None}]
  /\ got \in SUBSET Requests

Underway(r, s) == out[s] = r \/ \E i \in DOMAIN chan[s] : chan[s][i] = r

(* A request that was answered with an error, or whose client left, is     *)
(* never executed: its command is in no channel, in no sender task and in  *)
(* no daemon (the error paths of send_to_device and the cancelled send).   *)
RefusedIsNotExecuted ==
  \A r \in Requests :
    pc[r] \in {"notfound", "unavailable", "left"} =>
      /\ r \notin got
      /\ \A s \in Sessions : ~Underway(r, s)

(* A command that was answered with success is executed or on its way,     *)
(* unless the connection that took it broke: being replaced by a reconnect *)
(* or dropped by the sweeper loses nothing, because the sender task drains *)
(* the channel of an entry that is gone.                                   *)
AcceptedIsDelivered ==
  \A r \in Requests :
    pc[r] = "ok" =>
      \/ r \in got
      \/ Underway(r, to[r])
      \/ link[to[r]] \in {"shut", "dead"}

(* docs/ARCHITECTURE.md: "no queueing".  A command waits for one           *)
(* connection only, the one that was registered when it was sent, and that *)
(* connection stays registered while it waits.                             *)
WaitsForTheRegistered ==
  \A s \in Sessions : waiters[s] # <<>> => devices = s

(* The daemon of the registered connection does not read.                  *)
Unread == devices # None /\ link[devices] = "stalled"

(* Every request is answered, also when the channel of its device is full, *)
(* the link is dead or the daemon stalls for a while; all that may keep it *)
(* waiting for ever is a daemon that never reads again and keeps its       *)
(* connection (no timeout in send_to_device or in the sender task).        *)
RequestsAnswered ==
  \A r \in Requests :
    pc[r] \in {"send", "room"}
      ~> \/ pc[r] \in {"ok", "notfound", "unavailable", "left"}
         \/ [](pc[r] = "room" /\ Unread)

(* A device whose link died does not stay online, also when commands wait  *)
(* for the dead connection with the shard locked and the sweeper blocks.   *)
DeadDeviceLeaves ==
  \A s \in Sessions : (devices = s /\ link[s] = "dead") ~> devices # s

(* The sweeper hangs for ever on the shard of a device it drops only if    *)
(* that device's daemon never reads again while a command waits for it:    *)
(* a dead link, a broken one, or one that is slow does not stop it.        *)
SweeperKeepsGoing == []<>(pc[Sweeper] = "sleep") \/ <>[](Guarded /\ Unread)
=============================================================================
