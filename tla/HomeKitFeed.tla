------------------------------ MODULE HomeKitFeed ------------------------------
(***************************************************************************)
(* One HomeKit switch or lock from the host to the Home app: the device    *)
(* that comes, goes and reports, the events the server broadcasts, the SSE *)
(* stream, the polls of the Homebridge plugin, its cached state with the   *)
(* optimistic updates of a SET, and the characteristics it has pushed.     *)
(*                                                                         *)
(* An event is built in one step and sent in another, a poll is answered   *)
(* in one step and applied in another, and neither carries a version: the  *)
(* plugin applies what arrives, in the order it arrives.  The connection   *)
(* itself is in DaemonRuntime and DeviceRegistry, and how services come    *)
(* and go is in AccessorySync; here there is one service whose handler     *)
(* exists.                                                                 *)
(*                                                                         *)
(* Each definition right before the one it resembles (AnswerWhileClosed,   *)
(* ShowIfChanged) is a mutant which one of the properties rules out.  No   *)
(* specification uses it.                                                  *)
(***************************************************************************)
EXTENDS Naturals, SequencesExt

CONSTANTS
  Null,      \* on: null, the state script never reported
  Idle,      \* nothing in a slot
  Moving,    \* a server task between the two maps
  Emitting,  \* a server task that is about to build an event
  Emitters,  \* server tasks that work for the device at the same time
  Polls,     \* polls of the plugin that overlap (setInterval does not wait)
  Buffer,    \* HOMEKIT_EVENT_BUFFER, 256 events
  Setups,    \* configured services: source, type and whether a MAC is known
  Changes    \* bound: disturbances before things stay as they are

ASSUME FeedAssumption ==
  /\ Buffer \in Nat \ {0}
  /\ Changes \in Nat
  /\ Setups \subseteq [source : {"status", "online"}, type : {"switch", "lock"},
                       wol : BOOLEAN]

VARIABLES
  setup,    \* the entry of [[homekit.switches]] this is about
  actual,   \* what the state script would say now
  cmds,     \* commands accepted and not carried out yet
  dev,      \* where the server has the device
  conn,     \* the handler task of the connection that is registered
  status,   \* the state script's value in the last status
  task,     \* server tasks: Idle, Moving, Emitting, or the view built
  events,   \* the broadcast channel, as far as this stream has not read it
  stream,   \* the SSE stream is open
  poll,     \* polls: Idle, or the view in the answer
  state,    \* this.state of the service handler
  tile,     \* what is pushed: On and StatusFault of a switch,
            \* LockTargetState and LockCurrentState of a lock
  set,      \* the SET of the user that is under way, or Idle
  left      \* disturbances left

vars == <<setup, actual, cmds, dev, conn, status, task, events, stream, poll,
          state, tile, set, left>>

host == <<actual, cmds>>

device == <<dev, conn, status>>

feed == <<task, events, stream>>

shown == <<state, tile>>

Disturb == left > 0 /\ left' = left - 1
-----------------------------------------------------------------------------
(* The server.                                                             *)

(* build_switch_state.  While a device moves from one map to the other it  *)
(* is in neither, and looks as if it had never been seen.                  *)
Seen ==
  [online |-> dev = "online",
   on |-> IF setup.source = "online" THEN dev = "online"
          ELSE IF dev \in {"online", "offline"} THEN status ELSE Null]

(* register_device: takes the entry out of offline_devices.                *)
Arrive(e) ==
  /\ dev = "offline"
  /\ task[e] = Idle
  /\ Disturb
  /\ dev' = "coming"
  /\ conn' = e
  /\ task' = [task EXCEPT ![e] = Moving]
  /\ UNCHANGED <<setup, host, status, events, stream, poll, shown, set>>

(* A reconnect before the last connection was cleaned up overwrites the    *)
(* entry, and starts with an empty status.                                 *)
Replace(e) ==
  /\ dev = "online"
  /\ task[e] = Idle
  /\ Disturb
  /\ conn' = e
  /\ status' = Null
  /\ task' = [task EXCEPT ![e] = Emitting]
  /\ UNCHANGED <<setup, host, dev, events, stream, poll, shown, set>>

(* unregister_device_if_session, of the handler or of the sweeper.  What   *)
(* was on its way to the daemon may be lost.                               *)
Leave(e) ==
  /\ dev = "online"
  /\ task[e] = Idle
  /\ Disturb
  /\ dev' = "leaving"
  /\ task' = [task EXCEPT ![e] = Moving]
  /\ cmds' \in SUBSET cmds
  /\ UNCHANGED <<setup, actual, conn, status, events, stream, poll, shown, set>>

(* The insert in the other map.                                            *)
Arrived(e) ==
  /\ task[e] = Moving
  /\ dev' = IF dev = "coming" THEN "online" ELSE "offline"
  /\ task' = [task EXCEPT ![e] = Emitting]
  /\ UNCHANGED <<setup, host, conn, status, events, stream, poll, shown, set, left>>

(* update_status, with what the daemon has sampled: nothing if the script  *)
(* fails or hangs.  The handler of a connection does one thing at a time.  *)
Report ==
  /\ dev = "online"
  /\ task[conn] = Idle
  /\ \/ status' = actual /\ UNCHANGED left
     \/ status' = Null /\ Disturb
  /\ task' = [task EXCEPT ![conn] = Emitting]
  /\ UNCHANGED <<setup, host, dev, conn, events, stream, poll, shown, set>>

(* emit_switch_events_for_device builds the event, if somebody listens.    *)
Build(e) ==
  /\ task[e] = Emitting
  /\ task' = [task EXCEPT ![e] = IF stream THEN Seen ELSE Idle]
  /\ UNCHANGED <<setup, host, device, events, stream, poll, shown, set, left>>

(* broadcast::Sender::send.  When the buffer is full, a receiver that lags *)
(* loses an older event, never the newest.                                 *)
Send(e) ==
  /\ task[e] \notin {Idle, Moving, Emitting}
  /\ IF ~stream THEN UNCHANGED events
     ELSE IF Len(events) < Buffer THEN events' = Append(events, task[e])
     ELSE \E i \in DOMAIN events : events' = Append(RemoveAt(events, i), task[e])
  /\ task' = [task EXCEPT ![e] = Idle]
  /\ UNCHANGED <<setup, host, device, stream, poll, shown, set, left>>
-----------------------------------------------------------------------------
(* The host.                                                               *)

(* The script runs, and may fail.                                          *)
Execute ==
  /\ \E c \in cmds :
       /\ cmds' = cmds \ {c}
       /\ actual' \in (IF setup.source = "online" THEN {actual} ELSE {c, actual})
  /\ UNCHANGED <<setup, device, feed, poll, shown, set, left>>

(* Somebody locks the screen at the keyboard.                              *)
Flip ==
  /\ setup.source = "status"
  /\ Disturb
  /\ actual' = ~actual
  /\ UNCHANGED <<setup, cmds, device, feed, poll, shown, set>>
-----------------------------------------------------------------------------
(* The plugin.                                                             *)

Current(on) == IF on THEN "secured" ELSE "unsecured"

(* pushUpdate of a switch: an unknown reading is not pushed.               *)
PushedToSwitch(t, v) ==
  [value |-> IF v.on = Null THEN t.value ELSE v.on,
   second |-> IF v.online THEN "ok" ELSE "fault"]

(* pushUpdate of a lock: it is secured while its device is offline.        *)
PushedToLock(t, v) ==
  IF ~v.online THEN [value |-> TRUE, second |-> "secured"]
  ELSE IF v.on = Null THEN t
  ELSE [value |-> v.on, second |-> Current(v.on)]

Pushed(t, v) == IF setup.type = "switch" THEN PushedToSwitch(t, v) ELSE PushedToLock(t, v)

ShowIfChanged(v) ==
  /\ state' = v
  /\ tile' = IF v = state THEN tile ELSE Pushed(tile, v)

(* update: the cached state and the characteristics follow what arrives.   *)
Show(v) ==
  /\ state' = v
  /\ tile' = Pushed(tile, v)

(* handleEvent.                                                            *)
Deliver ==
  /\ events # <<>>
  /\ events' = Tail(events)
  /\ Show(Head(events))
  /\ UNCHANGED <<setup, host, device, task, stream, poll, set, left>>

(* startEventStream, after the backoff; the receiver starts with what is   *)
(* sent from now on.                                                       *)
Subscribe ==
  /\ ~stream
  /\ stream' = TRUE
  /\ UNCHANGED <<setup, host, device, task, events, poll, shown, set, left>>

(* The connection breaks; what was under way is lost.                      *)
StreamBreaks ==
  /\ stream
  /\ Disturb
  /\ stream' = FALSE
  /\ events' = <<>>
  /\ UNCHANGED <<setup, host, device, task, poll, shown, set>>

AnswerWhileClosed(p) ==
  /\ poll[p] = Idle
  /\ poll' = IF stream THEN poll ELSE [poll EXCEPT ![p] = Seen]
  /\ UNCHANGED <<setup, host, device, feed, shown, set, left>>

(* A poll that is due is sent, and list_switches answers it.               *)
Answer(p) ==
  /\ poll[p] = Idle
  /\ poll' = [poll EXCEPT ![p] = Seen]
  /\ UNCHANGED <<setup, host, device, feed, shown, set, left>>

(* refresh continues with the answer.                                      *)
Apply(p) ==
  /\ poll[p] # Idle
  /\ Show(poll[p])
  /\ poll' = [poll EXCEPT ![p] = Idle]
  /\ UNCHANGED <<setup, host, device, feed, set, left>>

PollFails(p) ==
  /\ poll[p] # Idle
  /\ Disturb
  /\ poll' = [poll EXCEPT ![p] = Idle]
  /\ UNCHANGED <<setup, host, device, feed, shown, set>>
-----------------------------------------------------------------------------
(* A SET of the user.                                                      *)

(* handleSetOn and handleSetTarget: a switch that is turned on for an      *)
(* offline device with a known MAC sends a magic packet, anything else is  *)
(* posted to the server.                                                   *)
UserSets(on) ==
  /\ set = Idle
  /\ Disturb
  /\ set' = [on |-> on,
             at |-> IF setup.type = "switch" /\ on /\ ~state.online /\ setup.wol
                    THEN "packet" ELSE "posted"]
  /\ UNCHANGED <<setup, host, device, feed, poll, shown>>

(* set_switch of the server: send_to_device, or 503.                       *)
Dispatch ==
  /\ set # Idle
  /\ set.at = "posted"
  /\ IF dev = "online"
     THEN cmds' = cmds \cup {set.on} /\ set' = [set EXCEPT !.at = "accepted"]
     ELSE set' = [set EXCEPT !.at = "failed"] /\ UNCHANGED cmds
  /\ UNCHANGED <<setup, actual, device, feed, poll, shown, left>>

(* The answer is lost, or the packet could not be sent.                    *)
SetFails ==
  /\ set # Idle
  /\ set.at # "failed"
  /\ set' = [set EXCEPT !.at = "failed"]
  /\ UNCHANGED <<setup, host, device, feed, poll, shown, left>>

(* The handler claims the value it set, in whatever state is cached by     *)
(* then, a lock shows it as its current state, and HAP keeps the value.    *)
SetDone ==
  /\ set # Idle
  /\ set.at \in {"packet", "accepted"}
  /\ state' = [state EXCEPT !.on = set.on]
  /\ tile' = [value |-> set.on,
              second |-> IF setup.type = "lock" THEN Current(set.on) ELSE tile.second]
  /\ set' = Idle
  /\ UNCHANGED <<setup, host, device, feed, poll, left>>

(* The handler throws, so HAP keeps the old value; a lock is jammed.       *)
SetThrows ==
  /\ set # Idle
  /\ set.at = "failed"
  /\ tile' = IF setup.type = "lock" THEN [tile EXCEPT !.second = "jammed"] ELSE tile
  /\ set' = Idle
  /\ UNCHANGED <<setup, host, device, feed, poll, state, left>>
-----------------------------------------------------------------------------
(* The server restarts, with what the state file holds or with nothing.    *)
ServerRestart ==
  /\ Disturb
  /\ dev' = "offline"
  /\ status' \in {status, Null}
  /\ cmds' \in SUBSET cmds
  /\ task' = [e \in Emitters |-> Idle]
  /\ events' = <<>>
  /\ stream' = FALSE
  /\ poll' = [p \in Polls |-> Idle]
  /\ set' = IF set # Idle /\ set.at # "packet" THEN [set EXCEPT !.at = "failed"] ELSE set
  /\ UNCHANGED <<setup, actual, conn, shown>>

(* The service was created by the first poll, before the device was seen.  *)
Init ==
  /\ setup \in Setups
  /\ actual = FALSE
  /\ cmds = {}
  /\ dev = "offline"
  /\ conn = CHOOSE e \in Emitters : TRUE
  /\ status = Null
  /\ task = [e \in Emitters |-> Idle]
  /\ events = <<>>
  /\ stream = FALSE
  /\ poll = [p \in Polls |-> Idle]
  /\ state = Seen
  /\ tile = Pushed([value |-> FALSE, second |-> "unsecured"], Seen)
  /\ set = Idle
  /\ left = Changes

Emit(e) == Arrived(e) \/ Build(e) \/ Send(e)

Setting == Dispatch \/ SetDone \/ SetThrows

Next ==
  \/ \E e \in Emitters : Arrive(e) \/ Replace(e) \/ Leave(e) \/ Emit(e)
  \/ Report
  \/ Execute
  \/ Flip
  \/ Deliver
  \/ Subscribe
  \/ StreamBreaks
  \/ \E p \in Polls : Answer(p) \/ Apply(p) \/ PollFails(p)
  \/ \E on \in BOOLEAN : UserSets(on)
  \/ Setting
  \/ SetFails
  \/ ServerRestart

(***************************************************************************)
(* The tasks of the server go on, a daemon that is connected reports every *)
(* few seconds and runs what it is sent, the stream is read and reopened   *)
(* after a backoff of at most a minute, a timer starts a poll every        *)
(* minute, and requests are answered or time out.                          *)
(***************************************************************************)
Fairness ==
  /\ \A e \in Emitters : WF_vars(Emit(e))
  /\ WF_vars(Report)
  /\ WF_vars(Execute)
  /\ WF_vars(Deliver)
  /\ WF_vars(Subscribe)
  /\ \A p \in Polls : WF_vars(Answer(p)) /\ WF_vars(Apply(p))
  /\ WF_vars(Setting)

Spec == Init /\ [][Next]_vars /\ Fairness
-----------------------------------------------------------------------------
(* Once nobody disturbs it any more, the plugin comes to hold the state    *)
(* the server has, and keeps it: whatever events were lost, dropped by a   *)
(* full buffer or overtaken, however old the answers of polls that were    *)
(* under way, and whatever a SET claimed (services.ts: "the next SSE event *)
(* or poll reconciles").                                                   *)
StateConverges == <>[](state = Seen)

(* What an honest tile shows of the server's view v.  A switch has a fault *)
(* exactly while its device is offline, and shows a reading that is known; *)
(* an unknown one is not pushed, so that the value of an earlier SET or    *)
(* reading may stay, until the app reads (handleGetOn answers false).  A   *)
(* lock is secured while its device is offline, and shows a reading that   *)
(* is known.                                                               *)
SwitchShows(v) ==
  /\ tile.second = IF v.online THEN "ok" ELSE "fault"
  /\ v.on # Null => tile.value = v.on

LockShows(v) ==
  /\ ~v.online => tile = [value |-> TRUE, second |-> "secured"]
  /\ v.online /\ v.on # Null => tile = [value |-> v.on, second |-> Current(v.on)]

(* Once nobody disturbs it any more, the tile comes to show what the       *)
(* server knows of the device, and keeps showing it: no value that a SET   *)
(* claimed, no JAMMED and no fault stays behind where the server has a     *)
(* reading.  Where it has none, the value a SET left on a switch is not    *)
(* taken back, also the ON of a Wake-on-LAN whose host never came (compare *)
(* services.ts:135-136, "the next poll will reset us").                    *)
TileConverges ==
  <>[](IF setup.type = "switch" THEN SwitchShows(Seen) ELSE LockShows(Seen))
=============================================================================
