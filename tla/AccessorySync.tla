----------------------------- MODULE AccessorySync -----------------------------
(***************************************************************************)
(* How the accessories and services of the Homebridge plugin follow the    *)
(* switches the server is configured with: the plugin creates what an      *)
(* event or an answer names, and a refresh removes what its answer does    *)
(* not name.  Homebridge keeps accessories on disk; the handlers are only  *)
(* in memory.  The server restarts with another configuration, Homebridge  *)
(* stops and crashes, and answers and events of an earlier configuration   *)
(* are applied late.                                                       *)
(*                                                                         *)
(* Each definition right before the one it resembles (PrunedFromView,      *)
(* SweptHandled) is a mutant which one of the properties rules out.  No    *)
(* specification uses it.                                                  *)
(***************************************************************************)
EXTENDS SwitchConfig

CONSTANTS
  Configs,   \* configurations an administrator tries
  Idle,      \* no poll or event under way
  Polls,     \* polls that overlap
  Changes    \* bound: restarts and failures before things stay as they are

ASSUME SyncAssumption == Changes \in Nat /\ Configs \subseteq Configuration

VARIABLES
  config,    \* what the server runs with
  cached,    \* cachedAccessories: device and services of each accessory
  devices,   \* devices: the handlers of each accessory, by subtype
  disk,      \* the accessories in Homebridge's cache file
  poll,      \* answers under way
  event,     \* an event under way
  left       \* restarts and failures left

vars == <<config, cached, devices, disk, poll, event, left>>

plugin == <<cached, devices, disk>>

Disturb == left > 0 /\ left' = left - 1
-----------------------------------------------------------------------------
(* The plugin.  A view has the cached accessories and the handlers.        *)

Named(states) == {states[i].accessory : i \in DOMAIN states}

Keep(states, a) == {states[i].subtype : i \in {j \in DOMAIN states : states[j].accessory = a}}

Entry(states, a) == states[CHOOSE i \in DOMAIN states : states[i].accessory = a]

(* A service two switches share gets the type of the first.                *)
TypeOf(states, a, subtype) ==
  LET Is(i) == states[i].accessory = a /\ states[i].subtype = subtype
  IN  states[CHOOSE i \in DOMAIN states : Is(i) /\ \A j \in 1..(i - 1) : ~Is(j)].type

Handlers(v, a) == IF a \in DOMAIN v.devices THEN v.devices[a] ELSE <<>>

Services(v, a) == IF a \in DOMAIN v.cached THEN v.cached[a].services ELSE {}

(* upsertService for each of states: a handler that exists keeps its type, *)
(* a new one claims or adds its service.                                   *)
Upserted(v, states, a) ==
  LET held == Handlers(v, a)
  IN  [s \in DOMAIN held \cup Keep(states, a) |->
         IF s \in DOMAIN held THEN held[s] ELSE TypeOf(states, a, s)]

(* applyServiceState for each of states: restores or registers the         *)
(* accessory and gives it its services.                                    *)
Applied(v, states) ==
  [devices |-> [a \in DOMAIN v.devices \cup Named(states) |-> Upserted(v, states, a)],
   cached |-> [a \in DOMAIN v.cached \cup Named(states) |->
     [device |-> IF a \in Named(states) THEN Entry(states, a).device
                 ELSE v.cached[a].device,
      services |-> Services(v, a) \cup
        {[type |-> TypeOf(states, a, s), subtype |-> s] :
           s \in Keep(states, a) \ DOMAIN Handlers(v, a)}]]]

SweptHandled(v, states, a) ==
  {svc \in v.cached[a].services :
     svc.subtype \in DOMAIN Handlers(v, a) => svc.subtype \in Keep(states, a)}

(* pruneTo: services nobody asked for go, claimed or not.                  *)
Swept(v, states, a) ==
  {svc \in v.cached[a].services : svc.subtype \in Keep(states, a)}

PrunedFromView(v, states) ==
  [devices |-> [a \in DOMAIN v.devices \cap Named(states) |-> v.devices[a]],
   cached |-> [a \in DOMAIN v.cached \cap Named(states) |->
     [v.cached[a] EXCEPT !.services = Swept(v, states, a)]]]

(* The second half of refresh: handlers, services and accessories the      *)
(* answer does not name are removed.                                       *)
Pruned(v, states) ==
  [devices |-> [a \in DOMAIN v.devices \cap Named(states) |->
     Restrict(v.devices[a], Keep(states, a))],
   cached |-> [a \in DOMAIN v.cached \cap Named(states) |->
     [v.cached[a] EXCEPT !.services = Swept(v, states, a)]]]

Now == [cached |-> cached, devices |-> devices]

(* Homebridge writes its cache when accessories are registered, restored   *)
(* or unregistered.  That is in the midst of it: some are written with the *)
(* services they had before.                                               *)
Saved(v, early) ==
  [a \in DOMAIN v.cached |->
     IF a \in early THEN [v.cached[a] EXCEPT !.services = Services(Now, a)] ELSE v.cached[a]]

Become(v) ==
  /\ cached' = v.cached
  /\ devices' = v.devices
  /\ IF DOMAIN v.devices = DOMAIN devices /\ DOMAIN v.cached = DOMAIN cached
     THEN UNCHANGED disk
     ELSE \E early \in SUBSET DOMAIN v.cached : disk' = Saved(v, early)

(* A timer sends a poll, and the server answers.                           *)
Answer(p) ==
  /\ poll[p] = Idle
  /\ poll' = [poll EXCEPT ![p] = Listed(config)]
  /\ UNCHANGED <<config, plugin, event, left>>

(* refresh goes on when the answer arrives.                                *)
Refresh(p) ==
  /\ poll[p] # Idle
  /\ \E v \in {Applied(Now, poll[p])} : \E w \in {Pruned(v, poll[p])} : Become(w)
  /\ poll' = [poll EXCEPT ![p] = Idle]
  /\ UNCHANGED <<config, event, left>>

PollFails(p) ==
  /\ poll[p] # Idle
  /\ Disturb
  /\ poll' = [poll EXCEPT ![p] = Idle]
  /\ UNCHANGED <<config, plugin, event>>

(* A device changed, so an event for one of its switches is sent.          *)
Send ==
  /\ event = Idle
  /\ event' \in Range(Listed(config))
  /\ UNCHANGED <<config, plugin, poll, left>>

(* handleEvent.                                                            *)
Deliver ==
  /\ event # Idle
  /\ \E v \in {Applied(Now, <<event>>)} : Become(v)
  /\ event' = Idle
  /\ UNCHANGED <<config, poll, left>>

(* Homebridge starts again: after a stop, which saves, or after a crash.   *)
HomebridgeRestarts ==
  /\ Disturb
  /\ cached' \in {cached, disk}
  /\ disk' = cached'
  /\ devices' = <<>>
  /\ poll' = [p \in Polls |-> Idle]
  /\ event' = Idle
  /\ UNCHANGED config
-----------------------------------------------------------------------------
(* The server starts with another configuration; what it sent before is    *)
(* still on its way.                                                       *)
Reconfigure(c) ==
  /\ Disturb
  /\ Accepted(c)
  /\ config' = c
  /\ UNCHANGED <<plugin, poll, event>>

Init ==
  /\ config \in {c \in Configs : Accepted(c)}
  /\ cached = <<>>
  /\ devices = <<>>
  /\ disk = <<>>
  /\ poll = [p \in Polls |-> Idle]
  /\ event = Idle
  /\ left = Changes

Next ==
  \/ \E p \in Polls : Answer(p) \/ Refresh(p) \/ PollFails(p)
  \/ Send
  \/ Deliver
  \/ HomebridgeRestarts
  \/ \E c \in Configs : Reconfigure(c)

(* A timer starts a poll every minute, and its answer arrives.             *)
Fairness == \A p \in Polls : WF_vars(Answer(p)) /\ WF_vars(Refresh(p))

Spec == Init /\ [][Next]_vars /\ Fairness
-----------------------------------------------------------------------------
(* config.rs validate and state.rs build_switch_state fit together:        *)
(* whatever configuration the server starts with, it lists every switch of *)
(* it, in its order (state.rs: "the service is always represented").       *)
AllSwitchesListed ==
  Listed(config) = [i \in DOMAIN config.switches |-> SwitchState(config.switches[i])]

(* A handler has its accessory, which is cached, and in it the service it  *)
(* pushes to: no sequence of events, late answers and restarts leaves a    *)
(* handler whose service was removed.                                      *)
HandlersBacked ==
  \A a \in DOMAIN devices :
    /\ a \in DOMAIN cached
    /\ \A s \in DOMAIN devices[a] : [type |-> devices[a][s], subtype |-> s] \in cached[a].services

Lists(states, d) == \E i \in DOMAIN states : states[i].device = d

(* An accessory is not unregistered by a step that begins while its device *)
(* has switches in the configuration and in every answer under way,        *)
(* however the switches, their ids, scripts or the text of the device_id   *)
(* change (state.rs: "The accessory is the device"): HomeKit would forget  *)
(* its room, name and automations.  An answer of an earlier configuration  *)
(* without the device is excluded: refresh believes it and unregisters.    *)
StaysPaired ==
  [][\A a \in DOMAIN cached :
       /\ Lists(Listed(config), cached[a].device)
       /\ \A p \in Polls : poll[p] # Idle => Lists(poll[p], cached[a].device)
       => a \in DOMAIN cached']_vars

(* Once nothing is restarted any more, the accessories come to be the      *)
(* devices that are configured, and their services and handlers, by        *)
(* subtype, those of the switches, and stay so: leftovers of earlier       *)
(* configurations, of late answers and events and of Homebridge's cache    *)
(* are swept.  The type of a service is not compared, because the code     *)
(* does not: an entry that was a lock and became a switch keeps its lock   *)
(* service, and its handler until Homebridge restarts.                     *)
InSync ==
  LET states == Listed(config)
  IN  /\ DOMAIN cached = Named(states)
      /\ DOMAIN devices = Named(states)
      /\ \A a \in Named(states) :
           /\ {svc.subtype : svc \in cached[a].services} = Keep(states, a)
           /\ DOMAIN devices[a] = Keep(states, a)

ComesInSync == <>[]InSync
=============================================================================
