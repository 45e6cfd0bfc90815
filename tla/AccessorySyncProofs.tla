-------------------------- MODULE AccessorySyncProofs --------------------------
(***************************************************************************)
(* Three theorems about AccessorySync, for every set of configurations,    *)
(* any number of overlapping polls and any number of restarts and          *)
(* failures: no handler outlives its service, no accessory is unregistered *)
(* while its device has switches, and every switch is listed.              *)
(***************************************************************************)
EXTENDS AccessorySync, TLAPS, FiniteSetTheorems

(* The view of the plugin is consistent: HandlersBacked, of any view.      *)
Backed(v) ==
  \A a \in DOMAIN v.devices :
    /\ a \in DOMAIN v.cached
    /\ \A s \in DOMAIN v.devices[a] :
         [type |-> v.devices[a][s], subtype |-> s] \in v.cached[a].services

(* The UUID of a state is that of its device, whatever it is called.       *)
Own(state) == state.accessory = <<"device", state.device>>

AllOwn(states) == \A i \in DOMAIN states : Own(states[i])

(* The same of cached accessories.                                         *)
Whole(c) ==
  \A a \in DOMAIN c :
    \E d, svcs : c[a] = [device |-> d, services |-> svcs] /\ a = <<"device", d>>

(* HandlersBacked is inductive by itself.  StaysPaired needs that the      *)
(* cache on disk has the same accessories, and that everything under way   *)
(* was derived from the device.                                            *)
Inv ==
  /\ HandlersBacked
  /\ poll = [p \in Polls |-> poll[p]]
  /\ \A p \in Polls : poll[p] = Idle \/ AllOwn(poll[p])
  /\ event = Idle \/ Own(event)
  /\ Whole(cached)
  /\ Whole(disk)
  /\ DOMAIN disk = DOMAIN cached
-----------------------------------------------------------------------------
(* What the server lists is derived from the device.                       *)
LEMMA ListedOwn ==
  ASSUME NEW c
  PROVE  AllOwn(Listed(c))
<1>1. ASSUME NEW sw PROVE Own(SwitchState(sw))
  BY DEF Own, SwitchState, AccessoryUuid
<1> DEFINE kept == {i \in DOMAIN c.switches : Parsed(c.switches[i].device_id) # Null}
           Nth(n) == CHOOSE i \in kept : Cardinality({j \in kept : j <= i}) = n
<1>2. Listed(c) = [n \in 1..Cardinality(kept) |-> SwitchState(c.switches[Nth(n)])]
  BY DEF Listed
<1> HIDE DEF kept, Nth
<1> QED
  BY <1>1, <1>2 DEF AllOwn

(* The state an accessory is created from is one of that accessory.        *)
LEMMA EntryOwn ==
  ASSUME NEW states, AllOwn(states), NEW a \in Named(states)
  PROVE  a = <<"device", Entry(states, a).device>>
<1>1. \E i \in DOMAIN states : states[i].accessory = a
  BY DEF Named
<1>2. \E i \in DOMAIN states : Entry(states, a) = states[i] /\ states[i].accessory = a
  BY <1>1 DEF Entry
<1> QED
  BY <1>2 DEF AllOwn, Own

(* A cached accessory is that of its device.                               *)
LEMMA WholeOwn ==
  ASSUME NEW c, Whole(c), NEW a \in DOMAIN c
  PROVE  a = <<"device", c[a].device>>
<1>1. PICK d, svcs : c[a] = [device |-> d, services |-> svcs] /\ a = <<"device", d>>
  BY DEF Whole
<1>2. c[a].device = d
  BY <1>1
<1> QED
  BY <1>1, <1>2

(* The services an accessory gets.                                         *)
Added(v, states, a) ==
  {[type |-> TypeOf(states, a, s), subtype |-> s] :
     s \in Keep(states, a) \ DOMAIN Handlers(v, a)}

(* What applyServiceState does to a view.                                  *)
LEMMA AppliedOK ==
  ASSUME NEW v, NEW states, Backed(v), Whole(v.cached), AllOwn(states)
  PROVE  /\ Backed(Applied(v, states))
         /\ Whole(Applied(v, states).cached)
         /\ DOMAIN Applied(v, states).cached = DOMAIN v.cached \cup Named(states)
         /\ \A a \in Named(states) : a \in DOMAIN Applied(v, states).devices
         /\ \A a \in Named(states) : Keep(states, a) \subseteq DOMAIN Applied(v, states).devices[a]
<1> DEFINE w == Applied(v, states)
<1>1. DOMAIN w.cached = DOMAIN v.cached \cup Named(states)
  BY DEF Applied
<1>2. DOMAIN w.devices = DOMAIN v.devices \cup Named(states)
  BY DEF Applied
<1>3. \A a \in DOMAIN w.devices : w.devices[a] = Upserted(v, states, a)
  BY DEF Applied
<1>4. \A a \in Named(states) :
        w.cached[a] = [device |-> Entry(states, a).device,
                       services |-> Services(v, a) \cup Added(v, states, a)]
  BY DEF Applied, Added
<1>5. \A a \in DOMAIN w.cached \ Named(states) :
        w.cached[a] = [device |-> v.cached[a].device,
                       services |-> Services(v, a) \cup Added(v, states, a)]
  BY DEF Applied, Added
<1>6. \A a \in DOMAIN w.cached :
        w.cached[a].services = Services(v, a) \cup Added(v, states, a)
  BY DEF Applied, Added
<1>7. \A a \in Named(states) : Keep(states, a) \subseteq DOMAIN w.devices[a]
  BY <1>2, <1>3 DEF Upserted
<1> HIDE DEF w
<1>8. Whole(w.cached)
  <2> SUFFICES ASSUME NEW a \in DOMAIN w.cached
               PROVE  \E d, svcs : /\ w.cached[a] = [device |-> d, services |-> svcs]
                                   /\ a = <<"device", d>>
    BY DEF Whole
  <2>1. CASE a \in Named(states)
    <3>1. a = <<"device", Entry(states, a).device>>
      BY <2>1, EntryOwn
    <3> QED
      BY <2>1, <3>1, <1>4
  <2>2. CASE a \notin Named(states)
    <3>1. a \in DOMAIN v.cached
      BY <2>2, <1>1
    <3>2. a = <<"device", v.cached[a].device>>
      BY <3>1, WholeOwn
    <3> QED
      BY <2>2, <3>2, <1>5
  <2> QED
    BY <2>1, <2>2
<1>9. Backed(w)
  <2> SUFFICES ASSUME NEW a \in DOMAIN w.devices
               PROVE  /\ a \in DOMAIN w.cached
                      /\ \A s \in DOMAIN w.devices[a] :
                           [type |-> w.devices[a][s], subtype |-> s] \in w.cached[a].services
    BY DEF Backed
  <2>1. a \in DOMAIN w.cached
    BY <1>1, <1>2 DEF Backed
  <2>2. w.cached[a].services = Services(v, a) \cup Added(v, states, a)
    BY <2>1, <1>6
  <2>3. ASSUME NEW s \in DOMAIN w.devices[a]
        PROVE  [type |-> w.devices[a][s], subtype |-> s] \in w.cached[a].services
    <3>1. CASE s \in DOMAIN Handlers(v, a)
      <4>1. a \in DOMAIN v.devices /\ Handlers(v, a) = v.devices[a]
        BY <3>1 DEF Handlers
      <4>2. w.devices[a][s] = v.devices[a][s]
        BY <3>1, <4>1, <1>3 DEF Upserted
      <4>3. [type |-> v.devices[a][s], subtype |-> s] \in Services(v, a)
        BY <3>1, <4>1 DEF Backed, Services
      <4> QED
        BY <4>2, <4>3, <2>2
    <3>2. CASE s \notin DOMAIN Handlers(v, a)
      <4>1. s \in Keep(states, a) /\ w.devices[a][s] = TypeOf(states, a, s)
        BY <3>2, <1>3 DEF Upserted
      <4>2. [type |-> TypeOf(states, a, s), subtype |-> s] \in Added(v, states, a)
        BY <3>2, <4>1 DEF Added
      <4> QED
        BY <4>1, <4>2, <2>2
    <3> QED
      BY <3>1, <3>2
  <2> QED
    BY <2>1, <2>3
<1> QED
  BY <1>1, <1>2, <1>7, <1>8, <1>9 DEF w

(* What the second half of refresh does to a view.                         *)
LEMMA PrunedOK ==
  ASSUME NEW v, NEW states, Backed(v), Whole(v.cached),
         \A a \in Named(states) : a \in DOMAIN v.devices,
         \A a \in Named(states) : Keep(states, a) \subseteq DOMAIN v.devices[a]
  PROVE  /\ Backed(Pruned(v, states))
         /\ Whole(Pruned(v, states).cached)
         /\ DOMAIN Pruned(v, states).cached = DOMAIN v.cached \cap Named(states)
<1> DEFINE w == Pruned(v, states)
<1>1. DOMAIN w.cached = DOMAIN v.cached \cap Named(states)
  BY DEF Pruned
<1>2. DOMAIN w.devices = DOMAIN v.devices \cap Named(states)
  BY DEF Pruned
<1>3. \A a \in DOMAIN w.devices : w.devices[a] = [s \in Keep(states, a) |-> v.devices[a][s]]
  BY DEF Pruned, Restrict
<1>4. \A a \in DOMAIN w.cached :
        w.cached[a] = [v.cached[a] EXCEPT !.services = Swept(v, states, a)]
  BY DEF Pruned
<1> HIDE DEF w
<1>5. ASSUME NEW a \in DOMAIN w.cached
      PROVE  /\ w.cached[a] = [device |-> v.cached[a].device,
                                services |-> Swept(v, states, a)]
             /\ w.cached[a].services = Swept(v, states, a)
             /\ a = <<"device", v.cached[a].device>>
  <2>1. a \in DOMAIN v.cached
    BY <1>1
  <2>2. PICK d, svcs : v.cached[a] = [device |-> d, services |-> svcs] /\ a = <<"device", d>>
    BY <2>1 DEF Whole
  <2>3. w.cached[a] = [[device |-> d, services |-> svcs] EXCEPT !.services = Swept(v, states, a)]
    BY <2>2, <1>4
  <2>4. w.cached[a] = [device |-> d, services |-> Swept(v, states, a)]
    BY <2>3
  <2>5. v.cached[a].device = d /\ w.cached[a].services = Swept(v, states, a)
    BY <2>2, <2>4
  <2> QED
    BY <2>2, <2>4, <2>5
<1>6. Whole(w.cached)
  <2> SUFFICES ASSUME NEW a \in DOMAIN w.cached
               PROVE  \E d, svcs : /\ w.cached[a] = [device |-> d, services |-> svcs]
                                   /\ a = <<"device", d>>
    BY DEF Whole
  <2> QED
    BY <1>5
<1>7. ASSUME NEW a \in DOMAIN w.devices
      PROVE  /\ a \in DOMAIN w.cached
             /\ \A s \in DOMAIN w.devices[a] :
                  [type |-> w.devices[a][s], subtype |-> s] \in w.cached[a].services
  <2>1. a \in DOMAIN v.devices /\ a \in Named(states)
    BY <1>2
  <2>2. a \in DOMAIN w.cached
    BY <2>1, <1>1 DEF Backed
  <2>3. ASSUME NEW s \in DOMAIN w.devices[a]
        PROVE  [type |-> w.devices[a][s], subtype |-> s] \in w.cached[a].services
    <3>1. s \in Keep(states, a) /\ w.devices[a][s] = v.devices[a][s]
      BY <1>3
    <3>2. s \in DOMAIN v.devices[a]
      BY <3>1, <2>1
    <3>3. [type |-> v.devices[a][s], subtype |-> s] \in v.cached[a].services
      BY <2>1, <3>2 DEF Backed
    <3>4. [type |-> v.devices[a][s], subtype |-> s].subtype = s
      OBVIOUS
    <3>5. [type |-> v.devices[a][s], subtype |-> s] \in Swept(v, states, a)
      BY <3>1, <3>3, <3>4 DEF Swept
    <3> QED
      BY <3>1, <3>5, <2>2, <1>5
  <2> QED
    BY <2>2, <2>3
<1>8. Backed(w)
  BY <1>7 DEF Backed
<1> QED
  BY <1>1, <1>6, <1>8 DEF w

(* What becomes of the plugin and its cache when a view is applied.        *)
LEMMA BecomeOK ==
  ASSUME NEW v, Backed(v), Whole(v.cached), Become(v),
         Whole(cached), Whole(disk), DOMAIN disk = DOMAIN cached
  PROVE  /\ HandlersBacked'
         /\ Whole(cached')
         /\ Whole(disk')
         /\ DOMAIN disk' = DOMAIN cached'
<1>1. cached' = v.cached /\ devices' = v.devices
  BY DEF Become
<1>2. HandlersBacked'
  BY <1>1 DEF Backed, HandlersBacked
<1>3. CASE UNCHANGED disk /\ DOMAIN v.cached = DOMAIN cached
  BY <1>1, <1>2, <1>3
<1>4. ASSUME NEW early, disk' = Saved(v, early)
      PROVE  Whole(disk') /\ DOMAIN disk' = DOMAIN v.cached
  <2>1. DOMAIN disk' = DOMAIN v.cached
    BY <1>4 DEF Saved
  <2>2. ASSUME NEW a \in DOMAIN disk'
        PROVE  \E d, svcs : disk'[a] = [device |-> d, services |-> svcs] /\ a = <<"device", d>>
    <3>1. a \in DOMAIN v.cached
      BY <2>1
    <3>2. CASE a \in early
      <4>1. disk'[a] = [v.cached[a] EXCEPT !.services = Services(Now, a)]
        BY <1>4, <3>1, <3>2 DEF Saved
      <4>2. PICK d, svcs : /\ v.cached[a] = [device |-> d, services |-> svcs]
                           /\ a = <<"device", d>>
        BY <3>1 DEF Whole
      <4>3. disk'[a] = [[device |-> d, services |-> svcs] EXCEPT !.services = Services(Now, a)]
        BY <4>1, <4>2
      <4>4. disk'[a] = [device |-> d, services |-> Services(Now, a)]
        BY <4>3
      <4> QED
        BY <4>2, <4>4
    <3>3. CASE a \notin early
      <4>1. disk'[a] = v.cached[a]
        BY <1>4, <3>1, <3>3 DEF Saved
      <4>2. PICK d, svcs : /\ v.cached[a] = [device |-> d, services |-> svcs]
                           /\ a = <<"device", d>>
        BY <3>1 DEF Whole
      <4> QED
        BY <4>1, <4>2
    <3> QED
      BY <3>2, <3>3
  <2> QED
    BY <2>1, <2>2 DEF Whole
<1>5. (UNCHANGED disk /\ DOMAIN v.cached = DOMAIN cached) \/ \E early : disk' = Saved(v, early)
  BY DEF Become
<1> QED
  BY <1>1, <1>2, <1>3, <1>4, <1>5

(* What refresh makes of the plugin when the answer of a poll arrives.     *)
LEMMA RefreshOK ==
  ASSUME Inv, NEW p \in Polls, Refresh(p)
  PROVE  /\ HandlersBacked'
         /\ Whole(cached')
         /\ Whole(disk')
         /\ DOMAIN disk' = DOMAIN cached'
         /\ DOMAIN cached \cap Named(poll[p]) \subseteq DOMAIN cached'
<1> DEFINE v == Applied(Now, poll[p])
           w == Pruned(v, poll[p])
<1>1. Become(w)
  BY DEF Refresh
<1>2. Backed(Now) /\ Whole(Now.cached) /\ Now.cached = cached
  BY DEF Inv, HandlersBacked, Backed, Now
<1>3. AllOwn(poll[p])
  BY DEF Inv, Refresh
<1>4. /\ Backed(v)
      /\ Whole(v.cached)
      /\ DOMAIN v.cached = DOMAIN Now.cached \cup Named(poll[p])
      /\ \A a \in Named(poll[p]) : a \in DOMAIN v.devices
      /\ \A a \in Named(poll[p]) : Keep(poll[p], a) \subseteq DOMAIN v.devices[a]
  BY <1>2, <1>3, AppliedOK
<1> HIDE DEF v
<1>5. /\ Backed(w)
      /\ Whole(w.cached)
      /\ DOMAIN w.cached = DOMAIN v.cached \cap Named(poll[p])
  BY <1>4, PrunedOK
<1> HIDE DEF w
<1>6. cached' = w.cached
  BY <1>1 DEF Become
<1>7. /\ HandlersBacked'
      /\ Whole(cached')
      /\ Whole(disk')
      /\ DOMAIN disk' = DOMAIN cached'
  BY <1>1, <1>5, BecomeOK DEF Inv
<1> QED
  BY <1>2, <1>4, <1>5, <1>6, <1>7

(* What an event makes of the plugin.                                      *)
LEMMA DeliverOK ==
  ASSUME Inv, Deliver
  PROVE  /\ HandlersBacked'
         /\ Whole(cached')
         /\ Whole(disk')
         /\ DOMAIN disk' = DOMAIN cached'
         /\ DOMAIN cached \subseteq DOMAIN cached'
<1> DEFINE v == Applied(Now, <<event>>)
<1>1. Become(v)
  BY DEF Deliver
<1>2. Backed(Now) /\ Whole(Now.cached) /\ Now.cached = cached
  BY DEF Inv, HandlersBacked, Backed, Now
<1>3. AllOwn(<<event>>)
  BY DEF Inv, Deliver, AllOwn
<1>4. /\ Backed(v)
      /\ Whole(v.cached)
      /\ DOMAIN v.cached = DOMAIN Now.cached \cup Named(<<event>>)
  BY <1>2, <1>3, AppliedOK
<1> HIDE DEF v
<1>5. cached' = v.cached
  BY <1>1 DEF Become
<1>6. /\ HandlersBacked'
      /\ Whole(cached')
      /\ Whole(disk')
      /\ DOMAIN disk' = DOMAIN cached'
  BY <1>1, <1>4, BecomeOK DEF Inv
<1> QED
  BY <1>2, <1>4, <1>5, <1>6
-----------------------------------------------------------------------------
(* Homebridge starts with no accessories.                                  *)
LEMMA InitInv == Init => Inv
<1> SUFFICES ASSUME Init
             PROVE  Inv
  OBVIOUS
<1>1. HandlersBacked
  BY DEF Init, HandlersBacked
<1>2. Whole(cached) /\ Whole(disk) /\ DOMAIN disk = DOMAIN cached
  BY DEF Init, Whole
<1> QED
  BY <1>1, <1>2 DEF Init, Inv

(* Every step keeps the invariant.                                         *)
LEMMA NextInv == Inv /\ [Next]_vars => Inv'
<1> SUFFICES ASSUME Inv, [Next]_vars
             PROVE  Inv'
  OBVIOUS
<1>1. ASSUME NEW p \in Polls, Answer(p)
      PROVE  Inv'
  <2>1. AllOwn(Listed(config))
    BY ListedOwn
  <2> QED
    BY <1>1, <2>1 DEF Answer, Inv, HandlersBacked, plugin
<1>2. ASSUME NEW p \in Polls, Refresh(p)
      PROVE  Inv'
  <2>1. /\ HandlersBacked'
        /\ Whole(cached')
        /\ Whole(disk')
        /\ DOMAIN disk' = DOMAIN cached'
    BY <1>2, RefreshOK
  <2> QED
    BY <1>2, <2>1 DEF Refresh, Inv
<1>3. ASSUME NEW p \in Polls, PollFails(p)
      PROVE  Inv'
  BY <1>3 DEF PollFails, Inv, HandlersBacked, plugin
<1>4. CASE Send
  <2>1. AllOwn(Listed(config))
    BY ListedOwn
  <2>2. Own(event')
    BY <1>4, <2>1 DEF Send, AllOwn, Range
  <2> QED
    BY <1>4, <2>2 DEF Send, Inv, HandlersBacked, plugin
<1>5. CASE Deliver
  <2>1. /\ HandlersBacked'
        /\ Whole(cached')
        /\ Whole(disk')
        /\ DOMAIN disk' = DOMAIN cached'
    BY <1>5, DeliverOK
  <2> QED
    BY <1>5, <2>1 DEF Deliver, Inv
<1>6. CASE HomebridgeRestarts
  <2>1. HandlersBacked'
    BY <1>6 DEF HomebridgeRestarts, HandlersBacked
  <2>2. Whole(cached')
    BY <1>6 DEF HomebridgeRestarts, Inv
  <2> QED
    BY <1>6, <2>1, <2>2 DEF HomebridgeRestarts, Inv
<1>7. ASSUME NEW c \in Configs, Reconfigure(c)
      PROVE  Inv'
  BY <1>7 DEF Reconfigure, Inv, HandlersBacked, plugin
<1>8. CASE UNCHANGED vars
  BY <1>8 DEF vars, Inv, HandlersBacked
<1> QED
  BY <1>1, <1>2, <1>3, <1>4, <1>5, <1>6, <1>7, <1>8 DEF Next

(* The invariant holds in every reachable state.                           *)
LEMMA Invariance == Spec => []Inv
<1> QED
  BY InitInv, NextInv, PTL DEF Spec

(* No sequence of events, late answers, configurations, stops and crashes  *)
(* leaves the plugin with a handler whose accessory or service is gone     *)
(* (platform.ts refresh and applyServiceState, services.ts pruneTo).       *)
THEOREM HandlersStayBacked == Spec => []HandlersBacked
<1>1. Inv => HandlersBacked
  BY DEF Inv
<1> QED
  BY Invariance, <1>1, PTL

(* Only an answer unregisters accessories, and never that of a device      *)
(* which the configuration and the answers under way have a switch of:     *)
(* the UUID derives from the device, not from the text of its id or the    *)
(* names of the switches (platform.ts refresh, state.rs accessory_uuid).   *)
THEOREM AccessoriesStay == Spec => StaysPaired
<1> DEFINE Stays(a) == /\ Lists(Listed(config), cached[a].device)
                       /\ \A p \in Polls : poll[p] # Idle => Lists(poll[p], cached[a].device)
                       => a \in DOMAIN cached'
<1>1. ASSUME Inv, [Next]_vars
      PROVE  [\A a \in DOMAIN cached : Stays(a)]_vars
  <2>1. ASSUME NEW p \in Polls, Refresh(p), NEW a \in DOMAIN cached,
               Lists(poll[p], cached[a].device)
        PROVE  a \in DOMAIN cached'
    <3>1. PICK i \in DOMAIN poll[p] : poll[p][i].device = cached[a].device
      BY <2>1 DEF Lists
    <3>2. Own(poll[p][i])
      BY <1>1, <2>1, <3>1 DEF Inv, AllOwn, Refresh
    <3>3. a = <<"device", cached[a].device>>
      BY <1>1, <2>1, WholeOwn DEF Inv
    <3>4. a \in Named(poll[p])
      BY <3>1, <3>2, <3>3 DEF Own, Named
    <3> QED
      BY <1>1, <2>1, <3>4, RefreshOK
  <2>2. ASSUME NEW p \in Polls, Refresh(p)
        PROVE  \A a \in DOMAIN cached : Stays(a)
    BY <2>1, <2>2 DEF Refresh
  <2>3. CASE Deliver
    BY <1>1, <2>3, DeliverOK
  <2>4. CASE HomebridgeRestarts
    BY <1>1, <2>4 DEF HomebridgeRestarts, Inv
  <2>5. CASE UNCHANGED cached
    BY <2>5
  <2>6. ASSUME NEW p \in Polls, Answer(p) \/ PollFails(p)
        PROVE  UNCHANGED cached
    BY <2>6 DEF Answer, PollFails, plugin
  <2>7. ASSUME NEW c \in Configs, Reconfigure(c)
        PROVE  UNCHANGED cached
    BY <2>7 DEF Reconfigure, plugin
  <2>8. CASE Send
    BY <2>5, <2>8 DEF Send, plugin
  <2> QED
    BY <1>1, <2>2, <2>3, <2>4, <2>5, <2>6, <2>7, <2>8 DEF Next, vars
<1> QED
  BY <1>1, Invariance, PTL DEF Spec, StaysPaired
-----------------------------------------------------------------------------
(* What the server lists.                                                  *)

(* The n-th of the numbers up to L is n.                                   *)
LEMMA NthOfAll ==
  ASSUME NEW L \in Nat, NEW n \in 1..L
  PROVE  (CHOOSE i \in 1..L : Cardinality({j \in 1..L : j <= i}) = n) = n
<1>1. ASSUME NEW i \in 1..L
      PROVE  Cardinality({j \in 1..L : j <= i}) = i
  <2>1. {j \in 1..L : j <= i} = 1..i
    OBVIOUS
  <2>2. Cardinality(1..i) = i
    BY FS_Interval
  <2> QED BY <2>1, <2>2
<1> QED BY <1>1

(* Of a configuration whose devices all parse every switch is listed.      *)
LEMMA ListedInFull ==
  ASSUME NEW c, c.switches \in Seq(Switch),
         \A i \in DOMAIN c.switches : Parsed(c.switches[i].device_id) # Null
  PROVE  Listed(c) = [i \in DOMAIN c.switches |-> SwitchState(c.switches[i])]
<1> DEFINE all == DOMAIN c.switches
           kept == {i \in all : Parsed(c.switches[i].device_id) # Null}
           L == Len(c.switches)
           Nth(n) == CHOOSE i \in kept : Cardinality({j \in kept : j <= i}) = n
<1>1. kept = 1..L /\ all = 1..L /\ L \in Nat
  OBVIOUS
<1>2. Cardinality(kept) = L
  <2> HIDE DEF kept, L
  <2> QED BY <1>1, FS_Interval
<1>3. ASSUME NEW n \in 1..L PROVE Nth(n) = n
  BY <1>1, NthOfAll
<1>4. Listed(c) = [n \in 1..Cardinality(kept) |-> SwitchState(c.switches[Nth(n)])]
  BY DEF Listed
<1> HIDE DEF kept, L, Nth
<1>5. Listed(c) = [n \in 1..L |-> SwitchState(c.switches[n])]
  BY <1>2, <1>3, <1>4
<1>6. Listed(c) = [n \in all |-> SwitchState(c.switches[n])]
  BY <1>1, <1>5
<1> QED BY <1>6

(* validate accepts no switch whose device does not parse: its device_id   *)
(* is that of one of [[devices]], and those are parsed.                    *)
LEMMA AcceptedParses ==
  ASSUME NEW c, Accepted(c), NEW i \in DOMAIN c.switches
  PROVE  Parsed(c.switches[i].device_id) # Null
<1>1. PICK j \in DOMAIN c.devices : c.devices[j].device_id = c.switches[i].device_id
  BY DEF Accepted, KnownDevice
<1> QED BY <1>1 DEF Accepted

(* The server runs with a configuration that validate accepted.            *)
Running == config \in Configs /\ Accepted(config)

(* Only a restart changes the configuration, and it validates.             *)
LEMMA RunningStep ==
  ASSUME Running, [Next]_vars
  PROVE  Running'
BY DEF Running, Next, vars, Answer, Refresh, PollFails, Send, Deliver,
       HomebridgeRestarts, Reconfigure, Accepted, KnownDevice, Parsed

(* list_switches lists every switch, in the order of the configuration, of *)
(* every configuration the server can start with: what validate lets       *)
(* through list_switches does not drop, although the one compares the text *)
(* of a device_id and the other parses it.                                 *)
THEOREM EverySwitchListed == Spec => []AllSwitchesListed
<1>1. Init => Running
  BY DEF Init, Running
<1>2. Running /\ [Next]_vars => Running'
  BY RunningStep
<1>3. Running => AllSwitchesListed
  <2> SUFFICES ASSUME Running PROVE AllSwitchesListed
    OBVIOUS
  <2>1. config.switches \in Seq(Switch)
    BY SyncAssumption DEF Running, SyncAssumption, Configuration
  <2> QED
    BY <2>1, AcceptedParses, ListedInFull DEF Running, AllSwitchesListed
<1> QED
  BY <1>1, <1>2, <1>3, PTL DEF Spec
=============================================================================
