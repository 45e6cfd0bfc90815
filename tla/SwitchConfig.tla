------------------------------ MODULE SwitchConfig -----------------------------
(***************************************************************************)
(* What the server makes of [[devices]] and [[homekit.switches]]: which    *)
(* configurations it accepts, and the identities it derives from them.     *)
(*                                                                         *)
(* A device_id is text: the UUID it denotes, or Null, and the form it is   *)
(* written in.  validate compares the text, everything after it the UUID.  *)
(* A UUID derived from a name is the name it is hashed from.  What is only *)
(* displayed (names, addresses) is left out.                               *)
(*                                                                         *)
(* Each definition right before the one it resembles (DeviceUnchecked,     *)
(* TextAccessoryUuid) is a mutant which one of the properties of           *)
(* AccessorySync rules out.  No specification uses it.                     *)
(***************************************************************************)
EXTENDS Naturals, SequencesExt

CONSTANTS
  Null,      \* no UUID, no state script, no MAC
  Uuids,     \* devices
  Forms,     \* ways to write a UUID: hyphenated, upper case, without hyphens
  Names,     \* ids of switches
  Scripts    \* ids of scripts

DeviceText == [uuid : Uuids \cup {Null}, form : Forms]

Device == [device_id : DeviceText, mac : {"good", "bad", Null}]

Switch == [id : Names, device_id : DeviceText, type : {"switch", "lock"},
           on : Scripts, off : Scripts, source : {"status", "online"},
           state : Scripts \cup {Null}, value : BOOLEAN]

Configuration == [devices : Seq(Device), switches : Seq(Switch)]

(* Uuid::parse_str, which accepts every form.                              *)
Parsed(text) == text.uuid

DeviceUnchecked(c, i) == TRUE

(* A switch names its device as [[devices]] does, letter by letter.        *)
KnownDevice(c, i) ==
  \E j \in DOMAIN c.devices : c.devices[j].device_id = c.switches[i].device_id

(* validate, but for homekit.api_key, on which no identity depends.        *)
Accepted(c) ==
  /\ \A j \in DOMAIN c.devices :
       Parsed(c.devices[j].device_id) # Null /\ c.devices[j].mac # "bad"
  /\ \A i, j \in DOMAIN c.switches :
       c.switches[i].id = c.switches[j].id => i = j
  /\ \A i \in DOMAIN c.switches :
       /\ KnownDevice(c, i)
       /\ c.switches[i].source = "status" =>
            c.switches[i].state # Null /\ c.switches[i].value

TextAccessoryUuid(text) == <<"device", text>>

(* homekit_device_accessory_uuid: the device decides.                      *)
AccessoryUuid(text) == <<"device", Parsed(text)>>

(* homekit_service_subtype: what the switch does decides, not its id or    *)
(* type.                                                                   *)
ServiceSubtype(sw) ==
  <<"svc", sw.on, sw.off, IF sw.source = "online" THEN "@online" ELSE sw.state>>

(* build_switch_state, as far as it does not depend on the device's state. *)
SwitchState(sw) ==
  [id |-> sw.id, accessory |-> AccessoryUuid(sw.device_id),
   subtype |-> ServiceSubtype(sw), type |-> sw.type, device |-> Parsed(sw.device_id)]

(* list_switches: a switch whose device_id does not parse is left out.     *)
Listed(c) ==
  LET kept == {i \in DOMAIN c.switches : Parsed(c.switches[i].device_id) # Null}
      Nth(n) == CHOOSE i \in kept : Cardinality({j \in kept : j <= i}) = n
  IN  [n \in 1..Cardinality(kept) |-> SwitchState(c.switches[Nth(n)])]
=============================================================================
