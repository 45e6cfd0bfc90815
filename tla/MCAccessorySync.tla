---------------------------- MODULE MCAccessorySync ----------------------------
(* The instance of AccessorySync that TLC checks: configurations of two    *)
(* devices that differ in ids, in the text of a device_id, in types,       *)
(* scripts and devices, and some that are rejected.                        *)
EXTENDS AccessorySync

CONSTANTS pc, nas, hyphens, plain, a, b, lock, unlock, locked

T(u, f) == [uuid |-> u, form |-> f]

Dev(t) == [device_id |-> t, mac |-> Null]

Lock(n, t, kind) == [id |-> n, device_id |-> t, type |-> kind, on |-> lock, off |-> unlock,
                     source |-> "status", state |-> locked, value |-> TRUE]

Power(n, t) == [id |-> n, device_id |-> t, type |-> "switch", on |-> lock, off |-> unlock,
                source |-> "online", state |-> Null, value |-> FALSE]

Both == <<Dev(T(pc, hyphens)), Dev(T(nas, hyphens))>>

Config(d, s) == [devices |-> d, switches |-> s]

MCConfigs == {
  \* a lock and a power switch
  Config(Both, <<Lock(a, T(pc, hyphens), "lock"), Power(b, T(pc, hyphens))>>),
  \* their ids change places, the lock becomes a switch
  Config(Both, <<Lock(b, T(pc, hyphens), "switch"), Power(a, T(pc, hyphens))>>),
  \* the lock is gone, the device_id is written in another way
  Config(<<Dev(T(pc, plain))>>, <<Power(b, T(pc, plain))>>),
  \* the lock is on another device, two switches share a service
  Config(Both, <<Lock(a, T(nas, hyphens), "lock"), Lock(b, T(nas, hyphens), "switch")>>),
  \* no switches
  Config(Both, <<>>),
  \* rejected: written in two ways, the same id twice, no state script
  Config(Both, <<Power(a, T(pc, plain))>>),
  Config(Both, <<Power(a, T(pc, hyphens)), Power(a, T(nas, hyphens))>>),
  Config(Both, <<[Power(a, T(pc, hyphens)) EXCEPT !.source = "status"]>>),
  \* rejected: not a UUID
  Config(Both, <<Power(a, T(Null, plain)), Power(b, T(nas, hyphens))>>),
  Config(<<Dev(T(Null, plain))>>, <<Power(a, T(Null, plain))>>)}
=============================================================================
